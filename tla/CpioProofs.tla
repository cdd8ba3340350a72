----------------------------- MODULE CpioProofs -----------------------------
(***************************************************************************)
(* That the variables of cpio have their types (TypeOK), that it leaves    *)
(* no temporary file (NoTempLeft) and loses no file that there was         *)
(* (NothingLost), that -o writes every name and its data (OnTape), that    *)
(* -i waits for just this data (DataAwaited) and, if it tells of no        *)
(* error, has extracted every name that was wanted, with its data and      *)
(* its links (StatusTells), for any names, files, lists, archives,         *)
(* targets and failures.                                                   *)
(***************************************************************************)
EXTENDS Cpio, SequenceTheorems, FiniteSetTheorems, TLAPS

\* Only a file that is not empty has data in the archive.
Heads == {h \in [name : Name, data : BOOLEAN] : h.data => FileOf[h.name] \notin Empty}
InodeSet ==
    [what : {"old", "part", "empty", "whole"}, of : Name \cup File \cup {None}, fresh : BOOLEAN]

\* What is written is made of names from the list; links that are kept are at least one.
OutInv ==
    /\ svr4 \in BOOLEAN /\ failed \subseteq Name
    /\ input \in Seq(Name) /\ list \in Seq(Name)
    /\ tape \in Seq(Heads)
    /\ DOMAIN kept \subseteq File
    /\ \A f \in DOMAIN kept : kept[f] \in [nlk : 0..NLink[f], lnk : Seq(Name)]
    /\ \A f \in DOMAIN kept : kept[f].nlk > 0 => kept[f].lnk # <<>>

\* At these places filein() is at work on tgt.
Extracting == {"link", "mkstemp", "skip", "ofile", "tfile", "rename", "creat", "write", "restore",
               "tunlink", "unlink"}

LinkOf(f) == {n \in Name : FileOf[n] = f}

\* What can come with the data that is still to be written.
Filled == {n \in Name : size => FileOf[n] \notin Empty}

\* The slot of an inode has names of this inode.
IslInv ==
    /\ DOMAIN isl \subseteq File
    /\ \A f \in DOMAIN isl :
          isl[f] \in [nlk : 0..NLink[f], lnk : Seq(LinkOf(f)), name : LinkOf(f) \cup {None}]

\* What is read, and so what is extracted, are names, and names of a file that has data when
\* there is data.
NameInv ==
    /\ pos \in 0..Len(tape) + 1 /\ (pc = "out" => pos = 0)
    /\ pc \in {"out", "next", "rest", "inpone", "exit"} \cup Extracting
    /\ size \in BOOLEAN
    /\ IslInv
    /\ todo \in Seq(Filled) /\ own \in Filled \cup {None}
    /\ pc \in {"out", "next", "rest"} => todo = <<>> /\ own = None
    /\ pc \in Extracting => tgt \in Name
    /\ pc = "link" => file \in DOMAIN isl /\ first \in Name
    /\ pc # "out" => DOMAIN dir = Name \cup {Temp}

OfileSet == [at : {"null", "header", "link", "freed"}, name : Name \cup {None}]

\* The names in the target lead to inodes that there are.
TreeTypes ==
    /\ ino \in Seq(InodeSet)
    /\ pc # "out" => dir \in [Name \cup {Temp} -> 0..Len(ino)]

\* The rest of the variables.
RestInv ==
    /\ uflag \in BOOLEAN /\ wanted \subseteq Name
    /\ node \in File \cup {None}
    /\ tfile \in BOOLEAN /\ errcnt \in BOOLEAN /\ atRisk \subseteq Name
    /\ left \in 0..Failures

\* There is a temporary file only where filein() has one, and cur_tfile and cur_ofile say so
\* from before rename() until tunlink().
TempInv ==
    /\ pc # "out" /\ dir[Temp] # 0 =>
          \/ pc \in {"skip", "ofile", "tfile", "unlink"}
          \/ pc \in {"rename", "creat", "write", "restore", "tunlink"} /\ tfile
          \/ pc = "exit" /\ (sig \in {"skip", "ofile", "tfile", "unlink"} \/ (sig = None /\ size))
    /\ tfile => /\ pc \in {"rename", "creat", "write", "restore", "tunlink", "exit"}
                /\ pc # "exit" => ofile = AtTgt
    /\ pc = "tfile" => ofile = AtTgt
    /\ pc = "rename" => tfile
    /\ pc # "exit" => sig = None

Inv == OutInv /\ NameInv /\ TempInv /\ ofile \in OfileSet /\ TreeTypes /\ RestInv

-----------------------------------------------------------------------------
(* The archive *)

\* An entry is one of a header with a name and a flag.
LEMMA EntryType == ASSUME NEW n \in Name PROVE Entry(n, TRUE) \in Heads /\ Entry(n, FALSE) \in Heads
  BY DEF Entry, Heads

\* So are the entries of the links that come before the last.
LEMMA ZeroType == ASSUME NEW s \in Seq(Name) PROVE ZeroLinks(s) \in Seq(Heads)
  <1> DEFINE e(n) == Entry(n, TRUE)
  <1>1. \A n \in Name : e(n) \in Heads
    BY EntryType
  <1>2. ZeroLinks(s) = [i \in 1..Len(s) |-> e(s[i])]
    BY DEF ZeroLinks
  <1> HIDE DEF e, Heads
  <1>3. \A i \in 1..Len(s) : e(s[i]) \in Heads
    BY <1>1
  <1> QED
    BY <1>2, <1>3

\* addfile() adds entries only.
LEMMA AddFileType ==
    ASSUME tape \in Seq(Heads), NEW n \in Name, NEW links \in Seq(Name), AddFile(links, n)
    PROVE  tape' \in Seq(Heads) /\ failed' \subseteq failed \cup {n}
  <1> DEFINE e == Entry(n, FALSE)
             z == ZeroLinks(links)
  <1>1. e \in Heads /\ z \in Seq(Heads)
    BY EntryType, ZeroType
  <1>2. tape' = tape \o z \o <<e>> \/ tape' = tape \o z
    BY DEF AddFile
  <1> HIDE DEF e, z, Heads
  <1>3. <<e>> \in Seq(Heads) /\ tape \o z \in Seq(Heads)
    BY <1>1
  <1>4. (tape \o z) \o <<e>> \in Seq(Heads)
    BY <1>3
  <1>5. failed' \subseteq failed \cup {n}
    BY DEF AddFile
  <1> QED
    BY <1>2, <1>3, <1>4, <1>5

\* A slot, old or new, has its links and their number.
LEMMA SlotType ==
    ASSUME CpioOutAssumption, OutInv, NEW n \in Name
    PROVE  FileOf[n] \in File /\ Slot(n) \in [nlk : 0..NLink[FileOf[n]], lnk : Seq(Name)]
  BY DEF CpioOutAssumption, OutInv, Slot

\* cpio -i leaves the archive as it is.
LEMMA Reads == Start \/ Doinp \/ Interrupt => UNCHANGED archive
  BY DEF Start, Doinp, Interrupt, outVars, archive, At, Keep, ReadHeader, TakeFile, FlushLinks,
         StoreLink, FlushEmpty, Trailer, FlushRest, NodeDone, Exit, Inpone, Filein, Unwanted,
         SkipNewer, NoDirectory, NewFile, MakeLink, InLink, Link, UnlinkTarget, LinkFails, Mkstemp,
         MkstempFails, CloseFails, PutEmpty, PutEmptyFails, SetOfile, SetTfile, RenameOld,
         RenameFails, Create, CreateFails, Write,
         WriteFails, Restore, RestoreFails, Forget, UnlinkTemp, TapeEnds

\* cpio -o makes its archive of names.
LEMMA OutStep == OutInv /\ Next => OutInv'
  <1> SUFFICES ASSUME OutInv, Next PROVE OutInv'
    OBVIOUS
  <1>1. CASE UNCHANGED archive
    BY <1>1 DEF OutInv, archive
  <1>2. CASE OutNext
    <2> USE DEF Listed, Linked
    <2>1. list # <<>> => Head(list) \in Name /\ Tail(list) \in Seq(Name)
      BY DEF OutInv
    <2>2. ASSUME LstatFails PROVE OutInv'
      BY <2>1, <2>2 DEF OutInv, LstatFails
    <2>3. ASSUME OutFile PROVE OutInv'
      <3>1. /\ Head(list) \in Name /\ AddFile(<<>>, Head(list))
            /\ list' = Tail(list) /\ list # <<>> /\ UNCHANGED <<svr4, input, kept>>
        BY <2>1, <2>3 DEF OutFile
      <3>2. <<>> \in Seq(Name)
        OBVIOUS
      <3>3. tape' \in Seq(Heads) /\ failed' \subseteq Name
        BY <3>1, <3>2, AddFileType DEF OutInv
      <3> QED
        BY <2>1, <3>1, <3>3 DEF OutInv
    <2>4. ASSUME KeepLink PROVE OutInv'
      <3> DEFINE n == Head(list)
                 f == FileOf[n]
                 k == [nlk |-> Slot(n).nlk - 1, lnk |-> Append(Slot(n).lnk, n)]
      <3>1. n \in Name /\ list' \in Seq(Name) /\ UNCHANGED <<svr4, input, tape, failed>>
        BY <2>1, <2>4 DEF KeepLink
      <3>2. f \in File /\ k \in [nlk : 0..NLink[f], lnk : Seq(Name)] /\ k.lnk # <<>>
        <4>1. Slot(n) \in [nlk : 0..NLink[f], lnk : Seq(Name)] /\ Slot(n).nlk > 1 /\ f \in File
          BY <2>4, <3>1, SlotType, CpioOutAssumption DEF KeepLink
        <4>2. NLink[f] \in Nat
          BY <4>1, CpioOutAssumption DEF CpioOutAssumption
        <4> HIDE DEF n, f
        <4>3. Append(Slot(n).lnk, n) \in Seq(Name) /\ Append(Slot(n).lnk, n) # <<>>
          BY <3>1, <4>1
        <4> QED
          BY <4>1, <4>2, <4>3
      <3>3. kept' = Put(kept, f, k)
        BY <2>4 DEF KeepLink
      <3> HIDE DEF k, f, n
      <3> QED
        BY <3>1, <3>2, <3>3 DEF OutInv, Put
    <2>5. ASSUME LastLink PROVE OutInv'
      <3> DEFINE n == Head(list)
                 f == FileOf[n]
                 k == [Slot(n) EXCEPT !.nlk = 0]
      <3>1. n \in Name /\ list' \in Seq(Name) /\ UNCHANGED <<svr4, input>>
        BY <2>1, <2>5 DEF LastLink
      <3>2. f \in File /\ Slot(n) \in [nlk : 0..NLink[f], lnk : Seq(Name)]
        BY <3>1, SlotType, CpioOutAssumption
      <3>3. tape' \in Seq(Heads) /\ failed' \subseteq Name
        BY <2>5, <3>1, <3>2, AddFileType DEF LastLink, OutInv
      <3>4. k \in [nlk : 0..NLink[f], lnk : Seq(Name)] /\ k.nlk = 0
        <4>1. NLink[f] \in Nat
          BY <3>2, CpioOutAssumption DEF CpioOutAssumption
        <4> QED
          BY <3>2, <4>1
      <3>5. kept' = Put(kept, f, k)
        BY <2>5 DEF LastLink
      <3> HIDE DEF k, f, n
      <3> QED
        BY <3>1, <3>2, <3>3, <3>4, <3>5 DEF OutInv, Put
    <2>6. ASSUME NEW f \in File, LFlush(f) PROVE OutInv'
      <3> DEFINE lnk == kept[f].lnk
      <3>1. /\ f \in DOMAIN kept /\ lnk \in Seq(Name) /\ lnk # <<>>
            /\ UNCHANGED <<svr4, input, list>>
        BY <2>6 DEF LFlush, Unfinished, OutInv
      <3>2. Len(lnk) \in 1..Len(lnk)
        BY <3>1
      <3>3. lnk[Len(lnk)] \in Name /\ SubSeq(lnk, 1, Len(lnk) - 1) \in Seq(Name)
        BY <3>1, <3>2
      <3>4. tape' \in Seq(Heads) /\ failed' \subseteq Name
        BY <2>6, <3>3, AddFileType DEF LFlush, OutInv
      <3> DEFINE k == [kept[f] EXCEPT !.nlk = 0]
      <3>5. kept' = [kept EXCEPT ![f] = k]
        BY <2>6 DEF LFlush
      <3>6. k \in [nlk : 0..NLink[f], lnk : Seq(Name)] /\ k.nlk = 0
        <4>1. NLink[f] \in Nat
          BY CpioOutAssumption DEF CpioOutAssumption
        <4>2. kept[f] \in [nlk : 0..NLink[f], lnk : Seq(Name)]
          BY <3>1 DEF OutInv
        <4> QED
          BY <4>1, <4>2
      <3> HIDE DEF k, lnk
      <3> QED
        BY <3>1, <3>4, <3>5, <3>6 DEF OutInv
    <2> QED
      BY <1>2, <2>2, <2>3, <2>4, <2>5, <2>6 DEF OutNext
  <1> QED
    BY <1>1, <1>2, Reads DEF Next, CopyOut

-----------------------------------------------------------------------------
(* What is read *)

\* What filein() is called for is a name.
LEMMA TgtType ==
    ASSUME todo \in Seq(Filled), own \in Filled \cup {None}, IsLink \/ own # None
    PROVE  tgt \in Filled /\ tgt \in Name
  BY DEF tgt, IsLink, Filled

\* While there is no other data, what could come with it still can.
LEMMA StillFilled ==
    ASSUME size' => size, NEW s \in Seq(Filled), NEW o \in Filled \cup {None}
    PROVE  s \in Seq(Filled') /\ o \in Filled' \cup {None}
  <1>1. Filled \subseteq Filled'
    BY DEF Filled
  <1> QED
    BY <1>1

\* Going on to the next name leaves names.
LEMMA OverTypes ==
    ASSUME todo \in Seq(Filled), own \in Filled \cup {None}, size' => size, NEW o, Over(o)
    PROVE  todo' \in Seq(Filled') /\ own' \in Filled' \cup {None} /\ pc' = "inpone"
  <1>1. /\ pc' = "inpone"
        /\ \/ todo # <<>> /\ todo' = Tail(todo) /\ own' = own
           \/ todo' = todo /\ own' = None
    BY DEF Over, IsLink
  <1>2. todo' \in Seq(Filled) /\ own' \in Filled \cup {None}
    BY <1>1
  <1> QED
    BY <1>1, <1>2, StillFilled

\* So does the begin of flushnode(): all are links of one file.
LEMMA FlushTypes ==
    ASSUME IslInv, NEW f \in File, NEW n \in LinkOf(f) \cup {None}, size' => f \notin Empty,
           FlushNode(f, n)
    PROVE  /\ IslInv' /\ pc' = "inpone"
           /\ todo' \in Seq(Filled') /\ own' \in Filled' \cup {None}
  <1>1. own' = n /\ pc' = "inpone"
    BY DEF FlushNode
  <1>2. LinkOf(f) \subseteq Filled'
    BY DEF LinkOf, Filled
  <1>3. CASE f \in DOMAIN isl /\ isl[f].nlk > 0
    <2> DEFINE k == [isl[f] EXCEPT !.lnk = <<>>]
    <2>1. todo' = isl[f].lnk /\ isl' = [isl EXCEPT ![f] = k]
      BY <1>3 DEF FlushNode
    <2>2. isl[f] \in [nlk : 0..NLink[f], lnk : Seq(LinkOf(f)), name : LinkOf(f) \cup {None}]
      BY <1>3 DEF IslInv
    <2>3. k \in [nlk : 0..NLink[f], lnk : Seq(LinkOf(f)), name : LinkOf(f) \cup {None}]
      <3>1. <<>> \in Seq(LinkOf(f))
        OBVIOUS
      <3> QED
        BY <2>2, <3>1
    <2> HIDE DEF k
    <2>4. IslInv'
      BY <2>1, <2>3 DEF IslInv
    <2>5. todo' \in Seq(Filled')
      BY <1>2, <2>1, <2>2
    <2> QED
      BY <1>1, <1>2, <2>4, <2>5
  <1>4. CASE ~(f \in DOMAIN isl /\ isl[f].nlk > 0)
    <2>1. todo' = <<>> /\ isl' = isl
      BY <1>4 DEF FlushNode
    <2>2. todo' \in Seq(Filled')
      BY <2>1
    <2> QED
      BY <1>1, <1>2, <2>1, <2>2 DEF IslInv
  <1> QED
    BY <1>3, <1>4

\* And a new slot of an inode.
LEMMA NewSlotTypes ==
    ASSUME IslInv, NEW f \in File, NEW k \in 0..NLink[f], NEW lnk \in Seq(LinkOf(f)),
           NEW m \in LinkOf(f) \cup {None}, isl' = NewSlot(f, k, lnk, m)
    PROVE  IslInv'
  <1> DEFINE r == [nlk |-> k, lnk |-> lnk, name |-> m]
  <1>1. r \in [nlk : 0..NLink[f], lnk : Seq(LinkOf(f)), name : LinkOf(f) \cup {None}]
    OBVIOUS
  <1>2. isl' = Put(isl, f, r)
    BY DEF NewSlot
  <1> HIDE DEF r
  <1> QED
    BY <1>1, <1>2 DEF Put, IslInv

\* A number of links changes within its range.
LEMMA NewCount ==
    ASSUME IslInv, NEW f \in DOMAIN isl, NEW k \in 0..NLink[f], NEW m \in LinkOf(f) \cup {None},
           isl' = [isl EXCEPT ![f] = [@ EXCEPT !.nlk = k, !.name = m]]
    PROVE  IslInv'
  <1> DEFINE r == [isl[f] EXCEPT !.nlk = k, !.name = m]
  <1>1. r \in [nlk : 0..NLink[f], lnk : Seq(LinkOf(f)), name : LinkOf(f) \cup {None}]
    BY DEF IslInv
  <1>2. isl' = [isl EXCEPT ![f] = r]
    OBVIOUS
  <1> HIDE DEF r
  <1> QED
    BY <1>1, <1>2 DEF IslInv

\* A header that is read has a name of a file, which has data if there is data.
LEMMA HeaderType ==
    ASSUME CpioOutAssumption, OutInv, NameInv, ReadHeader
    PROVE  /\ pc = "next" /\ pos' \in 0..Len(tape) + 1 /\ pos' # 0 /\ size' \in BOOLEAN
           /\ Header.name \in Name /\ FileOf[Header.name] \in File
           /\ Header.name \in LinkOf(FileOf[Header.name])
           /\ size' => FileOf[Header.name] \notin Empty
           /\ size' = Header.data
           /\ UNCHANGED dir
  <1>1. pos + 1 \in 1..Len(tape)
    BY DEF ReadHeader, NameInv, OutInv
  <1>2. Header \in Heads
    BY <1>1 DEF Header, OutInv
  <1> QED
    BY <1>1, <1>2 DEF ReadHeader, Heads, LinkOf, CpioOutAssumption, tree

\* Every step of cpio -i leaves names to be read and extracted.
LEMMA NameStep == OutInv /\ OutInv' /\ NameInv /\ Next => NameInv'
  <1> SUFFICES ASSUME OutInv, OutInv', NameInv, Next PROVE NameInv'
    OBVIOUS
  <1> USE CpioOutAssumption DEF given, reader, tree, cur, outVars
  <1>1. CASE CopyOut
    <2>1. UNCHANGED <<pc, pos, size, isl, todo, own, dir>> /\ pc = "out"
      BY <1>1 DEF CopyOut, inVars
    <2>2. Filled' = Filled /\ Len(tape') \in Nat
      BY <2>1 DEF Filled, OutInv
    <2>3. IslInv'
      BY <2>1 DEF IslInv, NameInv
    <2> QED
      BY <2>1, <2>2, <2>3 DEF NameInv, Extracting
  <1>2. UNCHANGED tape \/ CopyOut
    BY Reads DEF Next, archive
  <1>3. CASE Start
    <2>1. /\ UNCHANGED <<pos, size, isl, todo, own>> /\ UNCHANGED tape /\ pc' = "next"
          /\ DOMAIN dir' = Name \cup {Temp} /\ pc = "out"
      BY <1>3 DEF Start, archive
    <2>2. Filled' = Filled /\ IslInv'
      BY <2>1 DEF Filled, IslInv, NameInv
    <2> QED
      BY <2>1, <2>2 DEF NameInv, Extracting
  <1>4. CASE TakeFile \/ FlushLinks \/ StoreLink \/ FlushEmpty
    <2> DEFINE n == Header.name
               f == FileOf[n]
    <2>1. ReadHeader /\ tape' = tape
      BY <1>4 DEF TakeFile, FlushLinks, StoreLink, FlushEmpty, ReadHeader, archive
    <2>2. /\ pc = "next" /\ pos' \in 0..Len(tape') + 1 /\ size' \in BOOLEAN
          /\ n \in Name /\ f \in File /\ n \in LinkOf(f) /\ (size' => f \notin Empty)
          /\ UNCHANGED dir /\ size' = Header.data
      BY <2>1, HeaderType
    <2>3. IslInv /\ todo = <<>> /\ own = None /\ DOMAIN dir = Name \cup {Temp}
      BY <2>2 DEF NameInv
    <2>4. CASE TakeFile
      <3>1. pc' = "inpone" /\ own' = n /\ UNCHANGED <<isl, todo>>
        BY <2>4 DEF TakeFile
      <3>2. n \in Filled' /\ IslInv'
        BY <2>2, <2>3, <3>1 DEF Filled, IslInv
      <3>3. todo' \in Seq(Filled')
        BY <2>3, <3>1
      <3> QED
        BY <2>2, <2>3, <3>1, <3>2, <3>3 DEF NameInv, Extracting
    <2>5. CASE FlushLinks \/ FlushEmpty
      <3>1. FlushNode(f, n)
        BY <2>5 DEF FlushLinks, FlushEmpty
      <3>2. /\ IslInv' /\ pc' = "inpone"
            /\ todo' \in Seq(Filled') /\ own' \in Filled' \cup {None}
        BY <2>2, <2>3, <3>1, FlushTypes
      <3> QED
        BY <2>2, <2>3, <3>2 DEF NameInv, Extracting
    <2>6. CASE StoreLink
      <3>1. UNCHANGED <<pc, todo, own>>
        BY <2>6 DEF StoreLink
      <3>2. /\ \A g \in DOMAIN isl :
                  isl[g] \in [nlk : 0..NLink[g], lnk : Seq(LinkOf(g)), name : LinkOf(g) \cup {None}]
            /\ NLink[f] \in Nat
        BY <2>2, <2>3 DEF IslInv, CpioOutAssumption
      <3> HIDE DEF f, n
      <3>3. \E k \in 0..NLink[f], m \in LinkOf(f) \cup {None} :
                \E lnk \in Seq(LinkOf(f)) : isl' = NewSlot(f, k, lnk, m)
        <4>1. f \in DOMAIN isl => Append(isl[f].lnk, n) \in Seq(LinkOf(f))
          BY <2>2, <3>2
        <4>2. <<n>> \in Seq(LinkOf(f))
          BY <2>2
        <4> DEFINE all == NLink[f]
        <4>0. all \in 0..NLink[f] /\ None \in LinkOf(f) \cup {None}
          BY <3>2
        <4>3. CASE f \notin DOMAIN isl /\ isl' = NewSlot(f, all, <<n>>, None)
          BY <4>0, <4>2, <4>3, Zenon
        <4>4. CASE /\ f \in DOMAIN isl /\ isl[f].nlk = 0
                   /\ isl' = NewSlot(f, all, Append(isl[f].lnk, n), None)
          BY <4>0, <4>1, <4>4, Zenon
        <4>5. CASE /\ f \in DOMAIN isl /\ isl[f].nlk > 2
                   /\ isl' = NewSlot(f, isl[f].nlk - 1, Append(isl[f].lnk, n), isl[f].name)
          <5>1. isl[f].nlk - 1 \in 0..NLink[f] /\ isl[f].name \in LinkOf(f) \cup {None}
            BY <3>2, <4>5
          <5> QED
            BY <4>1, <4>5, <5>1
        <4>6. \/ f \notin DOMAIN isl /\ isl' = NewSlot(f, NLink[f], <<n>>, None)
              \/ /\ f \in DOMAIN isl /\ isl[f].nlk = 0
                 /\ isl' = NewSlot(f, NLink[f], Append(isl[f].lnk, n), None)
              \/ /\ f \in DOMAIN isl /\ isl[f].nlk > 2
                 /\ isl' = NewSlot(f, isl[f].nlk - 1, Append(isl[f].lnk, n), isl[f].name)
          BY <2>6 DEF StoreLink, f, n
        <4> QED
          BY <4>3, <4>4, <4>5, <4>6
      <3>4. IslInv'
        BY <2>2, <2>3, <3>3, NewSlotTypes
      <3>5. todo' \in Seq(Filled')
        BY <2>3, <3>1
      <3> QED
        BY <2>2, <2>3, <3>1, <3>4, <3>5 DEF NameInv, Extracting
    <2> QED
      BY <1>4, <2>4, <2>5, <2>6
  <1>5. CASE Trailer \/ Exit
    <2>1. /\ UNCHANGED <<size, isl, todo, own, dir, tape>>
          /\ \/ pc = "next" /\ pc' = "rest" /\ pos = Len(tape) /\ pos' = pos + 1
             \/ pc = "rest" /\ pc' = "exit" /\ pos' = pos
      BY <1>5 DEF Trailer, Exit, archive
    <2>2. Filled' = Filled /\ IslInv'
      BY <2>1 DEF Filled, IslInv, NameInv
    <2> QED
      BY <2>1, <2>2 DEF NameInv, Extracting, OutInv
  <1>6. ASSUME NEW f \in File, FlushRest(f) PROVE NameInv'
    <2>1. FlushNode(f, None) /\ UNCHANGED <<pos, dir, tape>> /\ pc = "rest" /\ size' = FALSE
      BY <1>6 DEF FlushRest, archive
    <2>2. /\ IslInv' /\ pc' = "inpone"
          /\ todo' \in Seq(Filled') /\ own' \in Filled' \cup {None}
      BY <2>1, FlushTypes DEF NameInv
    <2> QED
      BY <2>1, <2>2 DEF NameInv, Extracting
  <1>7. CASE TapeEnds \/ Interrupt
    <2>1. pc' = "exit" /\ pc # "out" /\ UNCHANGED <<pos, size, isl, todo, own, tape>>
      BY <1>7 DEF TapeEnds, InData, Interrupt, Places, archive
    <2>2. DOMAIN dir' = DOMAIN dir
      BY <1>7 DEF TapeEnds, Interrupt, Onint, Rename, Unlink
    <2>3. Filled' = Filled /\ IslInv'
      BY <2>1 DEF Filled, IslInv, NameInv
    <2> QED
      BY <2>1, <2>2, <2>3 DEF NameInv, Extracting
  <1>8. CASE NodeDone
    <2>1. /\ pc' \in {"rest", "next"} /\ pc = "inpone" /\ UNCHANGED <<pos, size, todo, own, dir, tape>>
          /\ todo = <<>> /\ own = None
      BY <1>8 DEF NodeDone, archive
    <2>2. IslInv'
      <3> DEFINE m == IF isl[node].nlk > 2 THEN isl[node].name ELSE None
      <3>1. \/ isl' = isl
            \/ isl' = [isl EXCEPT ![node] = [@ EXCEPT !.nlk = 0, !.name = m]]
        BY <1>8 DEF NodeDone
      <3>2. CASE isl' = isl
        BY <3>2 DEF IslInv, NameInv
      <3>3. CASE node \notin DOMAIN isl /\ isl' = [isl EXCEPT ![node] = [@ EXCEPT !.nlk = 0, !.name = m]]
        BY <3>3 DEF IslInv, NameInv
      <3>4. CASE node \in DOMAIN isl /\ isl' = [isl EXCEPT ![node] = [@ EXCEPT !.nlk = 0, !.name = m]]
        <4>1. IslInv /\ m \in LinkOf(node) \cup {None} /\ NLink[node] \in Nat
          BY <3>4 DEF NameInv, IslInv, CpioOutAssumption
        <4>2. 0 \in 0..NLink[node]
          BY <4>1
        <4> HIDE DEF m
        <4> QED
          BY <3>4, <4>1, <4>2, NewCount
      <3> QED
        BY <3>1, <3>2, <3>3, <3>4
    <2>3. Filled' = Filled
      BY <2>1 DEF Filled
    <2> QED
      BY <2>1, <2>2, <2>3 DEF NameInv, Extracting
  <1>9. CASE Unwanted \/ SkipNewer \/ NoDirectory
    <2>1. pc = "inpone" /\ UNCHANGED <<pos, isl, dir, tape>> /\ \E o : Over(o)
      BY <1>9, Zenon DEF Unwanted, SkipNewer, NoDirectory, Leave, Filein, Inpone, At, archive
    <2>2. size' \in BOOLEAN /\ (size' => size)
      BY <1>9 DEF Unwanted, SkipNewer, NoDirectory, Leave, IsLink
    <2>3. todo' \in Seq(Filled') /\ own' \in Filled' \cup {None} /\ pc' = "inpone"
      BY <2>1, <2>2, OverTypes DEF NameInv
    <2>4. IslInv'
      BY <2>1 DEF IslInv, NameInv
    <2> QED
      BY <2>1, <2>2, <2>3, <2>4 DEF NameInv, Extracting
  <1>10. CASE NewFile \/ MakeLink
    <2>1. /\ pc = "inpone" /\ UNCHANGED <<pos, todo, own, dir, size, tape>> /\ (IsLink \/ own # None)
          /\ pc' \in {"mkstemp", "creat", "link"}
      BY <1>10 DEF NewFile, MakeLink, Filein, Inpone, At, Goto, archive
    <2>2. tgt \in Name /\ tgt' = tgt
      BY <2>1, TgtType DEF NameInv, tgt, IsLink
    <2>3. IslInv'
      <3>1. /\ file \in File /\ NLink[file] \in Nat /\ tgt \in LinkOf(file)
        BY <2>2 DEF file, CpioOutAssumption, LinkOf
      <3>2. CASE isl' = isl
        BY <3>2 DEF NameInv, IslInv
      <3>3. CASE NewFile /\ isl' # isl
        <4> DEFINE k == IF ~svr4 THEN NLink[file] ELSE IF file \in DOMAIN isl THEN isl[file].nlk ELSE 0
        <4>1. isl' = NewSlot(file, k, <<>>, tgt)
          BY <3>3 DEF NewFile, Recorded
        <4>2. k \in 0..NLink[file] /\ IslInv
          BY <3>1 DEF NameInv, IslInv
        <4>3. <<>> \in Seq(LinkOf(file))
          OBVIOUS
        <4> HIDE DEF k
        <4> QED
          BY <3>1, <4>1, <4>2, <4>3, NewSlotTypes
      <3>4. CASE MakeLink /\ isl' # isl
        <4> DEFINE k == isl[file].nlk - 1
                   r == isl[file]
                   m == r.name
        <4>1. /\ isl' = [isl EXCEPT ![file].nlk = @ - 1]
              /\ file \in DOMAIN isl /\ r.nlk > IF svr4 THEN 0 ELSE 1
          BY <3>4 DEF MakeLink, Links, Known
        <4>2. /\ IslInv
              /\ r \in [nlk : 0..NLink[file], lnk : Seq(LinkOf(file)), name : LinkOf(file) \cup {None}]
          BY <4>1 DEF NameInv, IslInv
        <4>3. k \in 0..NLink[file] /\ m \in LinkOf(file) \cup {None}
          BY <3>1, <4>1, <4>2
        <4>4. [r EXCEPT !.nlk = @ - 1] = [r EXCEPT !.nlk = k, !.name = m]
          BY <4>2
        <4>5. isl' = [isl EXCEPT ![file] = [@ EXCEPT !.nlk = k, !.name = m]]
          BY <4>1, <4>4
        <4> HIDE DEF k, m
        <4> QED
          BY <4>1, <4>2, <4>3, <4>5, NewCount
      <3> QED
        BY <1>10, <3>2, <3>3, <3>4
    <2>4. Filled' = Filled
      BY <2>1 DEF Filled
    <2>5. pc' = "link" => file' \in DOMAIN isl' /\ first' \in Name
      <3>1. ASSUME pc' = "link" PROVE MakeLink
        BY <1>10, <3>1 DEF NewFile, Goto
      <3>2. ASSUME MakeLink PROVE file \in DOMAIN isl /\ first \in Name /\ file' = file
        BY <3>2, <2>2 DEF MakeLink, Links, Known, NameInv, IslInv, LinkOf, first, file
      <3>3. ASSUME MakeLink PROVE DOMAIN isl' = DOMAIN isl /\ isl'[file].name = isl[file].name
        BY <3>2, <3>3 DEF MakeLink, NameInv, IslInv
      <3> QED
        BY <3>1, <3>2, <3>3 DEF first
    <2> QED
      BY <2>1, <2>2, <2>3, <2>4, <2>5 DEF NameInv, Extracting
  <1>11. ASSUME pc \in Extracting, UNCHANGED <<pos, isl, tape>>, DOMAIN dir' = DOMAIN dir,
                size' \in BOOLEAN, size' => size, pc' = "link" => pc = "link",
                (\E o : Over(o)) \/ (pc' \in Extracting /\ UNCHANGED <<todo, own>>)
         PROVE  NameInv'
    <2>1. IslInv'
      BY <1>11 DEF IslInv, NameInv
    <2>2. CASE \E o : Over(o)
      <3>1. todo' \in Seq(Filled') /\ own' \in Filled' \cup {None} /\ pc' = "inpone"
        BY <1>11, <2>2, OverTypes DEF NameInv
      <3> QED
        BY <1>11, <2>1, <3>1 DEF NameInv, Extracting
    <2>3. CASE pc' \in Extracting /\ UNCHANGED <<todo, own>>
      <3>1. todo' \in Seq(Filled') /\ own' \in Filled' \cup {None} /\ tgt' = tgt
        BY <1>11, <2>3, StillFilled DEF NameInv, tgt, IsLink
      <3>2. pc' = "link" => file' \in DOMAIN isl' /\ first' \in Name
        BY <1>11, <3>1 DEF NameInv, file, first
      <3> QED
        BY <1>11, <2>1, <2>3, <3>1, <3>2 DEF NameInv, Extracting
    <2> QED
      BY <1>11, <2>2, <2>3
  <1>12. CASE Link \/ UnlinkTarget \/ LinkFails
    <2>0. \/ size' = FALSE /\ (Over(ofile) \/ Over(Null))
          \/ size' = size /\ UNCHANGED <<todo, own>> /\ pc' \in Extracting
      <3>1. Leave(ofile) \/ Leave(Null) \/ Goto("creat") \/ Goto("link")
        BY <1>12, Zenon DEF Link, UnlinkTarget, LinkFails
      <3> QED
        BY <3>1 DEF Leave, Goto, Extracting
    <2>1. pc \in Extracting /\ UNCHANGED <<pos, isl, tape>>
      BY <1>12 DEF Extracting, archive, Link, UnlinkTarget, LinkFails, InLink, At, Unlink, Leave,
                   Goto
    <2>2. DOMAIN dir' = DOMAIN dir
      BY <1>12, <2>1 DEF Extracting, Link, UnlinkTarget, LinkFails, InLink, At, Unlink, Leave, Goto
    <2>3. (\E o : Over(o)) \/ (pc' \in Extracting /\ UNCHANGED <<todo, own>>)
      BY <2>0, Zenon
    <2>4. size' \in BOOLEAN /\ (size' => size)
      <3>1. size \in BOOLEAN
        BY DEF NameInv
      <3> QED
        <4>1. CASE size' = FALSE
          BY <4>1
        <4>2. CASE size' = size
          BY <3>1, <4>2
        <4> QED
          BY <2>0, <4>1, <4>2, Zenon
    <2>5. pc' = "link" => pc = "link"
      BY <1>12 DEF Link, UnlinkTarget, LinkFails, InLink, At, Leave, Over, Goto
    <2> QED
      BY <1>11, <2>1, <2>2, <2>3, <2>4, <2>5
  <1>13. CASE \/ Mkstemp \/ MkstempFails \/ CloseFails \/ PutEmpty \/ PutEmptyFails
              \/ SetOfile \/ SetTfile \/ RenameOld \/ RenameFails
    <2>0. \/ size' = FALSE /\ (Over(ofile) \/ Over(Null))
          \/ size' = size /\ UNCHANGED <<todo, own>> /\ pc' \in Extracting
      <3>1. \/ Leave(ofile) \/ Leave(Null)
            \/ \E p \in {"skip", "ofile", "tfile", "rename", "creat"} : Goto(p)
        BY <1>13, Zenon DEF Mkstemp, MkstempFails, CloseFails, PutEmpty, PutEmptyFails, SetOfile,
                            SetTfile, RenameOld, RenameFails
      <3> QED
        BY <3>1 DEF Leave, Goto, Extracting
    <2>1. pc \in Extracting /\ UNCHANGED <<pos, isl, tape>>
      BY <1>13 DEF Extracting, archive, Mkstemp, MkstempFails, CloseFails, PutEmpty, PutEmptyFails,
                   SetOfile, SetTfile, RenameOld,
                   RenameFails, Keep, At, Leave, Goto
    <2>2. DOMAIN dir' = DOMAIN dir
      BY <1>13, <2>1 DEF Creat, Exists, Rename, Unlink, NameInv, Extracting, Mkstemp,
                         MkstempFails, CloseFails, PutEmpty, PutEmptyFails, SetOfile, SetTfile,
                         RenameOld, RenameFails, Keep, At,
                         Leave, Goto
    <2>3. (\E o : Over(o)) \/ (pc' \in Extracting /\ UNCHANGED <<todo, own>>)
      BY <2>0, Zenon
    <2>4. size' \in BOOLEAN /\ (size' => size)
      <3>1. size \in BOOLEAN
        BY DEF NameInv
      <3> QED
        <4>1. CASE size' = FALSE
          BY <4>1
        <4>2. CASE size' = size
          BY <3>1, <4>2
        <4> QED
          BY <2>0, <4>1, <4>2, Zenon
    <2>5. pc' = "link" => pc = "link"
      BY <1>13 DEF Mkstemp, MkstempFails, CloseFails, PutEmpty, PutEmptyFails, SetOfile, SetTfile,
                   RenameOld, RenameFails, Keep, At,
                   Leave, Over, Goto
    <2> QED
      BY <1>11, <2>1, <2>2, <2>3, <2>4, <2>5
  <1>14. CASE Create \/ CreateFails \/ Write \/ WriteFails
    <2> USE <1>14 DEF Create, CreateFails, Write, WriteFails, Keep, At, Goto
    <2>1. /\ pc \in Extracting /\ pc' \in Extracting \ {"link"}
          /\ UNCHANGED <<pos, isl, tape, todo, own, size>>
      BY DEF Extracting, archive
    <2>2. DOMAIN dir' = DOMAIN dir
      BY <2>1 DEF Creat, Exists, NameInv, Extracting
    <2> QED
      BY <1>11, <2>1, <2>2 DEF NameInv
  <1>15. CASE Restore \/ RestoreFails \/ Forget \/ UnlinkTemp
    <2>0. \/ size' = FALSE /\ (Over(ofile) \/ Over(Null))
          \/ size' = size /\ UNCHANGED <<todo, own>> /\ pc' \in Extracting
      <3>1. Leave(ofile) \/ Leave(Null) \/ Goto("unlink")
        BY <1>15, Zenon DEF Restore, RestoreFails, Forget, UnlinkTemp
      <3> QED
        BY <3>1 DEF Leave, Goto, Extracting
    <2>1. pc \in Extracting /\ UNCHANGED <<pos, isl, tape>>
      BY <1>15 DEF Extracting, archive, Restore, RestoreFails, Forget, UnlinkTemp, Keep, At,
                   Leave, Goto
    <2>2. DOMAIN dir' = DOMAIN dir
      BY <1>15, <2>1 DEF Rename, Unlink, Restore, RestoreFails, Forget, UnlinkTemp, Keep, At,
                         Leave, Goto
    <2>3. (\E o : Over(o)) \/ (pc' \in Extracting /\ UNCHANGED <<todo, own>>)
      BY <2>0, Zenon
    <2>4. size' \in BOOLEAN /\ (size' => size)
      <3>1. size \in BOOLEAN
        BY DEF NameInv
      <3> QED
        <4>1. CASE size' = FALSE
          BY <4>1
        <4>2. CASE size' = size
          BY <3>1, <4>2
        <4> QED
          BY <2>0, <4>1, <4>2, Zenon
    <2>5. pc' = "link" => pc = "link"
      BY <1>15 DEF Restore, RestoreFails, Forget, UnlinkTemp, Keep, At, Leave, Over, Goto
    <2> QED
      BY <1>11, <2>1, <2>2, <2>3, <2>4, <2>5
  <1> QED
    BY <1>1, <1>3, <1>4, <1>5, <1>6, <1>7, <1>8, <1>9, <1>10, <1>12, <1>13, <1>14, <1>15
    DEF Next, Doinp

-----------------------------------------------------------------------------
(* The target, and the rest *)

\* What is made is an inode.
LEMMA MadeType ==
    ASSUME CpioOutAssumption, NEW n \in Name, NEW w \in {"part", "empty", "whole"}
    PROVE  Made(w, n) \in InodeSet /\ Inode(w, None, TRUE) \in InodeSet
  BY DEF CpioOutAssumption, Made, Inode, InodeSet

\* creat() makes one of the inodes, or a new one.
LEMMA CreatTypes ==
    ASSUME NEW D, ino \in Seq(InodeSet), dir \in [D -> 0..Len(ino)], NEW n \in D, NEW i \in InodeSet,
           Creat(n, i)
    PROVE  ino' \in Seq(InodeSet) /\ dir' \in [D -> 0..Len(ino')]
  <1> HIDE DEF InodeSet
  <1>1. CASE dir[n] # 0
    <2>1. ino' = [ino EXCEPT ![dir[n]] = i] /\ dir' = dir
      BY <1>1 DEF Creat, Exists
    <2>2. ino' \in Seq(InodeSet) /\ Len(ino') = Len(ino)
      <3>1. dir[n] \in 1..Len(ino)
        BY <1>1
      <3> HIDE DEF Creat
      <3> QED
        BY <2>1, <3>1, ExceptSeq
    <2> QED
      BY <2>1, <2>2
  <1>2. CASE dir[n] = 0
    <2>1. ino' = Append(ino, i) /\ dir' = [dir EXCEPT ![n] = Len(ino) + 1]
      BY <1>2 DEF Creat, Exists
    <2>2. ino' \in Seq(InodeSet) /\ Len(ino') = Len(ino) + 1 /\ Len(ino) \in Nat
      BY <2>1
    <2> QED
      BY <2>1, <2>2
  <1> QED
    BY <1>1, <1>2

\* Other calls only move the numbers of inodes.
LEMMA MovedTypes ==
    ASSUME NEW D, ino' = ino, ino \in Seq(InodeSet), dir \in [D -> 0..Len(ino)],
           NEW n \in D, NEW m \in D,
           UNCHANGED dir \/ Rename(n, m) \/ Unlink(n) \/ dir' = [dir EXCEPT ![n] = dir[m]]
    PROVE  ino' \in Seq(InodeSet) /\ dir' \in [D -> 0..Len(ino')]
  <1>1. Len(ino) \in Nat
    OBVIOUS
  <1> QED
    BY <1>1 DEF Rename, Unlink

\* The number of failing calls that are left stays in its range.
LEMMA FailsType ==
    ASSUME CpioOutAssumption, left \in 0..Failures, left' = left \/ Fails PROVE left' \in 0..Failures
  BY DEF CpioOutAssumption, Fails

\* The actions but those of filein() that have to do with files.
Reading ==
    \/ TakeFile \/ FlushLinks \/ StoreLink \/ FlushEmpty \/ Trailer \/ NodeDone \/ Exit \/ TapeEnds
    \/ \E f \in File : FlushRest(f)
Choosing == Unwanted \/ SkipNewer \/ NoDirectory \/ NewFile \/ MakeLink
Linking == Link \/ UnlinkTarget \/ LinkFails
Keeping ==
    \/ Mkstemp \/ MkstempFails \/ CloseFails \/ PutEmpty \/ PutEmptyFails
    \/ SetOfile \/ SetTfile \/ RenameOld \/ RenameFails
Writing == Create \/ CreateFails \/ Write \/ WriteFails
Ending == Restore \/ RestoreFails \/ Forget \/ UnlinkTemp

\* These are all.
LEMMA Kinds == Doinp => Reading \/ Choosing \/ Linking \/ Keeping \/ Writing \/ Ending
  BY DEF Doinp, Reading, Choosing, Linking, Keeping, Writing, Ending

\* Each fails at most once, and does not change the flags.
LEMMA Failing ==
    ASSUME OutInv, Next
    PROVE  left' = left \/ Fails
  <1> USE DEF outVars
  <1>1. CASE CopyOut
    BY <1>1 DEF CopyOut, OutNext, LstatFails, OutFile, KeepLink, LastLink, LFlush, AddFile
  <1>2. CASE Start \/ Interrupt
    BY <1>2 DEF Start, Interrupt
  <1>3. CASE Reading
    BY <1>3 DEF Reading, TakeFile, FlushLinks, StoreLink, FlushEmpty, Trailer, NodeDone, Exit,
                TapeEnds,
                FlushRest, ReadHeader, Error
  <1>4. CASE Choosing \/ Linking
    BY <1>4 DEF Choosing, Linking, Unwanted, SkipNewer, NoDirectory, NewFile, MakeLink, Link,
                UnlinkTarget, LinkFails, Fine, Error
  <1>5. CASE Keeping \/ Writing \/ Ending
    BY <1>5 DEF Keeping, Writing, Ending, Mkstemp, MkstempFails, CloseFails, PutEmpty,
                PutEmptyFails, SetOfile, SetTfile, RenameOld,
                RenameFails, Create, CreateFails, Write, WriteFails, Restore, RestoreFails, Forget,
                UnlinkTemp, Fine, Error
  <1> QED
    BY <1>1, <1>2, <1>3, <1>4, <1>5, Kinds DEF Next

\* What the user asked for stays, and an error is not forgotten.
LEMMA FlagStep ==
    ASSUME Next
    PROVE  /\ Start \/ UNCHANGED given
           /\ errcnt' \in {errcnt, TRUE}
           /\ tfile' \in {tfile, TRUE, FALSE}
           /\ node' = node \/ node' \in DOMAIN isl \/ node' = None
  <1>1. CASE CopyOut
    BY <1>1 DEF CopyOut, inVars, given, reader, cur
  <1>2. CASE Start \/ Interrupt
    BY <1>2 DEF Start, Interrupt, given, reader, cur
  <1>3. CASE Reading
    BY <1>3 DEF Reading, TakeFile, FlushLinks, StoreLink, FlushEmpty, Trailer, NodeDone, Exit,
                TapeEnds,
                FlushRest, ReadHeader, Error, given, reader, cur, FlushNode, Reread
  <1>4. CASE Choosing
    <2>1. At("inpone") /\ UNCHANGED tfile /\ (Fine \/ Error \/ errcnt' = TRUE)
      BY <1>4 DEF Choosing, Unwanted, SkipNewer, NoDirectory, NewFile, MakeLink, Filein, Inpone, cur
    <2> QED
      BY <2>1 DEF At, Fine, Error, given
  <1>5. CASE Linking
    <2>1. At("link") /\ UNCHANGED tfile /\ (Fine \/ Error \/ errcnt' = TRUE)
      BY <1>5 DEF Linking, Link, UnlinkTarget, LinkFails, InLink
    <2> QED
      BY <2>1 DEF At, Fine, Error, given
  <1>6. CASE Keeping
    <2>1. (\E p : At(p)) /\ tfile' \in {tfile, TRUE, FALSE} /\ (Fine \/ Error)
      BY <1>6 DEF Keeping, Mkstemp, MkstempFails, CloseFails, PutEmpty, PutEmptyFails, SetOfile,
                  SetTfile, RenameOld, RenameFails,
                  Keep, cur
    <2> QED
      BY <2>1 DEF At, Fine, Error, given
  <1>7. CASE Writing \/ Ending
    <2>1. (\E p : At(p)) /\ tfile' \in {tfile, TRUE, FALSE} /\ (Fine \/ Error)
      BY <1>7 DEF Writing, Ending, Create, CreateFails, Write, WriteFails, Restore, RestoreFails,
                  Forget,
                  UnlinkTemp, Keep, cur
    <2> QED
      BY <2>1 DEF At, Fine, Error, given
  <1> QED
    BY <1>1, <1>2, <1>3, <1>4, <1>5, <1>6, <1>7, Kinds DEF Next

\* cur_ofile is null, or points to a name or to where one was.
LEMMA OfileStep == OutInv /\ NameInv /\ ofile \in OfileSet /\ Next => ofile' \in OfileSet
  <1> SUFFICES ASSUME OutInv, NameInv, ofile \in OfileSet, Next PROVE ofile' \in OfileSet
    OBVIOUS
  <1> USE DEF OfileSet
  <1>1. CASE UNCHANGED ofile
    BY <1>1
  <1>2. CASE CopyOut \/ Start \/ Interrupt
    BY <1>2 DEF CopyOut, Start, Interrupt, inVars, cur
  <1>3. \A n \in Name \cup {None} : Reread(n) => ofile' \in OfileSet
    BY DEF Reread
  <1>4. CASE Reading
    <2>1. ReadHeader => Header.name \in Name
      BY HeaderType, CpioOutAssumption
    <2>2. Reread(None) \/ (ReadHeader /\ Reread(Header.name)) \/ UNCHANGED ofile
      BY <1>4 DEF Reading, TakeFile, FlushLinks, StoreLink, FlushEmpty, Trailer, NodeDone, Exit,
                  TapeEnds, FlushRest, ReadHeader, cur
    <2> QED
      BY <2>1, <2>2, <1>1, <1>3
  <1>5. \A o \in OfileSet : Over(o) => ofile' \in OfileSet
    BY DEF Over
  <1>6. Null \in OfileSet
    BY DEF Null
  <1>7. CASE Choosing \/ Linking
    <2>1. Over(ofile) \/ UNCHANGED ofile
      BY <1>7 DEF Choosing, Linking, Unwanted, SkipNewer, NoDirectory, NewFile, MakeLink, Link,
                  UnlinkTarget, LinkFails, Leave, cur
    <2> QED
      BY <2>1, <1>1, <1>5
  <1>8. CASE Keeping \/ Writing \/ Ending
    <2>1. pc \in Extracting
      BY <1>8 DEF Keeping, Writing, Ending, Mkstemp, MkstempFails, CloseFails, PutEmpty,
                  PutEmptyFails, SetOfile, SetTfile, RenameOld,
                  RenameFails, Create, CreateFails, Write, WriteFails, Restore, RestoreFails,
                  Forget,
                  UnlinkTemp, Keep, At, Extracting
    <2>2. AtTgt \in OfileSet
      BY <2>1 DEF AtTgt, NameInv
    <2>3. Over(ofile) \/ Over(Null) \/ ofile' \in {ofile, AtTgt, Null}
      BY <1>8 DEF Keeping, Writing, Ending, Mkstemp, MkstempFails, CloseFails, PutEmpty,
                  PutEmptyFails, SetOfile, SetTfile, RenameOld,
                  RenameFails, Create, CreateFails, Write, WriteFails, Restore, RestoreFails,
                  Forget,
                  UnlinkTemp, Leave, cur
    <2> QED
      BY <2>2, <2>3, <1>5, <1>6
  <1> QED
    BY <1>2, <1>4, <1>7, <1>8, Kinds DEF Next

\* The names in the target lead to inodes that there are.
LEMMA TreeStep == NameInv /\ TempInv /\ TreeTypes /\ ofile \in OfileSet /\ Next => TreeTypes'
  <1> SUFFICES ASSUME NameInv, TempInv, TreeTypes, ofile \in OfileSet, Next PROVE TreeTypes'
    OBVIOUS
  <1> DEFINE D == Name \cup {Temp}
  <1>1. CASE CopyOut
    BY <1>1 DEF CopyOut, inVars, tree, TreeTypes
  <1>2. CASE Start
    <2>1. PICK t \in Targets : dir' = [n \in D |-> IF n = Temp THEN 0 ELSE t.dir[n]] /\ ino' = t.ino
      BY <1>2 DEF Start
    <2>2. /\ t.ino \in Seq([what : {"old"}, of : Name, fresh : BOOLEAN])
          /\ t.dir \in [Name -> 0..Len(t.ino)]
      BY CpioAssumption DEF CpioAssumption
    <2>3. [what : {"old"}, of : Name, fresh : BOOLEAN] \subseteq InodeSet
      BY DEF InodeSet
    <2> HIDE DEF InodeSet
    <2>4. ino' \in Seq(InodeSet) /\ Len(t.ino) \in Nat
      <3> DEFINE Old == [what : {"old"}, of : Name, fresh : BOOLEAN]
      <3>1. ino' \in Seq(Old) /\ Old \subseteq InodeSet
        BY <2>1, <2>2, <2>3
      <3> HIDE DEF Old
      <3> QED
        BY <2>1, <3>1
    <2>5. dir' \in [D -> 0..Len(ino')]
      BY <2>1, <2>2, <2>4
    <2> QED
      BY <2>4, <2>5 DEF TreeTypes
  <1>3. ASSUME pc # "out", ino' = ino,
               UNCHANGED dir \/ \E n, m \in D : \/ Rename(n, m) \/ Unlink(n)
                                                \/ dir' = [dir EXCEPT ![n] = dir[m]]
        PROVE  TreeTypes'
    <2>1. Temp \in D
      OBVIOUS
    <2> HIDE DEF D
    <2>2. ino \in Seq(InodeSet) /\ dir \in [D -> 0..Len(ino)]
      BY <1>3 DEF TreeTypes, D
    <2>3. ino' \in Seq(InodeSet) /\ dir' \in [D -> 0..Len(ino')]
      BY <1>3, <2>1, <2>2, MovedTypes
    <2> QED
      BY <2>3 DEF TreeTypes, D
  <1>4. ASSUME pc # "out", NEW n \in D, NEW i \in InodeSet, Creat(n, i) PROVE TreeTypes'
    <2> HIDE DEF D
    <2>1. ino \in Seq(InodeSet) /\ dir \in [D -> 0..Len(ino)]
      BY <1>4 DEF TreeTypes, D
    <2>2. ino' \in Seq(InodeSet) /\ dir' \in [D -> 0..Len(ino')]
      BY <1>4, <2>1, CreatTypes
    <2> QED
      BY <2>2 DEF TreeTypes, D
  <1>5. CASE Reading \/ Choosing
    <2>1. UNCHANGED tree /\ pc # "out"
      BY <1>5 DEF Reading, TakeFile, FlushLinks, StoreLink, FlushEmpty, Trailer, NodeDone, Exit,
                  TapeEnds, InData, FlushRest, ReadHeader, Choosing, Unwanted, SkipNewer, NoDirectory,
                  NewFile, MakeLink, Filein, Inpone, At
    <2> QED
      BY <2>1, <1>3 DEF tree
  <1>6. CASE Linking
    <2>1. pc = "link" /\ ino' = ino /\ tgt \in D
      BY <1>6 DEF Linking, Link, UnlinkTarget, LinkFails, InLink, At, tree, NameInv, Extracting
    <2>2. CASE Link
      <3>1. dir' = [dir EXCEPT ![tgt] = dir[first]] /\ dir[first] # 0 /\ first \in D
        BY <2>1, <2>2 DEF Link, Exists, NameInv
      <3> QED
        BY <2>1, <3>1, <1>3
    <2>3. CASE UnlinkTarget \/ LinkFails
      <3>1. Unlink(tgt) \/ UNCHANGED dir
        BY <2>3 DEF UnlinkTarget, LinkFails, tree
      <3> QED
        BY <2>1, <3>1, <1>3
    <2> QED
      BY <1>6, <2>2, <2>3 DEF Linking
  <1>7. CASE Keeping
    <2>1. pc \in Extracting /\ tgt \in Name /\ pc # "out"
      BY <1>7 DEF Keeping, Mkstemp, MkstempFails, CloseFails, PutEmpty, PutEmptyFails, SetOfile,
                  SetTfile, RenameOld, RenameFails, Keep,
                  At, Extracting, NameInv
    <2>2. CASE Mkstemp \/ CloseFails
      <3>1. Creat(Temp, Inode("empty", None, TRUE))
        BY <2>2 DEF Mkstemp, CloseFails
      <3>2. Inode("empty", None, TRUE) \in InodeSet
        BY DEF Inode, InodeSet
      <3> QED
        BY <2>1, <3>1, <3>2, <1>4
    <2>3. CASE ~Mkstemp /\ ~CloseFails
      <3>1. ino' = ino /\ (UNCHANGED dir \/ Rename(tgt, Temp) \/ Rename(Temp, tgt) \/ Unlink(Temp))
        BY <1>7, <2>3 DEF Keeping, MkstempFails, CloseFails, PutEmpty, PutEmptyFails, SetOfile,
                          SetTfile, RenameOld, RenameFails, tree
      <3> QED
        BY <2>1, <3>1, <1>3
    <2> QED
      BY <2>2, <2>3
  <1>8. CASE Writing
    <2>1. pc \in Extracting /\ tgt \in Name /\ pc # "out"
      BY <1>8 DEF Writing, Create, CreateFails, Write, WriteFails, Keep, At, Extracting, NameInv
    <2>2. UNCHANGED tree \/ \E w \in {"part", "empty", "whole"} : Creat(tgt, Made(w, tgt))
      BY <1>8 DEF Writing, Create, CreateFails, Write, WriteFails
    <2>3. \A w \in {"part", "empty", "whole"} : Made(w, tgt) \in InodeSet
      BY <2>1, MadeType, CpioOutAssumption
    <2> QED
      BY <2>1, <2>2, <2>3, <1>3, <1>4 DEF tree
  <1>9. CASE Ending
    <2>1. pc \in Extracting /\ tgt \in Name /\ pc # "out"
      BY <1>9 DEF Ending, Restore, RestoreFails, Forget, UnlinkTemp, Keep, At, Extracting, NameInv
    <2>2. ino' = ino /\ (UNCHANGED dir \/ Rename(Temp, tgt) \/ Unlink(Temp))
      BY <1>9 DEF Ending, Restore, RestoreFails, Forget, UnlinkTemp, tree
    <2> QED
      BY <2>1, <2>2, <1>3
  <1>10. CASE Interrupt
    <2>1. ino' = ino /\ pc # "out" /\ Onint /\ (ofile.name \in Name \/ ofile.name = None)
      BY <1>10 DEF Interrupt, Places, OfileSet
    <2>2. CASE ofile.name \in Name
      BY <2>1, <2>2, <1>3 DEF Onint
    <2>3. CASE ofile.name = None /\ ~Rename(Temp, ofile.name)
      BY <2>1, <2>3, <1>3 DEF Onint
    <2>4. CASE ofile.name = None /\ Rename(Temp, ofile.name)
      <3>1. ~tfile
        BY <1>10, <2>4, CpioAssumption DEF TempInv, NameInv, AtTgt, Extracting, Interrupt, Places,
                                       CpioAssumption
      <3> QED
        BY <2>1, <2>4, <3>1, <1>3 DEF Onint
    <2> QED
      BY <2>1, <2>2, <2>3, <2>4
  <1> QED
    BY <1>1, <1>2, <1>5, <1>6, <1>7, <1>8, <1>9, <1>10, Kinds DEF Next

\* The flags, the counter of errors and the history have their types.
LEMMA RestStep == OutInv /\ NameInv /\ RestInv /\ Next => RestInv'
  <1> SUFFICES ASSUME OutInv, NameInv, RestInv, Next PROVE RestInv'
    OBVIOUS
  <1>1. left' \in 0..Failures
    BY Failing, FailsType, CpioOutAssumption DEF RestInv
  <1>2. errcnt' \in BOOLEAN /\ tfile' \in BOOLEAN /\ node' \in File \cup {None}
    BY FlagStep DEF RestInv, NameInv, IslInv
  <1>3. uflag' \in BOOLEAN /\ wanted' \subseteq Name
    <2>1. CASE UNCHANGED given
      BY <2>1 DEF RestInv, given
    <2>2. CASE Start
      BY <2>2, CpioAssumption DEF Start, CpioAssumption
    <2> QED
      BY <2>1, <2>2, FlagStep
  <1>4. atRisk' \subseteq Name
    BY DEF Next, RestInv
  <1> QED
    BY <1>1, <1>2, <1>3, <1>4 DEF RestInv

-----------------------------------------------------------------------------
(* The temporary file *)

\* Outside Over(), where the name is left as it is, cur_ofile goes on to point to it.
LEMMA Stays == UNCHANGED <<todo, own>> => AtTgt' = AtTgt
  BY DEF AtTgt, IsLink, tgt

\* Every step keeps cur_tfile to what it says.
LEMMA TempStep == NameInv /\ NameInv' /\ TempInv /\ Next => TempInv'
  <1> SUFFICES ASSUME NameInv, NameInv', TempInv, Next PROVE TempInv'
    OBVIOUS
  <1> USE CpioAssumption DEF given, reader, tree, cur, archive, outVars
  <1>1. CASE CopyOut
    BY <1>1 DEF CopyOut, inVars, TempInv
  <1>2. CASE Start
    BY <1>2 DEF Start, TempInv
  <1>3. CASE TakeFile \/ FlushLinks \/ StoreLink \/ FlushEmpty \/ Trailer \/ NodeDone \/ Exit
             \/ \E f \in File : FlushRest(f)
    <2>1. UNCHANGED <<dir, tfile, sig>> /\ pc \in {"next", "rest", "inpone"}
          /\ pc' \in {"next", "rest", "inpone", "exit"}
      BY <1>3 DEF TakeFile, FlushLinks, StoreLink, FlushEmpty, Trailer, NodeDone, Exit, FlushRest,
                  ReadHeader, Reread, FlushNode
    <2> QED
      BY <2>1 DEF TempInv
  <1>4. CASE Unwanted \/ SkipNewer \/ NoDirectory \/ NewFile \/ MakeLink
    <2>1. UNCHANGED <<dir, tfile, sig>> /\ pc = "inpone"
          /\ pc' \in {"inpone", "mkstemp", "creat", "link"}
      BY <1>4 DEF Unwanted, SkipNewer, NoDirectory, NewFile, MakeLink, Filein, Inpone, At, Leave,
                  Over,
                  Goto
    <2> QED
      BY <2>1 DEF TempInv
  <1>5. CASE Link \/ UnlinkTarget \/ LinkFails
    <2>1. UNCHANGED <<tfile, sig>> /\ pc = "link" /\ pc' \in {"inpone", "creat", "link"}
      BY <1>5 DEF Link, UnlinkTarget, LinkFails, InLink, At, Leave, Over, Goto
    <2>2. tgt \in Name /\ Temp \in DOMAIN dir
      BY <2>1 DEF NameInv, Extracting
    <2>3. dir'[Temp] = dir[Temp]
      BY <1>5, <2>2 DEF Link, UnlinkTarget, LinkFails, Unlink
    <2> QED
      BY <2>1, <2>3 DEF TempInv
  <1>6. CASE Mkstemp \/ MkstempFails \/ CloseFails
    <2>1. UNCHANGED <<tfile, sig>> /\ pc = "mkstemp"
      BY <1>6 DEF Mkstemp, MkstempFails, CloseFails, Keep, At
    <2>2. CASE Mkstemp \/ CloseFails
      BY <2>1, <2>2 DEF Mkstemp, CloseFails, Goto, TempInv
    <2>3. CASE MkstempFails
      BY <2>1, <2>3 DEF MkstempFails, Leave, Over, TempInv
    <2> QED
      BY <1>6, <2>2, <2>3
  <1>7. CASE SetOfile
    <2>1. UNCHANGED <<dir, sig, tfile, todo, own>> /\ pc = "ofile" /\ pc' = "tfile" /\ ofile' = AtTgt
      BY <1>7 DEF SetOfile, Keep, At, Goto
    <2>2. ofile' = AtTgt'
      BY <2>1, Stays
    <2> QED
      BY <2>1, <2>2 DEF TempInv
  <1>8. CASE SetTfile
    <2>1. UNCHANGED <<dir, sig, ofile, todo, own>> /\ pc = "tfile" /\ pc' = "rename" /\ tfile'
      BY <1>8 DEF SetTfile, Keep, At, Goto
    <2>2. ofile' = AtTgt'
      BY <2>1, Stays DEF TempInv
    <2> QED
      BY <2>1, <2>2 DEF TempInv
  <1>9. CASE RenameOld \/ CreateFails \/ Create \/ Write \/ WriteFails
    <2> USE <1>9 DEF RenameOld, Create, CreateFails, Write, WriteFails, Keep, At, Goto
    <2>1. /\ UNCHANGED <<sig, tfile, todo, own>>
          /\ pc \in {"rename", "creat", "write"} /\ pc' \in {"creat", "write", "restore", "tunlink"}
          /\ pc # "rename" => pc' # "creat"
      OBVIOUS
    <2>2. ofile' \in {ofile, AtTgt}
      OBVIOUS
    <2>3. tfile => ofile' = AtTgt'
      BY <2>1, <2>2, Stays DEF TempInv
    <2>4. dir[Temp] # 0 => tfile
      BY <2>1 DEF TempInv
    <2>5. tgt \in Name /\ Temp \in DOMAIN dir
      BY <2>1 DEF NameInv, Extracting
    <2>6. dir'[Temp] # 0 => tfile
      <3>1. CASE RenameOld
        BY <3>1, <2>1 DEF TempInv
      <3>2. CASE ~RenameOld
        BY <3>2, <2>4, <2>5 DEF Creat
      <3> QED
        BY <3>1, <3>2
    <2> QED
      BY <2>1, <2>3, <2>6 DEF TempInv
  <1>10. CASE RenameFails \/ Restore \/ RestoreFails \/ PutEmpty \/ PutEmptyFails
    <2> USE <1>10 DEF RenameFails, Restore, RestoreFails, PutEmpty, PutEmptyFails, Keep, At, Leave,
                      Over, Rename, Unlink
    <2>1. pc \in {"skip", "rename", "restore"} /\ pc' = "inpone" /\ sig' = sig /\ ~tfile'
      OBVIOUS
    <2>2. tgt \in Name /\ Temp \in DOMAIN dir
      BY <2>1 DEF NameInv, Extracting
    <2>3. dir'[Temp] = 0
      BY <2>1, <2>2 DEF TempInv
    <2> QED
      BY <2>1, <2>3 DEF TempInv
  <1>11. CASE Forget
    <2>1. UNCHANGED <<dir, sig>> /\ pc = "tunlink" /\ ~tfile'
          /\ pc' = (IF tfile THEN "unlink" ELSE "inpone")
      BY <1>11 DEF Forget, Keep, At, Leave, Over, Goto
    <2> QED
      BY <2>1 DEF TempInv
  <1>12. CASE UnlinkTemp
    <2>1. UNCHANGED <<sig, tfile>> /\ pc = "unlink" /\ pc' = "inpone" /\ Temp \in DOMAIN dir
      BY <1>12 DEF UnlinkTemp, Keep, At, Leave, Over, NameInv, Extracting
    <2>2. dir'[Temp] = 0
      BY <1>12, <2>1 DEF UnlinkTemp, Unlink
    <2> QED
      BY <2>1, <2>2 DEF TempInv
  <1>13. CASE TapeEnds
    <2>1. UNCHANGED <<dir, sig, tfile, size>> /\ pc \notin {"out", "exit"} /\ pc' = "exit"
          /\ (pc = "next" \/ size)
      BY <1>13 DEF TapeEnds, InData
    <2> QED
      BY <2>1 DEF TempInv
  <1>14. CASE Interrupt
    <2>1. pc' = "exit" /\ sig' = pc /\ tfile' = tfile /\ ofile' = ofile /\ pc \notin {"out", "exit"}
      BY <1>14 DEF Interrupt, Places
    <2>2. Temp \in DOMAIN dir
      BY <2>1 DEF NameInv
    <2>3. CASE tfile
      <3>1. pc \in {"rename", "creat", "write", "restore", "tunlink"} /\ ofile = AtTgt
        BY <2>1, <2>3 DEF TempInv
      <3>2. ofile.at \in {"link", "header"} /\ ofile.name \in Name
        BY <3>1 DEF AtTgt, NameInv, Extracting
      <3>3. dir'[Temp] = 0
        BY <1>14, <2>2, <2>3, <3>2 DEF Interrupt, Onint, Rename
      <3> QED
        BY <2>1, <2>3, <3>3 DEF TempInv
    <2>4. CASE ~tfile
      <3>1. dir'[Temp] \in {0, dir[Temp]}
        BY <1>14, <2>2, <2>4 DEF Interrupt, Onint, Unlink
      <3>2. dir[Temp] # 0 => pc \in {"skip", "ofile", "tfile", "unlink"}
        BY <2>1, <2>4 DEF TempInv
      <3> QED
        BY <2>1, <2>4, <3>1, <3>2 DEF TempInv
    <2> QED
      BY <2>3, <2>4
  <1> QED
    BY <1>1, <1>2, <1>3, <1>4, <1>5, <1>6, <1>7, <1>8, <1>9, <1>10, <1>11, <1>12, <1>13, <1>14
    DEF Next, Doinp

-----------------------------------------------------------------------------
\* The invariant holds at first, for archives of cpio -o and of others.
LEMMA InvInit == Init => Inv
  <1> SUFFICES ASSUME Init PROVE Inv
    OBVIOUS
  <1>1. /\ kept = <<>> /\ (list = <<>> \/ list \in Lists) /\ (tape = <<>> \/ tape \in Foreign)
        /\ (input = <<>> \/ input \in Lists)
        /\ svr4 \in BOOLEAN /\ failed = {} /\ left = Failures
    BY DEF Init, OutInit
  <1>2. OutInv
    <2>1. Foreign \subseteq Seq(Heads) /\ Lists \subseteq Seq(Name)
      BY CpioOutAssumption, CpioAssumption, Zenon DEF CpioOutAssumption, CpioAssumption, Heads
    <2> HIDE DEF Heads
    <2>2. list \in Seq(Name) /\ input \in Seq(Name) /\ tape \in Seq(Heads)
      <3>1. <<>> \in Seq(Name) /\ <<>> \in Seq(Heads)
        OBVIOUS
      <3> QED
        BY <1>1, <2>1, <3>1
    <2>3. DOMAIN kept = {}
      BY <1>1
    <2> QED
      BY <1>1, <2>2, <2>3 DEF OutInv
  <1>3. NameInv
    <2>1. pc = "out" /\ pos = 0 /\ size = FALSE /\ isl = <<>> /\ todo = <<>> /\ own = None
      BY DEF Init
    <2>2. todo \in Seq(Filled)
      BY <2>1
    <2>3. IslInv
      BY <2>1 DEF IslInv
    <2>4. pos \in 0..Len(tape) + 1
      <3>1. Len(tape) \in Nat
        BY <1>2 DEF OutInv
      <3> QED
        BY <2>1, <3>1
    <2> QED
      BY <2>1, <2>2, <2>3, <2>4 DEF NameInv, Extracting
  <1>4. TempInv
    BY DEF Init, TempInv
  <1>5. ofile \in OfileSet
    BY DEF Init, OfileSet
  <1>6. TreeTypes
    <2>1. ino = <<>> /\ pc = "out"
      BY DEF Init
    <2> HIDE DEF InodeSet
    <2>2. ino \in Seq(InodeSet)
      BY <2>1
    <2> QED
      BY <2>1, <2>2 DEF TreeTypes
  <1>7. RestInv
    <2>1. left \in 0..Failures
      BY <1>1, CpioOutAssumption DEF CpioOutAssumption
    <2>2. /\ uflag = FALSE /\ wanted = {} /\ node = None /\ tfile = FALSE /\ errcnt = FALSE
          /\ atRisk = {}
      BY DEF Init
    <2> QED
      BY <2>1, <2>2 DEF RestInv
  <1> QED
    BY <1>2, <1>3, <1>4, <1>5, <1>6, <1>7 DEF Inv

\* And through every step.
LEMMA InvStep == Inv /\ [Next]_vars => Inv'
  <1>1. Inv /\ Next => Inv'
    BY OutStep, NameStep, TempStep, OfileStep, TreeStep, RestStep DEF Inv
  <1>2. Inv /\ UNCHANGED vars => Inv'
    <2> SUFFICES ASSUME Inv, UNCHANGED vars PROVE Inv'
      OBVIOUS
    <2> USE DEF vars, outVars, archive, inVars, given, reader, tree, cur
    <2>1. OutInv' /\ RestInv' /\ (ofile \in OfileSet)' /\ TreeTypes'
      BY DEF Inv, OutInv, RestInv, TreeTypes
    <2>2. NameInv'
      <3>1. Filled' = Filled /\ IslInv' /\ tgt' = tgt
        BY DEF Inv, NameInv, Filled, IslInv, tgt, IsLink
      <3>2. file' = file /\ first' = first
        BY <3>1 DEF file, first
      <3> QED
        BY <3>1, <3>2 DEF Inv, NameInv
    <2>3. TempInv'
      BY DEF Inv, TempInv, AtTgt, tgt, IsLink
    <2> QED
      BY <2>1, <2>2, <2>3 DEF Inv
  <1> QED
    BY <1>1, <1>2

\* Each variable has its type.
LEMMA InvTypes == Inv => TypeOK
  <1> SUFFICES ASSUME Inv PROVE TypeOK
    OBVIOUS
  <1>1. OutType
    <2>1. \A f \in DOMAIN kept : kept[f].nlk \in 0..NLink[f] /\ kept[f].lnk \in Seq(Name)
      BY DEF Inv, OutInv
    <2>2. tape \in Seq([name : Name, data : BOOLEAN])
      <3>1. Heads \subseteq [name : Name, data : BOOLEAN]
        BY DEF Heads
      <3> QED
        BY <3>1, SeqMonotonic DEF Inv, OutInv
    <2> QED
      BY <2>1, <2>2 DEF Inv, OutInv, RestInv, OutType
  <1>2. \A f \in DOMAIN isl :
            isl[f].nlk \in 0..NLink[f] /\ isl[f].lnk \in Seq(Name) /\ isl[f].name \in Name \cup {None}
    <2> TAKE f \in DOMAIN isl
    <2>1. /\ isl[f].nlk \in 0..NLink[f] /\ isl[f].lnk \in Seq(LinkOf(f))
          /\ isl[f].name \in LinkOf(f) \cup {None}
      BY DEF Inv, NameInv, IslInv
    <2>2. LinkOf(f) \subseteq Name
      BY DEF LinkOf
    <2> QED
      BY <2>1, <2>2, SeqMonotonic
  <1>3. todo \in Seq(Name) /\ own \in Name \cup {None}
    <2>1. Filled \subseteq Name
      BY DEF Filled
    <2> QED
      BY <2>1, SeqMonotonic DEF Inv, NameInv
  <1>4. DOMAIN isl \subseteq File
    BY DEF Inv, NameInv, IslInv
  <1>5. ofile.at \in {"null", "header", "link", "freed"} /\ ofile.name \in Name \cup {None}
    BY DEF Inv, OfileSet
  <1>6. /\ pc \in Places \cup {"out", "exit"}
        /\ pos \in 0..Len(tape) + 1 /\ size \in BOOLEAN
    BY DEF Inv, NameInv, Extracting, Places
  <1> QED
    BY <1>1, <1>2, <1>3, <1>4, <1>5, <1>6 DEF Inv, TreeTypes, RestInv, TypeOK

\* Whatever is written and extracted, the counts of links stay between 0 and st_nlink, the
\* queues hold names, and the names in the target lead to inodes that there are.
THEOREM CpioTypes == Spec => []TypeOK
  BY InvInit, InvStep, InvTypes, PTL DEF Spec

\* No temporary file stays in the target when cpio -i ends, but in the cases that NoTempLeft
\* names: for any archive, any target, any failures, and SIGINT at any place (filein(),
\* tunlink(), onint()).
THEOREM CpioCleans == Spec => []NoTempLeft
  <1>1. Inv => NoTempLeft
    BY DEF Inv, TempInv, NoTempLeft
  <1> QED
    BY InvInit, InvStep, <1>1, PTL DEF Spec

-----------------------------------------------------------------------------
(* No file is lost *)

Making == {"mkstemp", "skip", "ofile", "tfile", "rename"}
Replacing == {"creat", "write", "restore", "tunlink"}

Final(n) == Made(IF FileOf[n] \in Empty THEN "empty" ELSE "whole", n)

\* With inode x, n has lost nothing that is not in atRisk.
Good(n, x) ==
    \/ n \in atRisk
    \/ x = was[n] /\ (x # 0 => ino[x].what = "old")
    \/ x # 0 /\ ino[x] = Final(n)
    \/ was[n] = 0 /\ errcnt

\* While filein() works on tgt, its old file has the temporary name, or there was none.
TgtKept ==
    pc \in Replacing =>
        /\ tfile => dir[Temp] # 0 /\ Good(tgt, dir[Temp])
        /\ ~tfile => tgt \in atRisk \/ was[tgt] = 0 \/ (pc = "creat" /\ Exists(tgt))

\* What is at a place is what the place is for.
TgtInv ==
    /\ pc \in Making => Exists(tgt)
    /\ pc = "creat" /\ tfile => ~Exists(tgt)
    /\ pc \in {"write", "restore", "tunlink"} => ofile = AtTgt
    /\ pc = "write" => Exists(tgt) /\ dir[Temp] # dir[tgt] /\ (size \/ Whole(tgt) \/ tgt \in atRisk)
    /\ pc = "write" => \A n \in Name \ {tgt} : dir[n] = dir[tgt] => n \in atRisk
    /\ pc \in {"skip", "restore"} => errcnt
    /\ pc = "tunlink" => Whole(tgt) \/ tgt \in atRisk

OthersKept == pc \notin {"out", "exit"} => \A n \in Name : (n = tgt /\ pc \in Replacing) \/ Good(n, dir[n])

LossInv == OthersKept /\ TgtKept /\ TgtInv /\ NothingLost

\* The first link of an inode has its data, or there is an error to tell of.
Right(m) == Exists(m) => Whole(m) \/ m \in atRisk \/ errcnt

FirstInv ==
    /\ pc = "out" => isl = <<>>
    /\ pc \in Places =>
          \A f \in DOMAIN isl, n \in Name :
              isl[f].name = n => Right(n) \/ (n = tgt /\ pc \in Making \cup Replacing)

\* The history grows, and what it is about stays.
LEMMA History ==
    ASSUME Inv, Next, pc # "out"
    PROVE  /\ was' = was /\ wanted' = wanted /\ errcnt' \in {errcnt, TRUE} /\ atRisk \subseteq atRisk'
           /\ \A n \in Name : GivenUp(n) => n \in atRisk'
           /\ UNCHANGED archive
  <1>1. ~Start /\ ~CopyOut
    BY DEF Start, CopyOut
  <1> QED
    BY <1>1, FlagStep, Reads DEF Next, given

\* A name that gets an inode it is good with is good.
LEMMA GoodMoves ==
    ASSUME Inv, Next, pc # "out", NEW n \in Name, NEW x, Good(n, x), x = 0 \/ ino'[x] = ino[x],
           dir'[n] = x
    PROVE  Good(n, dir[n])'
  <1>1. /\ was' = was /\ errcnt' \in {errcnt, TRUE} /\ atRisk \subseteq atRisk'
    BY History
  <1>2. Final(n)' = Final(n)
    BY DEF Final, Made
  <1>3. CASE n \in atRisk
    BY <1>1, <1>3 DEF Good
  <1>4. CASE x = was[n] /\ (x # 0 => ino[x].what = "old")
    BY <1>1, <1>4 DEF Good
  <1>5. CASE x # 0 /\ ino[x] = Final(n)
    <2>1. ino'[dir'[n]] = Final(n)' /\ dir'[n] # 0
      BY <1>2, <1>5
    <2> HIDE DEF Final
    <2> QED
      BY <2>1 DEF Good
  <1>6. CASE was[n] = 0 /\ errcnt
    BY <1>1, <1>6 DEF Good
  <1> QED
    BY <1>3, <1>4, <1>5, <1>6 DEF Good

\* What a step leaves alone stays good.
LEMMA OthersStay ==
    ASSUME Inv, Next, pc \notin {"out", "exit"}, OthersKept, NEW n \in Name,
           ~(n = tgt /\ pc \in Replacing),
           dir'[n] = dir[n], dir[n] = 0 \/ ino'[dir[n]] = ino[dir[n]]
    PROVE  Good(n, dir[n])'
  <1> DEFINE x == dir[n]
  <1>1. Good(n, x) /\ (x = 0 \/ ino'[x] = ino[x]) /\ dir'[n] = x
    BY DEF OthersKept
  <1> HIDE DEF x
  <1> QED
    BY <1>1, GoodMoves

\* Away from Replacing there is nothing else to look at.
LEMMA Quiet ==
    ASSUME pc' \notin Replacing \cup {"out", "exit"}, \A n \in Name : Good(n, dir[n])',
           pc' \in Making => Exists(tgt)', pc' = "skip" => errcnt'
    PROVE  LossInv'
  BY DEF LossInv, OthersKept, TgtKept, TgtInv, NothingLost, Replacing

\* The end finds every name good.
LEMMA Ended ==
    ASSUME Inv', pc' = "exit", \A n \in Name : Good(n, dir[n])'
    PROVE  LossInv'
  <1>1. NothingLost'
    BY DEF NothingLost, Good, Whole, Final, Exists, Made
  <1> QED
    BY <1>1 DEF LossInv, OthersKept, TgtKept, TgtInv, Replacing, Making

\* What is taken over from step to step is the same name.
LEMMA SameTgt == UNCHANGED <<todo, own>> => tgt' = tgt /\ file' = file /\ AtTgt' = AtTgt
  BY DEF AtTgt, IsLink, tgt, file

\* creat() of a name that is not there.
LEMMA CreatNew ==
    ASSUME Inv, pc # "out", NEW n \in Name \cup {Temp}, dir[n] = 0, NEW i, Creat(n, i)
    PROVE  /\ \A x \in 1..Len(ino) : ino'[x] = ino[x]
           /\ dir'[n] = Len(ino) + 1 /\ ino'[dir'[n]] = i
           /\ \A m \in Name \cup {Temp} : m # n => dir'[m] = dir[m] /\ dir[m] # dir'[n]
           /\ \A m \in Name \cup {Temp} : dir[m] = 0 \/ dir[m] \in 1..Len(ino)
  <1>1. ino' = Append(ino, i) /\ dir' = [dir EXCEPT ![n] = Len(ino) + 1]
    BY DEF Creat, Exists
  <1>2. ino \in Seq(InodeSet) /\ dir \in [Name \cup {Temp} -> 0..Len(ino)]
    BY DEF Inv, TreeTypes
  <1>3. Len(ino) \in Nat
    BY <1>2
  <1> HIDE DEF InodeSet
  <1>4. (\A x \in 1..Len(ino) : ino'[x] = ino[x]) /\ ino'[Len(ino) + 1] = i
    BY <1>1, <1>2
  <1> QED
    BY <1>1, <1>2, <1>3, <1>4

\* creat() of a name that is there.
LEMMA CreatOld ==
    ASSUME Inv, pc # "out", NEW n \in Name \cup {Temp}, dir[n] # 0, NEW i, Creat(n, i)
    PROVE  /\ dir' = dir /\ ino'[dir[n]] = i /\ dir[n] \in 1..Len(ino)
           /\ \A x \in 1..Len(ino) : x # dir[n] => ino'[x] = ino[x]
           /\ \A m \in Name \cup {Temp} : dir[m] = 0 \/ dir[m] \in 1..Len(ino)
  <1>1. ino' = [ino EXCEPT ![dir[n]] = i] /\ dir' = dir
    BY DEF Creat, Exists
  <1>2. ino \in Seq(InodeSet) /\ dir \in [Name \cup {Temp} -> 0..Len(ino)]
    BY DEF Inv, TreeTypes
  <1> HIDE DEF InodeSet
  <1>3. dir[n] \in DOMAIN ino /\ DOMAIN ino = 1..Len(ino) /\ Len(ino) \in Nat
    BY <1>2
  <1>4. \A m \in Name \cup {Temp} : dir[m] = 0 \/ dir[m] \in 1..Len(ino)
    BY <1>2, <1>3
  <1> QED
    BY <1>1, <1>3, <1>4

\* doinp() begins with a target that is as it was.
LEMMA LossStart == Inv /\ Inv' /\ Next /\ Start => LossInv'
  <1> SUFFICES ASSUME Inv, Inv', Next, Start PROVE LossInv'
    OBVIOUS
  <1>1. pc' = "next" /\ was' = dir'
    BY DEF Start
  <1>2. PICK t \in Targets : ino' = t.ino
    BY DEF Start
  <1>3. t.ino \in Seq([what : {"old"}, of : Name, fresh : BOOLEAN])
    BY CpioAssumption DEF CpioAssumption
  <1>4. \A x \in 1..Len(ino') : ino'[x].what = "old"
    <2> DEFINE Old == [what : {"old"}, of : Name, fresh : BOOLEAN]
    <2>1. \A i \in Old : i.what = "old"
      OBVIOUS
    <2>2. t.ino \in Seq(Old)
      BY <1>3
    <2> HIDE DEF Old
    <2>3. \A x \in 1..Len(t.ino) : t.ino[x] \in Old
      BY <2>2
    <2> QED
      BY <1>2, <2>1, <2>3
  <1>5. dir' \in [Name \cup {Temp} -> 0..Len(ino')]
    BY <1>1 DEF Inv, TreeTypes
  <1>6. \A n \in Name : dir'[n] # 0 => dir'[n] \in 1..Len(ino')
    BY <1>5
  <1>7. \A n \in Name : Good(n, dir[n])'
    BY <1>1, <1>4, <1>6 DEF Good
  <1> QED
    BY <1>1, <1>7, Quiet DEF Replacing, Making

\* Before and between the files nothing changes in the target.
LEMMA LossReading == Inv /\ Inv' /\ Next /\ LossInv /\ Reading => LossInv'
  <1> SUFFICES ASSUME Inv, Inv', Next, LossInv, Reading PROVE LossInv'
    OBVIOUS
  <1>1. /\ UNCHANGED <<dir, ino, ofile, tfile>> \/ ~TapeEnds
        /\ UNCHANGED <<dir, ino, tfile>> /\ pc \notin {"out", "exit"}
        /\ ~TapeEnds => pc \in {"next", "rest", "inpone"} /\ pc' \in {"next", "rest", "inpone", "exit"}
    BY DEF Reading, TakeFile, FlushLinks, StoreLink, FlushEmpty, Trailer, NodeDone, Exit, TapeEnds,
           InData, FlushRest, ReadHeader, Reread, FlushNode, tree, cur
  <1>2. \A n \in Name : (n = tgt /\ pc \in Replacing) \/ Good(n, dir[n])'
    BY <1>1, OthersStay DEF LossInv
  <1>3. CASE ~TapeEnds
    <2>1. \A n \in Name : Good(n, dir[n])'
      BY <1>1, <1>2, <1>3 DEF Replacing
    <2> QED
      BY <1>1, <1>3, <2>1, Quiet, Ended DEF Replacing, Making
  <1>4. CASE TapeEnds /\ pc \notin Replacing
    <2>1. \A n \in Name : Good(n, dir[n])'
      BY <1>2, <1>4 DEF Replacing
    <2>2. pc' = "exit"
      BY <1>4 DEF TapeEnds
    <2> QED
      BY <2>1, <2>2, Ended
  <1>5. CASE TapeEnds /\ pc \in Replacing
    <2>1. pc' = "exit" /\ errcnt' = TRUE /\ sig' = sig /\ UNCHANGED <<todo, own>>
      BY <1>5 DEF TapeEnds, Error, reader
    <2>2. sig' = None /\ tgt' = tgt
      BY <1>5, <2>1, SameTgt DEF Inv, TempInv, Replacing
    <2>3. was' = was /\ atRisk \subseteq atRisk'
      BY <1>1, History
    <2>4. CASE tfile
      <3>1. tfile' /\ dir'[Temp] # 0
        BY <1>1, <1>5, <2>4 DEF LossInv, TgtKept, Replacing
      <3>2. NothingLost'
        BY <1>2, <2>2, <3>1 DEF NothingLost, Good, Whole, Final, Exists, Made
      <3> QED
        BY <2>1, <3>2 DEF LossInv, OthersKept, TgtKept, TgtInv, Replacing, Making
    <2>5. CASE ~tfile
      <3>1. tgt \in atRisk \/ was[tgt] = 0
        BY <1>5, <2>5 DEF LossInv, TgtKept, Replacing, TapeEnds, InData
      <3>2. \A n \in Name : Good(n, dir[n])'
        BY <1>2, <2>1, <2>3, <3>1 DEF Good
      <3> QED
        BY <2>1, <3>2, Ended
    <2> QED
      BY <2>4, <2>5
  <1> QED
    BY <1>3, <1>4, <1>5

\* filein() decides what to do with a name.
LEMMA LossChoosing == Inv /\ Inv' /\ Next /\ LossInv /\ Choosing => LossInv'
  <1> SUFFICES ASSUME Inv, Inv', Next, LossInv, Choosing PROVE LossInv'
    OBVIOUS
  <1>1. /\ UNCHANGED <<dir, ino, tfile>> /\ pc = "inpone" /\ (IsLink \/ own # None)
        /\ \/ pc' = "inpone"
           \/ pc' = "link" /\ UNCHANGED <<todo, own>>
           \/ pc' = (IF Exists(tgt) THEN "mkstemp" ELSE "creat") /\ UNCHANGED <<todo, own>>
    BY DEF Choosing, Unwanted, SkipNewer, NoDirectory, NewFile, MakeLink, Filein, Inpone, At,
           Leave, Over,
           Goto, tree, cur
  <1>2. \A n \in Name : Good(n, dir[n])'
    BY <1>1, OthersStay DEF LossInv, Replacing
  <1>3. ~tfile'
    BY <1>1 DEF Inv, TempInv
  <1>4. CASE pc' \in {"inpone", "link"}
    BY <1>2, <1>4, Quiet DEF Replacing, Making
  <1>5. CASE pc' = (IF Exists(tgt) THEN "mkstemp" ELSE "creat") /\ UNCHANGED <<todo, own>>
    <2>1. tgt' = tgt /\ tgt \in Name
      BY <1>1, <1>5, SameTgt, TgtType DEF Inv, NameInv
    <2>2. CASE Exists(tgt)
      BY <1>1, <1>2, <1>5, <2>1, <2>2, Quiet DEF Replacing, Making, Exists
    <2>3. CASE ~Exists(tgt)
      <3>1. dir'[tgt] = 0 /\ pc' = "creat"
        BY <1>1, <1>5, <2>3 DEF Exists
      <3>2. tgt' \in atRisk' \/ was'[tgt'] = 0
        BY <1>2, <2>1, <3>1 DEF Good
      <3>3. TgtKept' /\ TgtInv' /\ NothingLost'
        BY <1>3, <3>1, <3>2 DEF TgtKept, TgtInv, NothingLost, Making
      <3> QED
        BY <1>2, <3>3 DEF LossInv, OthersKept
    <2> QED
      BY <2>2, <2>3
  <1> QED
    BY <1>1, <1>4, <1>5

\* linkunlink(): a link that is removed, or that is to a file without its data, is given up.
LEMMA LossLinking == Inv /\ Inv' /\ Next /\ LossInv /\ FirstInv /\ Linking => LossInv'
  <1> SUFFICES ASSUME Inv, Inv', Next, LossInv, FirstInv, Linking PROVE LossInv'
    OBVIOUS
  <1>1. /\ pc = "link" /\ ino' = ino /\ tgt \in Name /\ first \in Name /\ file \in DOMAIN isl
        /\ tfile' = tfile
    BY DEF Linking, Link, UnlinkTarget, LinkFails, InLink, At, tree, Inv, NameInv, Extracting
  <1>2. \A n \in Name : Good(n, dir[n])
    BY <1>1 DEF LossInv, OthersKept, Replacing
  <1>3. \A n \in Name : dir'[n] = dir[n] => Good(n, dir[n])'
    BY <1>1, OthersStay DEF LossInv, Replacing
  <1>4. Temp \notin Name /\ None \notin Name
    BY CpioAssumption DEF CpioAssumption
  <1>5. dir \in [Name \cup {Temp} -> 0..Len(ino)]
    BY <1>1 DEF Inv, TreeTypes
  <1>6. CASE LinkFails
    <2>1. UNCHANGED dir /\ pc' = "inpone"
      BY <1>6 DEF LinkFails, Leave, Over, tree
    <2> QED
      BY <1>3, <2>1, Quiet DEF Replacing, Making
  <1>7. CASE UnlinkTarget
    <2>1. dir' = [dir EXCEPT ![tgt] = 0] /\ pc' = "link"
      BY <1>7 DEF UnlinkTarget, Unlink, Goto
    <2>2. dir'[tgt] = 0 /\ \A n \in Name : n # tgt => dir'[n] = dir[n]
      BY <1>1, <1>5, <2>1
    <2>3. tgt \in atRisk'
      BY <1>1, <2>2, History DEF GivenUp
    <2>4. \A n \in Name : Good(n, dir[n])'
      BY <1>3, <2>2, <2>3 DEF Good
    <2> QED
      BY <2>1, <2>4, Quiet DEF Replacing, Making
  <1>8. CASE Link
    <2>1. /\ dir' = [dir EXCEPT ![tgt] = dir[first]] /\ dir[first] # 0
          /\ dir[tgt] = 0 \/ dir[tgt] = dir[first]
          /\ pc' = "inpone" \/ (pc' = "creat" /\ UNCHANGED <<todo, own>>)
      BY <1>8 DEF Link, Exists, Leave, Over, Goto
    <2>2. dir'[tgt] = dir[first] /\ \A n \in Name : n # tgt => dir'[n] = dir[n]
      BY <1>1, <1>5, <2>1
    <2>3. Right(first)
      BY <1>1, <1>4 DEF FirstInv, Places, Making, Replacing, first
    <2>4. FileOf[first] = file
      BY <1>1, <1>4 DEF Inv, NameInv, IslInv, LinkOf, first
    <2>6. ASSUME NEW n \in Name, n = tgt PROVE Good(n, dir[n])'
      <3>1. CASE dir[tgt] = dir[first]
        BY <1>3, <2>2, <2>6, <3>1
      <3>2. CASE dir[tgt] = 0 /\ Whole(first)
        <4>1. ino[dir[first]] = Final(tgt)
          BY <2>4, <3>2 DEF Whole, Final, Made, file
        <4>2. ino'[dir'[n]] = Final(n) /\ dir'[n] # 0
          BY <1>1, <2>1, <2>2, <2>6, <4>1
        <4> HIDE DEF Final
        <4> QED
          BY <4>2 DEF Good
      <3>3. CASE first \in atRisk
        <4>1. tgt \in atRisk'
          BY <1>1, <3>3, History DEF GivenUp, first
        <4> QED
          BY <2>6, <4>1 DEF Good
      <3>4. CASE dir[tgt] = 0 /\ errcnt
        <4>1. tgt \in atRisk \/ was[tgt] = 0
          BY <1>1, <1>2, <3>4 DEF Good
        <4>2. tgt \in atRisk' \/ (was'[tgt] = 0 /\ errcnt')
          BY <1>1, <3>4, <4>1, History
        <4> QED
          BY <2>6, <4>2 DEF Good
      <3> QED
        BY <2>1, <2>3, <3>1, <3>2, <3>3, <3>4 DEF Right, Exists
    <2>7. \A n \in Name : Good(n, dir[n])'
      BY <1>3, <2>2, <2>6
    <2>8. CASE pc' = "inpone"
      BY <2>7, <2>8, Quiet DEF Replacing, Making
    <2>9. CASE pc' = "creat" /\ UNCHANGED <<todo, own>>
      <3>1. tgt' = tgt
        BY <2>9, SameTgt
      <3>2. ~tfile' /\ Exists(tgt)'
        BY <1>1, <2>1, <2>2, <3>1 DEF Inv, TempInv, Exists
      <3>3. TgtKept' /\ TgtInv' /\ NothingLost'
        BY <2>9, <3>2 DEF TgtKept, TgtInv, NothingLost, Making
      <3> QED
        BY <2>7, <3>3 DEF LossInv, OthersKept
    <2> QED
      BY <2>1, <2>8, <2>9
  <1> QED
    BY <1>6, <1>7, <1>8 DEF Linking

\* What filein() extracts has data when there is data.
LEMMA TgtFilled == ASSUME Inv, pc \in Extracting PROVE tgt \in Filled /\ tgt \in Name
  <1>1. todo \in Seq(Filled) /\ own \in Filled \cup {None} /\ tgt \in Name /\ None \notin Name
    BY CpioAssumption DEF Inv, NameInv, CpioAssumption
  <1> QED
    BY <1>1 DEF tgt, IsLink

\* Until rename() the name still is the old file.
LEMMA LossKeeping == Inv /\ Inv' /\ Next /\ LossInv /\ Keeping => LossInv'
  <1> SUFFICES ASSUME Inv, Inv', Next, LossInv, Keeping PROVE LossInv'
    OBVIOUS
  <1>1. pc \in Making \cup {"mkstemp"} /\ pc \in Extracting
    BY DEF Keeping, Mkstemp, MkstempFails, CloseFails, PutEmpty, PutEmptyFails, SetOfile, SetTfile,
           RenameOld, RenameFails, Keep, At,
           Making,
           Extracting
  <1>2. tgt \in Name /\ Exists(tgt) /\ Temp \notin Name
    BY <1>1, CpioAssumption DEF CpioAssumption, Inv, NameInv, LossInv, TgtInv, Making
  <1>3. \A n \in Name : Good(n, dir[n])
    BY <1>1 DEF LossInv, OthersKept, Making, Replacing
  <1>4. dir \in [Name \cup {Temp} -> 0..Len(ino)]
    BY <1>1 DEF Inv, TreeTypes, Making
  <1>5. \A n \in Name : dir'[n] = dir[n] /\ (dir[n] = 0 \/ ino'[dir[n]] = ino[dir[n]]) => Good(n, dir[n])'
    BY <1>1, OthersStay DEF LossInv, Making, Replacing
  <1>6. CASE Mkstemp \/ CloseFails
    <2>1. /\ pc = "mkstemp" /\ pc' \in {"ofile", "skip"} /\ UNCHANGED <<todo, own>>
          /\ Creat(Temp, Inode("empty", None, TRUE))
      BY <1>6 DEF Mkstemp, CloseFails, Keep, At, Goto
    <2>2. dir[Temp] = 0
      BY <2>1 DEF Inv, TempInv
    <2>3. \A n \in Name : dir'[n] = dir[n] /\ (dir[n] = 0 \/ ino'[dir[n]] = ino[dir[n]])
      <3> DEFINE i == Inode("empty", None, TRUE)
      <3> HIDE DEF i
      <3>1. Creat(Temp, i) /\ pc # "out" /\ Temp \in Name \cup {Temp}
        BY <2>1 DEF i
      <3>2. /\ \A x \in 1..Len(ino) : ino'[x] = ino[x]
            /\ \A m \in Name \cup {Temp} : m # Temp => dir'[m] = dir[m]
            /\ \A m \in Name \cup {Temp} : dir[m] = 0 \/ dir[m] \in 1..Len(ino)
        BY <2>2, <3>1, CreatNew
      <3> QED
        BY <1>2, <3>2
    <2>4. tgt' = tgt
      BY <2>1, SameTgt
    <2>5. pc' = "skip" => errcnt'
      BY <1>6, <2>1 DEF Mkstemp, CloseFails, Goto, Error
    <2> QED
      BY <1>2, <1>5, <2>1, <2>3, <2>4, <2>5, Quiet DEF Replacing, Making, Exists
  <1>7. CASE MkstempFails \/ SetOfile \/ SetTfile
    <2>1. /\ UNCHANGED tree
          /\ \/ pc' = "inpone"
             \/ pc' \in {"tfile", "rename"} /\ UNCHANGED <<todo, own>>
      BY <1>7 DEF MkstempFails, CloseFails, PutEmpty, PutEmptyFails, SetOfile, SetTfile, Leave,
                  Over, Goto
    <2>2. \A n \in Name : Good(n, dir[n])'
      BY <1>5, <2>1 DEF tree
    <2> QED
      BY <1>2, <2>1, <2>2, SameTgt, Quiet DEF Replacing, Making, Exists, tree
  <1>8. CASE RenameOld
    <2>1. /\ pc = "rename" /\ pc' = "creat" /\ UNCHANGED <<todo, own, tfile, ino>>
          /\ dir' = [dir EXCEPT ![Temp] = dir[tgt], ![tgt] = 0]
      BY <1>8 DEF RenameOld, Keep, At, Goto, Rename, cur
    <2>2. tfile' /\ tgt' = tgt
      BY <2>1, SameTgt DEF Inv, TempInv
    <2>3. dir'[Temp] = dir[tgt] /\ dir'[tgt] = 0 /\ \A n \in Name : n # tgt => dir'[n] = dir[n]
      BY <1>2, <1>4, <2>1
    <2>4. Good(tgt, dir[Temp])'
      <3>1. Good(tgt, dir[tgt])
        BY <1>2, <1>3
      <3>2. /\ was' = was /\ errcnt' \in {errcnt, TRUE} /\ atRisk \subseteq atRisk'
        BY <2>1, History
      <3>3. Final(tgt)' = Final(tgt)
        BY <2>2 DEF Final, Made
      <3>4. CASE tgt \in atRisk
        BY <2>2, <3>2, <3>4 DEF Good
      <3>5. CASE dir[tgt] = was[tgt] /\ (dir[tgt] # 0 => ino[dir[tgt]].what = "old")
        BY <2>1, <2>2, <2>3, <3>2, <3>5 DEF Good
      <3>6. CASE dir[tgt] # 0 /\ ino[dir[tgt]] = Final(tgt)
        <4>1. ino'[dir'[Temp]] = Final(tgt)' /\ dir'[Temp] # 0
          BY <2>1, <2>3, <3>3, <3>6
        <4> HIDE DEF Final
        <4> QED
          BY <4>1 DEF Good
      <3>7. CASE was[tgt] = 0 /\ errcnt
        BY <2>2, <3>2, <3>7 DEF Good
      <3> QED
        BY <3>1, <3>4, <3>5, <3>6, <3>7 DEF Good
    <2>5. OthersKept'
      BY <1>5, <2>1, <2>2, <2>3 DEF OthersKept, Replacing
    <2>6. TgtKept' /\ TgtInv' /\ NothingLost'
      BY <1>2, <2>1, <2>2, <2>3, <2>4 DEF TgtKept, TgtInv, NothingLost, Making, Exists
    <2> QED
      BY <2>5, <2>6 DEF LossInv
  <1>9. CASE RenameFails \/ PutEmptyFails
    <2>1. ino' = ino /\ dir' = [dir EXCEPT ![Temp] = 0] /\ pc' = "inpone"
      BY <1>9 DEF RenameFails, PutEmptyFails, Leave, Over, Unlink
    <2>2. \A n \in Name : dir'[n] = dir[n]
      BY <1>2, <2>1
    <2> QED
      BY <1>5, <2>1, <2>2, Quiet DEF Replacing, Making
  <1>10. CASE PutEmpty
    <2>1. ino' = ino /\ dir' = [dir EXCEPT ![tgt] = dir[Temp], ![Temp] = 0]
          /\ pc = "skip" /\ pc' = "inpone"
      BY <1>10 DEF PutEmpty, Keep, At, Leave, Over, Rename
    <2>2. \A n \in Name : n # tgt => dir'[n] = dir[n]
      BY <1>2, <1>4, <2>1
    <2>3. dir'[tgt] # dir[tgt] => tgt \in atRisk'
      BY <1>2, <2>1, History DEF GivenUp
    <2>4. ASSUME NEW n \in Name PROVE Good(n, dir[n])'
      <3>1. n \in atRisk' => Good(n, dir[n])'
        BY DEF Good
      <3> QED
        BY <1>5, <2>1, <2>2, <2>3, <3>1
    <2> QED
      BY <2>1, <2>4, Quiet DEF Replacing, Making
  <1> QED
    BY <1>6, <1>7, <1>8, <1>9, <1>10 DEF Keeping

\* creat() and write(): what was there has the temporary name, or is given up.
LEMMA LossWriting == Inv /\ Inv' /\ Next /\ LossInv /\ Writing => LossInv'
  <1> SUFFICES ASSUME Inv, Inv', Next, LossInv, Writing PROVE LossInv'
    OBVIOUS
  <1>1. pc \in {"creat", "write"} /\ UNCHANGED <<todo, own, tfile, size, sig>> /\ pc \in Extracting
    BY DEF Writing, Create, CreateFails, Write, WriteFails, Keep, At, Goto, Extracting, cur
  <1>2. /\ tgt \in Name /\ tgt \in Filled /\ Temp \notin Name
        /\ tgt' = tgt /\ file' = file /\ AtTgt' = AtTgt
    BY <1>1, TgtFilled, SameTgt, CpioAssumption DEF CpioAssumption
  <1>3. dir \in [Name \cup {Temp} -> 0..Len(ino)]
    BY <1>1 DEF Inv, TreeTypes
  <1>4. \A n \in Name : n # tgt /\ dir'[n] = dir[n] /\ (dir[n] = 0 \/ ino'[dir[n]] = ino[dir[n]])
           => Good(n, dir[n])'
    BY <1>1, OthersStay DEF LossInv
  <1>5. /\ was' = was /\ errcnt' \in {errcnt, TRUE} /\ atRisk \subseteq atRisk'
        /\ \A n \in Name : GivenUp(n) => n \in atRisk'
    BY <1>1, History
  <1>6. Final(tgt)' = Final(tgt)
    BY <1>2 DEF Final, Made
  \* The temporary file stays good.
  <1>7. ASSUME tfile, ino'[dir[Temp]] = ino[dir[Temp]], dir'[Temp] = dir[Temp]
        PROVE  dir'[Temp] # 0 /\ Good(tgt, dir[Temp])'
    <2>1. dir[Temp] # 0 /\ Good(tgt, dir[Temp])
      BY <1>1, <1>7 DEF LossInv, TgtKept, Replacing
    <2> QED
      BY <1>2, <1>5, <1>6, <1>7, <2>1 DEF Good
  <1>8. pc = "creat" => \A n \in Name : Exists(n) /\ dir[n] = dir[tgt] => n \in atRisk'
    BY <1>5 DEF GivenUp
  <1>9. ~tfile => dir[Temp] = 0
    BY <1>1 DEF Inv, TempInv
  <1>10. tfile /\ pc = "creat" => dir[tgt] = 0
    BY DEF LossInv, TgtInv, Exists
  <1>11. ~tfile => tgt \in atRisk' \/ was'[tgt] = 0
    BY <1>1, <1>2, <1>5, <1>8 DEF LossInv, TgtKept, Replacing, Exists
  <1>12. CASE Create
    <2>1. /\ pc = "creat" /\ pc' = "write" /\ ofile' = AtTgt
          /\ Creat(tgt, Made(IF size THEN "part" ELSE "empty", tgt))
      BY <1>12 DEF Create, Keep, At, Goto
    <2>2. CASE dir[tgt] # 0
      <3>1. /\ dir' = dir /\ \A x \in 1..Len(ino) : x # dir[tgt] => ino'[x] = ino[x]
            /\ \A m \in Name \cup {Temp} : dir[m] = 0 \/ dir[m] \in 1..Len(ino)
        <4> DEFINE i == Made(IF size THEN "part" ELSE "empty", tgt)
        <4> HIDE DEF i
        <4>1. Creat(tgt, i) /\ pc # "out" /\ tgt \in Name \cup {Temp}
          BY <1>2, <2>1 DEF i
        <4> QED
          BY <2>2, <4>1, CreatOld
      <3>2. OthersKept'
        <4>1. \A n \in Name : n # tgt => Good(n, dir[n])'
          <5> SUFFICES ASSUME NEW n \in Name, n # tgt PROVE Good(n, dir[n])'
            OBVIOUS
          <5>1. CASE dir[n] = dir[tgt]
            BY <1>8, <2>1, <2>2, <5>1 DEF Good, Exists
          <5>2. CASE dir[n] # dir[tgt]
            BY <1>4, <3>1, <5>2
          <5> QED
            BY <5>1, <5>2
        <4> QED
          BY <1>2, <2>1, <4>1 DEF OthersKept, Replacing
      <3>3. tgt \in atRisk' /\ ~tfile
        BY <1>2, <1>8, <1>10, <2>1, <2>2 DEF Exists
      <3>4. TgtKept'
        BY <1>1, <1>2, <3>3 DEF TgtKept
      <3>5. \A n \in Name : dir'[n] = dir'[tgt] => n \in atRisk'
        BY <1>8, <2>1, <2>2, <3>1 DEF Exists
      <3>6. TgtInv' /\ NothingLost'
        BY <1>2, <1>9, <2>1, <2>2, <3>1, <3>3, <3>5 DEF TgtInv, NothingLost, Making, Exists
      <3> QED
        BY <3>2, <3>4, <3>6 DEF LossInv
    <2>3. CASE dir[tgt] = 0
      <3>1. /\ \A x \in 1..Len(ino) : ino'[x] = ino[x]
            /\ dir'[tgt] = Len(ino) + 1
            /\ ino'[dir'[tgt]] = Made(IF size THEN "part" ELSE "empty", tgt)
            /\ \A m \in Name \cup {Temp} : m # tgt => dir'[m] = dir[m] /\ dir[m] # dir'[tgt]
            /\ \A m \in Name \cup {Temp} : dir[m] = 0 \/ dir[m] \in 1..Len(ino)
        BY <1>1, <1>2, <2>1, <2>3, CreatNew
      <3>2. dir'[tgt] # 0
        <4>1. ino \in Seq(InodeSet)
          BY DEF Inv, TreeTypes
        <4> HIDE DEF InodeSet
        <4>2. Len(ino) \in Nat
          BY <4>1
        <4> QED
          BY <3>1, <4>2
      <3>3. OthersKept'
        BY <1>2, <1>4, <2>1, <3>1 DEF OthersKept, Replacing
      <3>4. TgtKept'
        <4>1. CASE tfile
          <5>1. dir[Temp] # 0
            BY <1>1, <4>1 DEF LossInv, TgtKept, Replacing
          <5>2. ino'[dir[Temp]] = ino[dir[Temp]] /\ dir'[Temp] = dir[Temp]
            BY <1>2, <3>1, <5>1
          <5> QED
            BY <1>1, <1>7, <4>1, <5>2 DEF TgtKept
        <4>2. CASE ~tfile
          BY <1>1, <1>2, <1>11, <4>2 DEF TgtKept
        <4> QED
          BY <4>1, <4>2
      <3>5. size' \/ Whole(tgt)' \/ tgt' \in atRisk'
        <4>1. CASE ~size /\ file \notin Empty
          BY <1>2, <1>5, <2>1, <4>1 DEF GivenUp
        <4>2. CASE ~size /\ file \in Empty
          BY <1>2, <3>1, <3>2, <4>2 DEF Whole, Made, file, Exists
        <4> QED
          BY <1>1, <4>1, <4>2
      <3>6. TgtInv' /\ NothingLost'
        BY <1>2, <2>1, <3>1, <3>2, <3>5 DEF TgtInv, NothingLost, Making, Exists
      <3> QED
        BY <3>3, <3>4, <3>6 DEF LossInv
    <2> QED
      BY <2>2, <2>3
  <1>13. CASE CreateFails \/ WriteFails
    <2>1. /\ pc' = "restore" /\ UNCHANGED <<dir, ino>> /\ errcnt' = TRUE
          /\ ofile' = (IF pc = "creat" THEN AtTgt ELSE ofile)
      BY <1>13 DEF CreateFails, WriteFails, Keep, At, Goto, Error, tree, cur
    <2>2. OthersKept'
      BY <1>2, <1>4, <2>1 DEF OthersKept, Replacing
    <2>3. TgtKept'
      BY <1>1, <1>2, <1>7, <1>11, <2>1 DEF TgtKept
    <2>4. ofile' = AtTgt'
      BY <1>1, <1>2, <2>1 DEF LossInv, TgtInv
    <2>5. TgtInv' /\ NothingLost'
      BY <2>1, <2>4 DEF TgtInv, NothingLost, Making
    <2> QED
      BY <2>2, <2>3, <2>5 DEF LossInv
  <1>14. CASE Write
    <2>1. /\ pc = "write" /\ pc' = "tunlink" /\ ofile' = ofile
          /\ IF size THEN Creat(tgt, Made("whole", tgt)) ELSE UNCHANGED tree
      BY <1>14 DEF Write, Keep, At, Goto, cur
    <2>2. /\ Exists(tgt) /\ dir[Temp] # dir[tgt] /\ (size \/ Whole(tgt) \/ tgt \in atRisk)
          /\ ofile = AtTgt
          /\ \A n \in Name \ {tgt} : dir[n] = dir[tgt] => n \in atRisk
      BY <2>1 DEF LossInv, TgtInv
    <2>3. CASE ~size
      <3>1. UNCHANGED <<dir, ino>>
        BY <2>1, <2>3 DEF tree
      <3>2. OthersKept'
        BY <1>2, <1>4, <2>1, <3>1 DEF OthersKept, Replacing
      <3>3. TgtKept'
        BY <1>1, <1>2, <1>7, <1>11, <3>1 DEF TgtKept
      <3>4. Whole(tgt)' \/ tgt' \in atRisk'
        BY <1>2, <1>5, <2>2, <2>3, <3>1 DEF Whole, Exists, Made
      <3>5. TgtInv' /\ NothingLost'
        BY <1>2, <2>1, <2>2, <3>4 DEF TgtInv, NothingLost, Making
      <3> QED
        BY <3>2, <3>3, <3>5 DEF LossInv
    <2>4. CASE size
      <3>1. /\ dir' = dir /\ ino'[dir[tgt]] = Made("whole", tgt)
            /\ \A x \in 1..Len(ino) : x # dir[tgt] => ino'[x] = ino[x]
            /\ \A m \in Name \cup {Temp} : dir[m] = 0 \/ dir[m] \in 1..Len(ino)
        <4> DEFINE i == Made("whole", tgt)
        <4>1. Creat(tgt, i) /\ pc # "out" /\ tgt \in Name \cup {Temp} /\ dir[tgt] # 0
          BY <1>2, <2>1, <2>2, <2>4 DEF Exists
        <4> HIDE DEF i
        <4>2. /\ dir' = dir /\ ino'[dir[tgt]] = i
              /\ \A x \in 1..Len(ino) : x # dir[tgt] => ino'[x] = ino[x]
              /\ \A m \in Name \cup {Temp} : dir[m] = 0 \/ dir[m] \in 1..Len(ino)
          BY <4>1, CreatOld
        <4> QED
          BY <4>2 DEF i
      <3>2. OthersKept'
        <4>1. \A n \in Name : n # tgt => Good(n, dir[n])'
          <5> SUFFICES ASSUME NEW n \in Name, n # tgt PROVE Good(n, dir[n])'
            OBVIOUS
          <5>1. CASE dir[n] = dir[tgt]
            BY <1>5, <2>2, <5>1 DEF Good
          <5>2. CASE dir[n] # dir[tgt]
            BY <1>4, <3>1, <5>2
          <5> QED
            BY <5>1, <5>2
        <4> QED
          BY <1>2, <2>1, <4>1 DEF OthersKept, Replacing
      <3>3. TgtKept'
        <4>1. CASE tfile
          <5>1. dir[Temp] # 0
            BY <1>1, <4>1 DEF LossInv, TgtKept, Replacing
          <5>2. ino'[dir[Temp]] = ino[dir[Temp]] /\ dir'[Temp] = dir[Temp]
            BY <1>2, <2>2, <3>1, <5>1
          <5> QED
            BY <1>1, <1>7, <4>1, <5>2 DEF TgtKept
        <4>2. CASE ~tfile
          BY <1>1, <1>2, <1>11, <4>2 DEF TgtKept
        <4> QED
          BY <4>1, <4>2
      <3>4. Whole(tgt)'
        <4>1. FileOf[tgt] \notin Empty
          BY <1>2, <2>4 DEF Filled
        <4> QED
          BY <1>2, <2>2, <3>1, <4>1 DEF Whole, Exists, Made
      <3>5. TgtInv' /\ NothingLost'
        BY <1>2, <2>1, <2>2, <3>4 DEF TgtInv, NothingLost, Making
      <3> QED
        BY <3>2, <3>3, <3>5 DEF LossInv
    <2> QED
      BY <2>3, <2>4
  <1> QED
    BY <1>12, <1>13, <1>14 DEF Writing

\* After filein() the name is the new file or the old one again.
LEMMA LossEnding == Inv /\ Inv' /\ Next /\ LossInv /\ Ending => LossInv'
  <1> SUFFICES ASSUME Inv, Inv', Next, LossInv, Ending PROVE LossInv'
    OBVIOUS
  <1>1. pc \in {"restore", "tunlink", "unlink"} /\ pc \in Extracting /\ pc' \in {"inpone", "unlink"} /\ ino' = ino
    BY DEF Ending, Restore, RestoreFails, Forget, UnlinkTemp, Keep, At, Leave, Over, Goto,
           Extracting, tree
  <1>2. tgt \in Name /\ Temp \notin Name
    BY <1>1, CpioAssumption DEF CpioAssumption, Inv, NameInv
  <1>3. dir \in [Name \cup {Temp} -> 0..Len(ino)]
    BY <1>1 DEF Inv, TreeTypes
  <1>4. \A n \in Name : dir'[n] = dir[n] /\ ~(n = tgt /\ pc \in Replacing) => Good(n, dir[n])'
    BY <1>1, OthersStay DEF LossInv
  <1>5. /\ was' = was /\ errcnt' \in {errcnt, TRUE} /\ atRisk \subseteq atRisk'
        /\ \A n \in Name : GivenUp(n) => n \in atRisk'
    BY <1>1, History
  <1>6. /\ pc \in Replacing /\ tfile => dir[Temp] # 0 /\ Good(tgt, dir[Temp])
        /\ pc \in Replacing /\ ~tfile /\ pc # "creat" => tgt \in atRisk \/ was[tgt] = 0
    BY DEF LossInv, TgtKept
  <1>7. (\A n \in Name : Good(n, dir[n])') => LossInv'
    BY <1>1, Quiet DEF Replacing, Making
  <1>8. CASE Restore /\ tfile
    <2>1. dir' = [dir EXCEPT ![tgt] = dir[Temp], ![Temp] = 0] /\ pc = "restore"
      BY <1>8 DEF Restore, Rename, Keep, At
    <2>2. dir'[tgt] = dir[Temp] /\ \A n \in Name : n # tgt => dir'[n] = dir[n]
      BY <1>2, <1>3, <2>1
    <2>3. Good(tgt, dir[Temp])
      BY <1>6, <1>8, <2>1 DEF Replacing
    <2>4. ASSUME NEW n \in Name, n = tgt PROVE Good(n, dir[n])'
      <3>1. Good(n, dir'[n])
        BY <2>2, <2>3, <2>4
      <3> DEFINE x == dir'[n]
      <3> HIDE DEF x
      <3>2. Good(n, x) /\ dir'[n] = x
        BY <3>1 DEF x
      <3> QED
        BY <1>1, <3>2, GoodMoves
    <2> QED
      BY <1>4, <1>7, <2>2, <2>4
  <1>9. CASE Restore /\ ~tfile
    <2>1. UNCHANGED dir /\ pc = "restore"
      BY <1>9 DEF Restore, Keep, At
    <2>2. tgt \in atRisk' \/ (was'[tgt] = 0 /\ errcnt')
      <3>1. tgt \in atRisk \/ was[tgt] = 0
        BY <1>6, <1>9, <2>1 DEF Replacing
      <3>2. errcnt
        BY <2>1 DEF LossInv, TgtInv
      <3> QED
        BY <1>5, <3>1, <3>2
    <2>3. ASSUME NEW n \in Name, n = tgt PROVE Good(n, dir[n])'
      BY <2>2, <2>3 DEF Good
    <2> QED
      BY <1>4, <1>7, <2>1, <2>3
  <1>10. CASE RestoreFails
    <2>1. pc = "restore" /\ pc' = "inpone" /\ Fails /\ dir' = [dir EXCEPT ![Temp] = 0]
      BY <1>10 DEF RestoreFails, Keep, At, Leave, Over, Error, Unlink
    <2>2. left' # left
      <3>1. left \in Nat /\ left' = left - 1
        BY <2>1, CpioOutAssumption DEF Fails, Inv, RestInv, CpioOutAssumption
      <3> QED
        BY <3>1
    <2>3. tgt \in atRisk'
      BY <1>2, <1>5, <2>1, <2>2 DEF GivenUp
    <2>4. ASSUME NEW n \in Name, n = tgt PROVE Good(n, dir[n])'
      BY <2>3, <2>4 DEF Good
    <2>5. \A n \in Name : dir'[n] = dir[n]
      BY <1>2, <2>1
    <2> QED
      BY <1>4, <1>7, <2>4, <2>5
  <1>11. CASE Forget
    <2>1. UNCHANGED tree /\ pc = "tunlink"
      BY <1>11 DEF Forget, Keep, At
    <2>2. Whole(tgt) \/ tgt \in atRisk
      BY <2>1 DEF LossInv, TgtInv
    <2>3. ASSUME NEW n \in Name, n = tgt PROVE Good(n, dir[n])'
      <3>1. CASE Whole(tgt)
        <4>1. dir'[n] # 0 /\ ino'[dir'[n]] = Final(n)
          BY <1>1, <2>1, <2>3, <3>1 DEF Whole, Exists, Final, tree
        <4>2. Final(n)' = Final(n)
          BY DEF Final, Made
        <4> HIDE DEF Final
        <4> QED
          BY <4>1, <4>2 DEF Good
      <3>2. CASE tgt \in atRisk
        BY <1>5, <2>3, <3>2 DEF Good
      <3> QED
        BY <2>2, <3>1, <3>2
    <2> QED
      BY <1>4, <1>7, <2>1, <2>3 DEF tree
  <1>12. CASE UnlinkTemp
    <2>1. pc = "unlink" /\ dir' = [dir EXCEPT ![Temp] = 0]
      BY <1>12 DEF UnlinkTemp, Keep, At, Unlink
    <2>2. \A n \in Name : dir'[n] = dir[n]
      BY <1>2, <2>1
    <2> QED
      BY <1>4, <1>7, <2>1, <2>2 DEF Replacing
  <1> QED
    BY <1>8, <1>9, <1>10, <1>11, <1>12 DEF Ending

\* onint() puts the old file back when there is one.
LEMMA LossInterrupt == Inv /\ Inv' /\ Next /\ LossInv /\ Interrupt => LossInv'
  <1> SUFFICES ASSUME Inv, Inv', Next, LossInv, Interrupt PROVE LossInv'
    OBVIOUS
  <1>1. pc \notin {"out", "exit"} /\ Onint /\ pc' = "exit" /\ sig' = pc /\ ino' = ino /\ ofile' = ofile
    BY DEF Interrupt, Places, cur
  <1>2. sig' # sig
    <2>1. pc \in Places
      BY DEF Interrupt
    <2>2. sig = None
      BY <1>1 DEF Inv, TempInv
    <2> QED
      BY <1>1, <2>1, <2>2, CpioAssumption DEF CpioAssumption
  <1>3. dir \in [Name \cup {Temp} -> 0..Len(ino)] /\ Temp \notin Name /\ None \notin Name
    BY <1>1, CpioAssumption DEF Inv, TreeTypes, CpioAssumption
  <1>4. /\ was' = was /\ errcnt' \in {errcnt, TRUE} /\ atRisk \subseteq atRisk'
        /\ \A n \in Name : GivenUp(n) => n \in atRisk'
    BY <1>1, History
  <1>5. \A n \in Name : dir'[n] = dir[n] /\ ~(n = tgt /\ pc \in Replacing) => Good(n, dir[n])'
    BY <1>1, OthersStay DEF LossInv
  <1>6. CASE ~Current
    <2>1. \A n \in Name : dir'[n] # dir[n] => n \in atRisk'
      BY <1>2, <1>4, <1>6 DEF GivenUp
    <2>2. ASSUME pc \in Replacing, dir'[tgt] = dir[tgt] PROVE tgt \in atRisk' \/ (dir[tgt] = 0 /\ was[tgt] = 0)
      <3>1. pc = "creat" /\ ofile # AtTgt
        BY <1>6, <2>2 DEF LossInv, TgtInv, Current, Replacing
      <3>2. ~tfile /\ tgt \in Name
        BY <3>1 DEF Inv, TempInv, NameInv, Extracting
      <3>3. tgt \in atRisk \/ was[tgt] = 0 \/ Exists(tgt)
        BY <2>2, <3>2 DEF LossInv, TgtKept
      <3>4. Exists(tgt) => tgt \in atRisk'
        BY <1>4, <3>1, <3>2 DEF GivenUp
      <3> QED
        BY <1>4, <3>3, <3>4 DEF Exists
    <2>3. ASSUME NEW n \in Name PROVE Good(n, dir[n])'
      <3>1. CASE dir'[n] # dir[n]
        BY <2>1, <3>1 DEF Good
      <3>2. CASE dir'[n] = dir[n] /\ n = tgt /\ pc \in Replacing
        BY <1>4, <2>2, <3>2 DEF Good
      <3> QED
        BY <1>5, <3>1, <3>2
    <2> QED
      BY <1>1, <2>3, Ended
  <1>7. CASE Current
    <2>1. ofile = AtTgt /\ pc \in {"rename", "creat", "write", "restore", "tunlink"} /\ tgt \in Name
      BY <1>7 DEF Current, Inv, NameInv, Extracting
    <2>2. ofile.at \in {"link", "header"} /\ ofile.name = tgt
      BY <2>1 DEF AtTgt
    <2>3. CASE tfile
      <3>1. dir' = [dir EXCEPT ![tgt] = dir[Temp], ![Temp] = 0]
        BY <1>1, <1>3, <2>1, <2>2, <2>3 DEF Onint, Rename
      <3>2. dir'[tgt] = dir[Temp] /\ \A n \in Name : n # tgt => dir'[n] = dir[n]
        BY <1>3, <2>1, <3>1
      <3>3. pc = "rename" => tgt \in atRisk'
        BY <1>2, <1>4, <2>1 DEF GivenUp
      <3>4. pc # "rename" => Good(tgt, dir[Temp])
        BY <2>1, <2>3 DEF LossInv, TgtKept, Replacing
      <3>5. ASSUME NEW n \in Name, n = tgt PROVE Good(n, dir[n])'
        <4>1. CASE pc = "rename"
          BY <3>3, <3>5, <4>1 DEF Good
        <4>2. CASE pc # "rename"
          <5>1. Good(n, dir'[n])
            BY <3>2, <3>4, <3>5, <4>2
          <5> DEFINE x == dir'[n]
          <5> HIDE DEF x
          <5>2. Good(n, x) /\ dir'[n] = x
            BY <5>1 DEF x
          <5> QED
            BY <1>1, <5>2, GoodMoves
        <4> QED
          BY <4>1, <4>2
      <3> QED
        BY <1>1, <1>5, <3>2, <3>5, Ended
    <2>4. CASE ~tfile
      <3>1. dir' = [dir EXCEPT ![tgt] = 0]
        BY <1>1, <1>3, <2>1, <2>2, <2>4 DEF Onint, Unlink
      <3>2. dir'[tgt] = 0 /\ \A n \in Name : n # tgt => dir'[n] = dir[n]
        BY <1>3, <2>1, <3>1
      <3>3. tgt \in atRisk' \/ was[tgt] = 0
        <4>1. pc # "rename"
          BY <2>4 DEF Inv, TempInv
        <4>2. tgt \in atRisk \/ was[tgt] = 0 \/ (pc = "creat" /\ Exists(tgt))
          BY <2>1, <2>4, <4>1 DEF LossInv, TgtKept, Replacing
        <4>3. pc = "creat" /\ Exists(tgt) => tgt \in atRisk'
          BY <1>4, <2>1 DEF GivenUp
        <4> QED
          BY <1>4, <4>2, <4>3
      <3>4. ASSUME NEW n \in Name, n = tgt PROVE Good(n, dir[n])'
        BY <1>4, <3>2, <3>3, <3>4 DEF Good
      <3> QED
        BY <1>1, <1>5, <3>2, <3>4, Ended
    <2> QED
      BY <2>3, <2>4
  <1> QED
    BY <1>6, <1>7

\* The name that is kept for an inode is the one that was kept, or what filein() is at now.
LEMMA Names ==
    ASSUME Inv, Inv', Next, pc # "out", NEW f \in DOMAIN isl', isl'[f].name # None
    PROVE  \/ f \in DOMAIN isl /\ isl[f].name = isl'[f].name
           \/ NewFile /\ isl'[f].name = tgt
  <1>0. \A g \in DOMAIN isl : isl[g] \in [nlk : 0..NLink[g], lnk : Seq(LinkOf(g)), name : LinkOf(g) \cup {None}]
    BY DEF Inv, NameInv, IslInv
  <1>1. CASE isl' = isl
    BY <1>1
  <1>2. \A g, n : FlushNode(g, n) => f \in DOMAIN isl /\ isl[f].name = isl'[f].name
    <2> TAKE g, n
    <2> HAVE FlushNode(g, n)
    <2>1. isl' = isl \/ (g \in DOMAIN isl /\ isl' = [isl EXCEPT ![g].lnk = <<>>])
      BY DEF FlushNode
    <2> QED
      BY <1>0, <2>1
  <1>3. CASE StoreLink
    <2>1. \E g, k, l : isl' = NewSlot(g, k, l, None)
                       \/ (g \in DOMAIN isl /\ isl' = NewSlot(g, k, l, isl[g].name))
      BY <1>3, Zenon DEF StoreLink
    <2> QED
      BY <2>1 DEF NewSlot, Put
  <1>4. CASE NodeDone
    <2>1. \/ isl' = isl
          \/ isl' = [isl EXCEPT ![node].nlk = 0,
                                ![node].name = IF isl[node].nlk > 2 THEN @ ELSE None]
      BY <1>4 DEF NodeDone
    <2>2. CASE isl' = isl
      BY <2>2
    <2>3. CASE isl' = [isl EXCEPT ![node].nlk = 0,
                                  ![node].name = IF isl[node].nlk > 2 THEN @ ELSE None]
      <3>1. DOMAIN isl' = DOMAIN isl /\ (f # node => isl'[f] = isl[f])
        BY <2>3
      <3>2. f = node => isl'[f].name = (IF isl[f].nlk > 2 THEN isl[f].name ELSE None)
        BY <1>0, <2>3, <3>1
      <3> QED
        BY <3>1, <3>2
    <2> QED
      BY <2>1, <2>2, <2>3
  <1>5. CASE NewFile
    <2>1. isl' = isl \/ \E k : isl' = NewSlot(file, k, <<>>, tgt)
      BY <1>5, Zenon DEF NewFile, Recorded
    <2> QED
      BY <1>5, <2>1 DEF NewSlot, Put
  <1>6. CASE MakeLink
    <2>1. isl' = isl \/ (file \in DOMAIN isl /\ isl' = [isl EXCEPT ![file].nlk = @ - 1])
      BY <1>6 DEF MakeLink, Links, Known
    <2> QED
      BY <1>0, <2>1
  <1>7. CASE FlushLinks \/ FlushEmpty \/ \E g \in File : FlushRest(g)
    BY <1>2, <1>7, Zenon DEF FlushLinks, FlushEmpty, FlushRest
  <1>8. CASE TakeFile \/ Trailer \/ Exit \/ TapeEnds \/ Interrupt
    BY <1>1, <1>8 DEF TakeFile, Trailer, Exit, TapeEnds, Interrupt, reader
  <1>9. CASE Unwanted \/ SkipNewer \/ NoDirectory \/ Linking
    BY <1>1, <1>9 DEF Unwanted, SkipNewer, NoDirectory, Linking, Link, UnlinkTarget, LinkFails,
                      InLink
  <1>10. CASE Keeping \/ Writing \/ Ending
    BY <1>1, <1>10 DEF Keeping, Writing, Ending, Mkstemp, MkstempFails, CloseFails, PutEmpty,
                       PutEmptyFails, SetOfile, SetTfile,
                       RenameOld,
           RenameFails, Create, CreateFails, Write, WriteFails, Restore, RestoreFails, Forget,
           UnlinkTemp,
           Keep
  <1>11. ~Start /\ ~CopyOut
    BY DEF Start, CopyOut
  <1> QED
    BY <1>3, <1>4, <1>5, <1>6, <1>7, <1>8, <1>9, <1>10, <1>11, Kinds DEF Next, Reading, Choosing

\* A name of which nothing but the name is taken away stays right.
LEMMA StaysRight ==
    ASSUME Inv, Next, pc # "out", NEW m \in Name, Right(m),
           \/ dir'[m] = 0 \/ m \in atRisk'
           \/ dir'[m] = dir[m] /\ (dir[m] = 0 \/ ino'[dir[m]] = ino[dir[m]])
    PROVE  Right(m)'
  <1>1. /\ errcnt' \in {errcnt, TRUE} /\ atRisk \subseteq atRisk'
    BY History
  <1>2. CASE dir'[m] = 0 \/ m \in atRisk'
    BY <1>2 DEF Right, Exists
  <1>3. CASE dir'[m] = dir[m] /\ (dir[m] = 0 \/ ino'[dir[m]] = ino[dir[m]])
    <2>1. CASE dir[m] = 0 \/ m \in atRisk
      BY <1>1, <1>3, <2>1 DEF Right, Exists
    <2>3. CASE errcnt
      <3>1. errcnt'
        BY <1>1, <2>3
      <3> QED
        BY <3>1 DEF Right
    <2>2. CASE dir[m] # 0 /\ Whole(m)
      <3>1. dir'[m] # 0 /\ ino'[dir'[m]] = Final(m)
        BY <1>3, <2>2 DEF Whole, Final
      <3>2. Final(m)' = Final(m)
        BY DEF Final, Made
      <3>3. Whole(m)'
        BY <3>1, <3>2 DEF Whole, Final, Exists, Made
      <3> QED
        BY <3>3 DEF Right
    <2> QED
      BY <2>1, <2>2, <2>3 DEF Right, Exists
  <1> QED
    BY <1>2, <1>3

\* cpio -o comes before cpio -i, and nothing after it.
LEMMA Phases ==
    ASSUME Next
    PROVE  (pc = "out" /\ (CopyOut \/ Start)) \/ (pc \in Places /\ (Doinp \/ Interrupt))
  BY DEF Next, CopyOut, Start, Doinp, Interrupt, Places, At, Keep, ReadHeader, TakeFile, FlushLinks,
         StoreLink, FlushEmpty, Trailer, FlushRest, NodeDone, Exit, Inpone, Filein, Unwanted,
         SkipNewer, NoDirectory, NewFile, MakeLink, InLink, Link, UnlinkTarget, LinkFails, Mkstemp,
         MkstempFails, CloseFails, PutEmpty, PutEmptyFails, SetOfile, SetTfile, RenameOld,
         RenameFails, Create, CreateFails, Write,
         WriteFails, Restore, RestoreFails, Forget, UnlinkTemp, TapeEnds, InData

\* The first link of an inode gets its data, through every step of cpio -i.
LEMMA FirstKept ==
    ASSUME Inv, Inv', LossInv, FirstInv, Next, Doinp, pc \in Places, pc' \in Places,
           NEW f \in DOMAIN isl, NEW n \in Name, isl[f].name = n
    PROVE  Right(n)' \/ (n = tgt' /\ pc' \in Making \cup Replacing)
  <1>1. Right(n) \/ (n = tgt /\ pc \in Making \cup Replacing)
    BY DEF FirstInv
  <1>2. pc # "out" /\ pc' # "exit" /\ Temp \notin Name /\ None \notin Name
    BY CpioAssumption DEF Places, CpioAssumption
  <1>3. dir \in [Name \cup {Temp} -> 0..Len(ino)]
    BY <1>2 DEF Inv, TreeTypes
  <1>4. ASSUME Right(n), dir'[n] = dir[n], dir[n] = 0 \/ ino'[dir[n]] = ino[dir[n]] PROVE Right(n)'
    BY <1>2, <1>4, StaysRight
  <1>5. errcnt' => Right(n)'
    BY DEF Right
  <1>6. n \in atRisk' => Right(n)'
    BY DEF Right
  <1>7. CASE Reading \/ Choosing
    <2>1. UNCHANGED <<dir, ino>> /\ pc \in {"next", "rest", "inpone"}
      BY <1>2, <1>7 DEF Reading, TakeFile, FlushLinks, StoreLink, FlushEmpty, Trailer, NodeDone,
                        Exit,
             TapeEnds, FlushRest, ReadHeader, Choosing, Unwanted, SkipNewer, NoDirectory, NewFile,
             MakeLink, Filein, Inpone, At, tree
    <2> QED
      BY <1>1, <1>4, <2>1 DEF Making, Replacing
  <1>8. CASE Linking
    <2>1. /\ pc = "link" /\ ino' = ino /\ tgt \in Name /\ first \in Name /\ file \in DOMAIN isl
      BY <1>8 DEF Linking, Link, UnlinkTarget, LinkFails, InLink, At, tree, Inv, NameInv, Extracting
    <2>2. Right(n)
      BY <1>1, <2>1 DEF Making, Replacing
    <2>3. CASE LinkFails
      BY <1>4, <2>1, <2>2, <2>3 DEF LinkFails, tree
    <2>4. CASE UnlinkTarget
      <3>1. dir' = [dir EXCEPT ![tgt] = 0]
        BY <2>4 DEF UnlinkTarget, Unlink
      <3>2. dir'[n] = 0 \/ dir'[n] = dir[n]
        BY <1>3, <3>1
      <3> QED
        BY <1>2, <2>1, <2>2, <3>2, StaysRight
    <2>5. CASE Link
      <3>1. dir' = [dir EXCEPT ![tgt] = dir[first]] /\ (dir[tgt] = 0 \/ dir[tgt] = dir[first])
        BY <2>5 DEF Link
      <3>2. n = tgt => n = first
        BY <1>2 DEF Inv, NameInv, IslInv, LinkOf, file, first
      <3>3. dir'[n] = dir[n]
        BY <1>3, <3>1, <3>2
      <3> QED
        BY <1>4, <2>1, <2>2, <3>3
    <2> QED
      BY <1>8, <2>3, <2>4, <2>5 DEF Linking
  <1>9. CASE Keeping
    <2>1. pc \in Extracting /\ tgt \in Name
      BY <1>9 DEF Keeping, Mkstemp, MkstempFails, CloseFails, PutEmpty, PutEmptyFails, SetOfile,
                  SetTfile, RenameOld, RenameFails,
                  Keep, At,
             Extracting, Inv, NameInv
    <2>0. pc = "skip" => errcnt'
      BY <1>2, History DEF LossInv, TgtInv
    <2>2. \/ pc' \in Making \cup Replacing /\ UNCHANGED <<todo, own>>
          \/ errcnt' = TRUE
      BY <1>9, <2>0 DEF Keep, At, Keeping, Mkstemp, MkstempFails, CloseFails, PutEmpty,
                        PutEmptyFails, SetOfile, SetTfile, RenameOld, RenameFails, Error,
             Goto, Making, Replacing
    <2>3. CASE n = tgt
      BY <1>5, <2>2, <2>3, SameTgt
    <2>4. CASE n # tgt /\ (Mkstemp \/ CloseFails)
      <3>1. pc = "mkstemp" /\ Creat(Temp, Inode("empty", None, TRUE))
        BY <2>4 DEF Mkstemp, CloseFails, Keep, At
      <3>2. dir[Temp] = 0
        BY <3>1 DEF Inv, TempInv
      <3> DEFINE i == Inode("empty", None, TRUE)
      <3> HIDE DEF i
      <3>3. Creat(Temp, i) /\ Temp \in Name \cup {Temp}
        BY <3>1 DEF i
      <3>4. /\ \A x \in 1..Len(ino) : ino'[x] = ino[x]
            /\ \A m \in Name \cup {Temp} : m # Temp => dir'[m] = dir[m]
            /\ \A m \in Name \cup {Temp} : dir[m] = 0 \/ dir[m] \in 1..Len(ino)
        BY <1>2, <3>2, <3>3, CreatNew
      <3> QED
        BY <1>1, <1>2, <1>4, <2>4, <3>4
    <2>5. CASE n # tgt /\ ~Mkstemp /\ ~CloseFails
      <3>1. ino' = ino /\ (UNCHANGED dir \/ Rename(tgt, Temp) \/ Rename(Temp, tgt) \/ Unlink(Temp))
        BY <1>9, <2>5 DEF Keeping, MkstempFails, CloseFails, PutEmpty, PutEmptyFails, SetOfile,
                          SetTfile, RenameOld, RenameFails, tree
      <3>2. dir'[n] = dir[n]
        BY <1>2, <1>3, <2>1, <2>5, <3>1 DEF Rename, Unlink
      <3> QED
        BY <1>1, <1>4, <2>5, <3>1, <3>2
    <2> QED
      BY <2>3, <2>4, <2>5
  <1>10. CASE Writing
    <2>1. /\ pc \in Extracting /\ tgt \in Name /\ pc \in {"creat", "write"}
          /\ pc' \in Replacing /\ UNCHANGED <<todo, own>>
      BY <1>10 DEF Writing, Create, CreateFails, Write, WriteFails, Keep, At, Goto, Extracting,
                   Replacing,
             Inv, NameInv
    <2>2. CASE n = tgt
      BY <2>1, <2>2, SameTgt
    <2>3. CASE n # tgt /\ dir[n] # 0 /\ dir[n] = dir[tgt]
      <3>1. n \in atRisk'
        <4>1. CASE pc = "creat"
          BY <1>2, <2>3, <4>1, History DEF GivenUp, Exists
        <4>2. CASE pc = "write"
          BY <1>2, <2>3, <4>2, History DEF LossInv, TgtInv
        <4> QED
          BY <2>1, <4>1, <4>2
      <3> QED
        BY <1>6, <3>1
    <2>4. CASE n # tgt /\ (dir[n] = 0 \/ dir[n] # dir[tgt])
      <3>1. UNCHANGED tree \/ \E i : Creat(tgt, i)
        BY <1>10 DEF Writing, Create, CreateFails, Write, WriteFails
      <3>2. CASE UNCHANGED tree
        BY <1>1, <1>4, <2>4, <3>2 DEF tree
      <3>3. ASSUME NEW i, Creat(tgt, i), dir[tgt] = 0 PROVE Right(n)'
        <4>1. /\ \A x \in 1..Len(ino) : ino'[x] = ino[x]
              /\ \A m \in Name \cup {Temp} : m # tgt => dir'[m] = dir[m]
              /\ \A m \in Name \cup {Temp} : dir[m] = 0 \/ dir[m] \in 1..Len(ino)
          BY <1>2, <2>1, <3>3, CreatNew
        <4> QED
          BY <1>1, <1>4, <2>4, <4>1
      <3>4. ASSUME NEW i, Creat(tgt, i), dir[tgt] # 0 PROVE Right(n)'
        <4>1. /\ dir' = dir
              /\ \A x \in 1..Len(ino) : x # dir[tgt] => ino'[x] = ino[x]
              /\ \A m \in Name \cup {Temp} : dir[m] = 0 \/ dir[m] \in 1..Len(ino)
          BY <1>2, <2>1, <3>4, CreatOld
        <4> QED
          BY <1>1, <1>4, <2>4, <4>1
      <3> QED
        BY <3>1, <3>2, <3>3, <3>4
    <2> QED
      BY <2>2, <2>3, <2>4
  <1>11. CASE Ending
    <2>1. /\ pc \in Extracting /\ tgt \in Name /\ ino' = ino
          /\ UNCHANGED dir \/ Rename(Temp, tgt) \/ Unlink(Temp)
      BY <1>11 DEF Ending, Restore, RestoreFails, Forget, UnlinkTemp, Keep, At, Extracting, tree,
                   Inv, NameInv
    <2>2. CASE Restore \/ RestoreFails
      <3>1. n = tgt => errcnt'
        <4>1. errcnt
          BY <2>2 DEF Restore, RestoreFails, Keep, At, LossInv, TgtInv
        <4> QED
          BY <1>2, <4>1, History
      <3>2. n # tgt => dir'[n] = dir[n]
        BY <1>2, <1>3, <2>1 DEF Rename, Unlink
      <3> QED
        BY <1>1, <1>4, <1>5, <2>1, <3>1, <3>2
    <2>3. CASE Forget \/ UnlinkTemp
      <3>1. UNCHANGED dir \/ Unlink(Temp)
        BY <2>3 DEF Forget, UnlinkTemp, tree
      <3>2. dir'[n] = dir[n]
        BY <1>2, <1>3, <3>1 DEF Unlink
      <3>3. n = tgt => Right(n)
        <4>1. CASE Forget
          <5>1. Whole(tgt) \/ tgt \in atRisk
            BY <4>1 DEF Forget, Keep, At, LossInv, TgtInv
          <5> QED
            BY <5>1 DEF Right
        <4>2. CASE UnlinkTemp
          BY <1>1, <4>2 DEF UnlinkTemp, Keep, At, Making, Replacing
        <4> QED
          BY <2>3, <4>1, <4>2
      <3> QED
        BY <1>1, <1>4, <2>1, <3>2, <3>3
    <2> QED
      BY <1>11, <2>2, <2>3 DEF Ending
  <1> QED
    BY <1>7, <1>8, <1>9, <1>10, <1>11, Kinds

\* And one that filein() begins with is at work.
LEMMA FirstStep == Inv /\ Inv' /\ LossInv /\ FirstInv /\ Next => FirstInv'
  <1> SUFFICES ASSUME Inv, Inv', LossInv, FirstInv, Next PROVE FirstInv'
    OBVIOUS
  <1>1. CASE pc = "out" /\ (CopyOut \/ Start)
    <2>1. isl' = <<>>
      BY <1>1 DEF FirstInv, CopyOut, Start, inVars, reader
    <2> QED
      BY <2>1 DEF FirstInv
  <1>2. CASE pc \in Places /\ Interrupt
    BY <1>2 DEF Interrupt, FirstInv, Places
  <1>3. CASE pc \in Places /\ Doinp
    <2>1. pc' # "out" /\ pc # "out"
      <3>1. pc # "out"
        BY <1>3 DEF Places
      <3>2. pc' \in Places \cup {"exit"}
        BY <1>3 DEF Doinp, Interrupt, Places, At, Keep, ReadHeader, TakeFile, FlushLinks, FlushNode,
         StoreLink, FlushEmpty, Trailer, FlushRest, NodeDone, Exit, Inpone, Filein, Unwanted,
         SkipNewer, NoDirectory, NewFile, MakeLink, InLink, Link, UnlinkTarget, LinkFails, Mkstemp,
         MkstempFails, CloseFails, PutEmpty, PutEmptyFails, SetOfile, SetTfile, RenameOld,
         RenameFails, Create, CreateFails, Write,
         WriteFails, Restore, RestoreFails, Forget, UnlinkTemp, TapeEnds, Leave, Over, Goto
      <3> QED
        BY <3>1, <3>2 DEF Places
    <2>2. ASSUME pc' \in Places, NEW f \in DOMAIN isl', NEW n \in Name, isl'[f].name = n
          PROVE  Right(n)' \/ (n = tgt' /\ pc' \in Making \cup Replacing)
      <3>1. (f \in DOMAIN isl /\ isl[f].name = n) \/ (NewFile /\ n = tgt)
        BY <2>1, <2>2, Names, CpioAssumption DEF CpioAssumption
      <3>2. CASE NewFile /\ n = tgt
        BY <3>2, SameTgt DEF NewFile, Goto, Making, Replacing
      <3> QED
        BY <1>3, <2>2, <3>1, <3>2, FirstKept
    <2> QED
      BY <2>1, <2>2 DEF FirstInv
  <1> QED
    BY <1>1, <1>2, <1>3, Phases

\* No file is lost at first, and none through a step.
LEMMA LossStep == Inv /\ Inv' /\ LossInv /\ FirstInv /\ Next => LossInv'
  <1> SUFFICES ASSUME Inv, Inv', LossInv, FirstInv, Next PROVE LossInv'
    OBVIOUS
  <1>1. CASE CopyOut
    <2>1. pc' = "out"
      BY <1>1 DEF CopyOut, inVars
    <2> QED
      BY <2>1 DEF LossInv, OthersKept, TgtKept, TgtInv, NothingLost, Making, Replacing
  <1> QED
    BY <1>1, Phases, Kinds, LossStart, LossReading, LossChoosing, LossLinking, LossKeeping, LossWriting,
       LossEnding, LossInterrupt

\* At first nothing has been lost.
LEMMA LossFirst == Init => LossInv /\ FirstInv
  BY DEF Init, LossInv, OthersKept, TgtKept, TgtInv, NothingLost, FirstInv, Making, Replacing, Places

\* And every step, also one that leaves all as it is, keeps it so.
LEMMA LossNext == Inv /\ Inv' /\ LossInv /\ FirstInv /\ [Next]_vars => LossInv' /\ FirstInv'
  <1>1. ASSUME LossInv, FirstInv, UNCHANGED vars PROVE LossInv' /\ FirstInv'
    <2> USE <1>1 DEF vars, outVars, archive, inVars, given, reader, tree, cur
    <2>1. tgt' = tgt /\ AtTgt' = AtTgt
      BY SameTgt
    <2>2. OthersKept'
      BY <2>1 DEF LossInv, OthersKept, Good, Final, Made
    <2>3. TgtKept'
      BY <2>1 DEF LossInv, TgtKept, Good, Final, Made, Exists
    <2>4. TgtInv'
      BY <2>1 DEF LossInv, TgtInv, Exists, Whole, Made
    <2>5. NothingLost'
      BY <2>1 DEF LossInv, NothingLost, Exists, Whole, Made
    <2>6. FirstInv'
      BY <2>1 DEF FirstInv, Right, Exists, Whole, Made
    <2> QED
      BY <2>2, <2>3, <2>4, <2>5, <2>6 DEF LossInv
  <1> QED
    BY <1>1, LossStep, FirstStep

\* Whatever call fails, wherever the archive ends and SIGINT comes, a name that cpio -i ends
\* with is the file it was, or the whole new one, or is lost in one of the ways that GivenUp
\* names, like a failing close() of the temporary file: for any archive, any target and any
\* number of failures (filein(), linkunlink(), onint()).
THEOREM CpioKeeps == Spec => []NothingLost
  <1>1. LossInv => NothingLost
    BY DEF LossInv
  <1> QED
    BY InvInit, InvStep, LossFirst, LossNext, <1>1, PTL DEF Spec

-----------------------------------------------------------------------------
(* Counting names *)

\* Where n is in s, and how often.
Spots(s, n) == {i \in DOMAIN s : s[i] = n}
Num(s, n) == Cardinality(Spots(s, n))

\* A name is counted by a number, which is 0 when it is not there.
LEMMA NumType ==
    ASSUME NEW s \in Seq(Name), NEW n
    PROVE  /\ IsFiniteSet(Spots(s, n)) /\ Num(s, n) = Cardinality(Spots(s, n))
           /\ Num(s, n) \in Nat
           /\ Num(s, n) > 0 <=> \E k \in 1..Len(s) : s[k] = n
  <1>1. IsFiniteSet(1..Len(s))
    BY FS_Interval
  <1>2. IsFiniteSet(Spots(s, n))
    BY <1>1, FS_Subset DEF Spots
  <1>3. Num(s, n) = Cardinality(Spots(s, n))
    BY DEF Num, Spots
  <1>4. Cardinality(Spots(s, n)) \in Nat
    BY <1>2, FS_CardinalityType
  <1>5. Cardinality(Spots(s, n)) = 0 <=> Spots(s, n) = {}
    BY <1>2, FS_EmptySet
  <1>6. Spots(s, n) # {} <=> \E k \in 1..Len(s) : s[k] = n
    BY DEF Spots
  <1> QED
    BY <1>2, <1>3, <1>4, <1>5, <1>6

\* No name is in the empty sequence.
LEMMA NumEmpty == \A n : Num(<<>>, n) = 0
  <1> TAKE n
  <1>1. Spots(<<>>, n) = {}
    BY DEF Spots
  <1> QED
    BY <1>1, FS_EmptySet DEF Num

\* A sequence of one name.
LEMMA NumOne ==
    ASSUME NEW x \in Name, NEW n
    PROVE  Num(<<x>>, n) = IF x = n THEN 1 ELSE 0
  <1>1. CASE x = n
    <2>1. Spots(<<x>>, n) = {1}
      BY <1>1 DEF Spots
    <2> QED
      BY <1>1, <2>1, FS_Singleton DEF Num
  <1>2. CASE x # n
    <2>1. Spots(<<x>>, n) = {}
      BY <1>2 DEF Spots
    <2> QED
      BY <1>2, <2>1, FS_EmptySet DEF Num
  <1> QED
    BY <1>1, <1>2

\* Two sequences, one after the other.
LEMMA NumJoin ==
    ASSUME NEW s \in Seq(Name), NEW t \in Seq(Name), NEW n
    PROVE  Num(s \o t, n) = Num(s, n) + Num(t, n)
  <1> DEFINE moved == {k + Len(s) : k \in Spots(t, n)}
             f == [k \in Spots(t, n) |-> k + Len(s)]
  <1>1. Len(s) \in Nat /\ Len(t) \in Nat /\ s \o t \in Seq(Name) /\ Len(s \o t) = Len(s) + Len(t)
    OBVIOUS
  <1>2. Spots(t, n) \subseteq Nat
    BY <1>1 DEF Spots
  <1>3. Spots(s \o t, n) = Spots(s, n) \cup moved
    <2>1. ASSUME NEW k \in Spots(s \o t, n) PROVE k \in Spots(s, n) \cup moved
      <3>1. CASE k <= Len(s)
        BY <1>1, <2>1, <3>1 DEF Spots
      <3>2. CASE k > Len(s)
        <4>1. k - Len(s) \in Spots(t, n)
          BY <1>1, <2>1, <3>2 DEF Spots
        <4>2. k = (k - Len(s)) + Len(s)
          BY <1>1, <2>1 DEF Spots
        <4> QED
          BY <4>1, <4>2
      <3> QED
        BY <1>1, <2>1, <3>1, <3>2 DEF Spots
    <2>2. ASSUME NEW k \in Spots(s, n) PROVE k \in Spots(s \o t, n)
      BY <1>1, <2>2 DEF Spots
    <2>3. ASSUME NEW k \in Spots(t, n) PROVE k + Len(s) \in Spots(s \o t, n)
      <3>1. k \in 1..Len(t) /\ t[k] = n
        BY <2>3 DEF Spots
      <3>2. (s \o t)[k + Len(s)] = t[k]
        BY <1>1, <3>1
      <3> QED
        BY <1>1, <3>1, <3>2 DEF Spots
    <2> QED
      BY <2>1, <2>2, <2>3
  <1>4. Spots(s, n) \cap moved = {}
    BY <1>1, <1>2 DEF Spots
  <1>5. f \in Bijection(Spots(t, n), moved)
    <2>1. f \in [Spots(t, n) -> moved]
      OBVIOUS
    <2>2. \A i, j \in Spots(t, n) : f[i] = f[j] => i = j
      BY <1>1, <1>2
    <2>3. \A m \in moved : \E k \in Spots(t, n) : f[k] = m
      OBVIOUS
    <2> HIDE DEF f, moved
    <2> QED
      BY <2>1, <2>2, <2>3, Zenon DEF Bijection, Injection, Surjection, IsInjective
  <1> HIDE DEF moved, f
  <1>6. IsFiniteSet(Spots(t, n)) /\ IsFiniteSet(Spots(s, n))
    BY NumType
  <1>7. ExistsBijection(Spots(t, n), moved)
    BY <1>5 DEF ExistsBijection
  <1>8. IsFiniteSet(moved) /\ Cardinality(moved) = Cardinality(Spots(t, n))
    BY <1>6, <1>7, FS_Bijection
  <1>9. Cardinality(Spots(s \o t, n)) = Cardinality(Spots(s, n)) + Cardinality(moved) - Cardinality({})
    BY <1>3, <1>4, <1>6, <1>8, FS_Union
  <1>10. Cardinality({}) = 0
    BY FS_EmptySet
  <1>11. /\ Num(s \o t, n) = Cardinality(Spots(s \o t, n)) /\ Num(s, n) = Cardinality(Spots(s, n))
         /\ Num(t, n) = Cardinality(Spots(t, n)) /\ Num(s, n) \in Nat /\ Num(t, n) \in Nat
    BY <1>1, NumType
  <1> QED
    BY <1>8, <1>9, <1>10, <1>11

\* A sequence without its first name.
LEMMA NumTail ==
    ASSUME NEW s \in Seq(Name), s # <<>>, NEW n
    PROVE  /\ Head(s) \in Name /\ Tail(s) \in Seq(Name)
           /\ Num(s, n) = (IF Head(s) = n THEN 1 ELSE 0) + Num(Tail(s), n)
  <1>1. Head(s) \in Name /\ Tail(s) \in Seq(Name) /\ <<Head(s)>> \in Seq(Name)
    OBVIOUS
  <1>2. s = <<Head(s)>> \o Tail(s)
    OBVIOUS
  <1>3. Num(<<Head(s)>> \o Tail(s), n) = Num(<<Head(s)>>, n) + Num(Tail(s), n)
    BY <1>1, NumJoin
  <1>4. Num(<<Head(s)>>, n) = IF Head(s) = n THEN 1 ELSE 0
    BY <1>1, NumOne
  <1> QED
    BY <1>1, <1>2, <1>3, <1>4

\* Names that are there once at most are at one place.
LEMMA NumOnce ==
    ASSUME NEW s \in Seq(Name), NEW n, Num(s, n) <= 1,
           NEW i \in 1..Len(s), NEW j \in 1..Len(s), s[i] = n, s[j] = n
    PROVE  i = j
  <1>1. {i, j} \subseteq Spots(s, n)
    BY DEF Spots
  <1>2. IsFiniteSet(Spots(s, n)) /\ Num(s, n) = Cardinality(Spots(s, n))
    BY NumType
  <1>3. Cardinality({i, j}) <= Cardinality(Spots(s, n))
    BY <1>1, <1>2, FS_Subset
  <1>4. i # j => Cardinality({i, j}) = 2
    <2> SUFFICES ASSUME i # j PROVE Cardinality({i, j}) = 2
      OBVIOUS
    <2>1. IsFiniteSet({i}) /\ Cardinality({i}) = 1
      BY FS_Singleton
    <2>2. Cardinality({i} \cup {j}) = Cardinality({i}) + 1
      BY <2>1, FS_AddElement
    <2>3. Cardinality({i} \cup {j}) = 2
      <3>1. 1 + 1 = 2
        OBVIOUS
      <3> QED
        BY <2>1, <2>2, <3>1, Zenon
    <2>4. {i} \cup {j} = {i, j}
      OBVIOUS
    <2> QED
      BY <2>3, <2>4, Zenon
  <1>5. Num(s, n) \in Nat
    BY NumType
  <1> QED
    BY <1>2, <1>3, <1>4, <1>5

\* As many different names as there are places, and one more.
LEMMA DifferentNames ==
    ASSUME NEW s \in Seq(Name), \A i, j \in 1..Len(s) : s[i] = s[j] => i = j
    PROVE  LET S == {s[i] : i \in 1..Len(s)}
           IN IsFiniteSet(S) /\ Cardinality(S) = Len(s)
  <1> DEFINE S == {s[i] : i \in 1..Len(s)}
             f == [i \in 1..Len(s) |-> s[i]]
  <1>1. f \in Bijection(1..Len(s), S)
    <2>1. f \in [1..Len(s) -> S]
      OBVIOUS
    <2>2. \A i, j \in 1..Len(s) : f[i] = f[j] => i = j
      OBVIOUS
    <2>3. \A m \in S : \E i \in 1..Len(s) : f[i] = m
      OBVIOUS
    <2> HIDE DEF f, S
    <2> QED
      BY <2>1, <2>2, <2>3, Zenon DEF Bijection, Injection, Surjection, IsInjective
  <1>2. IsFiniteSet(1..Len(s)) /\ Cardinality(1..Len(s)) = Len(s)
    <2>1. PICK n \in Nat : n = Len(s)
      OBVIOUS
    <2>2. Cardinality(1..n) = IF 1 > n THEN 0 ELSE n - 1 + 1
      BY FS_Interval
    <2>3. Cardinality(1..n) = n
      BY <2>2
    <2>4. IsFiniteSet(1..n)
      BY FS_Interval
    <2> QED
      BY <2>1, <2>3, <2>4
  <1> HIDE DEF S, f
  <1>3. ExistsBijection(1..Len(s), S)
    BY <1>1 DEF ExistsBijection
  <1>4. IsFiniteSet(S) /\ Cardinality(S) = Cardinality(1..Len(s))
    BY <1>2, <1>3, FS_Bijection
  <1> QED
    BY <1>2, <1>4 DEF S

-----------------------------------------------------------------------------
(* What cpio -o writes *)

\* The names of the entries.
NamesOf(s) == [i \in DOMAIN s |-> s[i].name]

\* Entry i is of file f.
OfFile(i, f) == FileOf[tape[i].name] = f

\* The names of entries are names.
LEMMA NamesType ==
    ASSUME NEW s \in Seq(Heads)
    PROVE  NamesOf(s) \in Seq(Name) /\ Len(NamesOf(s)) = Len(s) /\ \A i \in 1..Len(s) : NamesOf(s)[i] = s[i].name
  <1>1. \A h \in Heads : h.name \in Name
    BY DEF Heads
  <1>2. \A i \in 1..Len(s) : s[i].name \in Name
    <2> HIDE DEF Heads
    <2> QED
      BY <1>1
  <1>3. NamesOf(s) = [i \in 1..Len(s) |-> s[i].name]
    BY DEF NamesOf
  <1> QED
    BY <1>2, <1>3

\* One element more.
LEMMA Added ==
    ASSUME NEW S, NEW s \in Seq(S), NEW x \in S
    PROVE  /\ s \o <<x>> \in Seq(S) /\ Len(s \o <<x>>) = Len(s) + 1 /\ (s \o <<x>>)[Len(s) + 1] = x
           /\ \A i \in 1..Len(s) : (s \o <<x>>)[i] = s[i]
  <1>1. s \o <<x>> = Append(s, x)
    OBVIOUS
  <1> QED
    BY <1>1

\* addfile() adds the links without data, and the entry itself unless it fails.
LEMMA AddFileDoes ==
    ASSUME tape \in Seq(Heads), NEW n \in Name, NEW links \in Seq(Name), AddFile(links, n)
    PROVE  /\ tape' \in Seq(Heads)
           /\ \E q \in {0, 1} :
                /\ Len(tape') = Len(tape) + Len(links) + q
                /\ \A i \in 1..Len(tape) : tape'[i] = tape[i]
                /\ \A i \in 1..Len(links) : tape'[Len(tape) + i] = Entry(links[i], TRUE)
                /\ q = 1 => tape'[Len(tape) + Len(links) + 1] = Entry(n, FALSE) /\ failed' = failed
                /\ q = 0 => failed' = failed \cup {n}
  <1> DEFINE e == Entry(n, FALSE)
             z == ZeroLinks(links)
  <1>1. e \in Heads /\ z \in Seq(Heads) /\ tape' \in Seq(Heads)
    BY EntryType, ZeroType, AddFileType
  <1>2. Len(z) = Len(links) /\ \A i \in 1..Len(links) : z[i] = Entry(links[i], TRUE)
    <2> DEFINE g(x) == Entry(x, TRUE)
    <2>1. z = [i \in 1..Len(links) |-> g(links[i])] /\ Len(links) \in Nat
      BY DEF ZeroLinks
    <2> HIDE DEF z, g
    <2>2. Len(z) = Len(links) /\ \A i \in 1..Len(links) : z[i] = g(links[i])
      BY <1>1, <2>1
    <2> QED
      BY <2>2 DEF g
  <1>3. \/ tape' = tape \o z \o <<e>> /\ failed' = failed
        \/ tape' = tape \o z /\ failed' = failed \cup {n}
    BY DEF AddFile
  <1>4. PICK L \in Nat, k \in Nat : L = Len(tape) /\ k = Len(z)
    BY <1>1
  <1> HIDE DEF e, z, Heads
  <1> DEFINE t == tape \o z
  <1>5. /\ t \in Seq(Heads) /\ Len(t) = L + k /\ \A i \in 1..L : t[i] = tape[i]
        /\ \A i \in 1..k : t[L + i] = z[i]
    BY <1>1, <1>4
  <1> HIDE DEF t
  <1>6. CASE tape' = t /\ failed' = failed \cup {n}
    <2> DEFINE q == 0
    <2>1. Len(tape') = L + k + q
      BY <1>4, <1>5, <1>6
    <2>2. \A i \in 1..k : tape'[L + i] = Entry(links[i], TRUE)
      BY <1>2, <1>4, <1>5, <1>6
    <2>3. \A i \in 1..L : tape'[i] = tape[i]
      BY <1>5, <1>6
    <2>4. q \in {0, 1} /\ q # 1
      OBVIOUS
    <2> HIDE DEF q
    <2> QED
      BY <1>1, <1>2, <1>4, <1>6, <2>1, <2>2, <2>3, <2>4
  <1>7. CASE tape' = t \o <<e>> /\ failed' = failed
    <2>8. /\ Len(t \o <<e>>) = Len(t) + 1 /\ (t \o <<e>>)[Len(t) + 1] = e
          /\ \A i \in 1..Len(t) : (t \o <<e>>)[i] = t[i]
      <3>1. t \in Seq(Heads) /\ e \in Heads
        BY <1>1, <1>5
      <3> QED
        BY <3>1, Added, SMTT(60)
    <2> DEFINE q == 1
    <2>1. /\ Len(tape') = Len(t) + 1 /\ tape'[Len(t) + 1] = e
          /\ \A i \in 1..Len(t) : tape'[i] = t[i]
      BY <1>7, <2>8, Zenon
    <2>2. Len(tape') = L + k + q
      BY <1>5, <2>1
    <2>3. \A i \in 1..L + k : tape'[i] = t[i]
      BY <1>5, <2>1
    <2>4. tape'[L + k + 1] = e
      BY <1>5, <2>1
    <2>5. \A i \in 1..L : tape'[i] = tape[i]
      BY <1>4, <1>5, <2>3
    <2>6. \A i \in 1..k : tape'[L + i] = Entry(links[i], TRUE)
      <3> TAKE i \in 1..k
      <3>1. L + i \in 1..L + k
        BY <1>4
      <3> QED
        BY <1>2, <1>4, <1>5, <2>3, <3>1
    <2>7. q \in {0, 1} /\ q # 0
      OBVIOUS
    <2> HIDE DEF q
    <2> QED
      BY <1>1, <1>2, <1>4, <1>7, <2>2, <2>4, <2>5, <2>6, <2>7 DEF e
  <1> QED
    BY <1>3, <1>6, <1>7 DEF t

\* So each name that did not fail is there once more for each time it was given.
LEMMA AddFileCounts ==
    ASSUME tape \in Seq(Heads), NEW n \in Name, NEW links \in Seq(Name), AddFile(links, n),
           NEW m \in Name, m \notin failed'
    PROVE  Num(NamesOf(tape'), m) = Num(NamesOf(tape), m) + Num(links, m) + IF m = n THEN 1 ELSE 0
  <1>1. tape' \in Seq(Heads)
    BY AddFileDoes
  <1>2. PICK q \in {0, 1} :
                /\ Len(tape') = Len(tape) + Len(links) + q
                /\ \A i \in 1..Len(tape) : tape'[i] = tape[i]
                /\ \A i \in 1..Len(links) : tape'[Len(tape) + i] = Entry(links[i], TRUE)
                /\ q = 1 => tape'[Len(tape) + Len(links) + 1] = Entry(n, FALSE) /\ failed' = failed
                /\ q = 0 => failed' = failed \cup {n}
    BY AddFileDoes
  <1>3. PICK s \in Seq(Name), t \in Seq(Name) : s = NamesOf(tape) /\ t = NamesOf(tape')
    BY <1>1, NamesType
  <1>4. PICK L \in Nat, k \in Nat : L = Len(tape) /\ k = Len(links)
    OBVIOUS
  <1>5. /\ Len(s) = L /\ Len(t) = L + k + q
        /\ \A i \in 1..L : s[i] = tape[i].name
        /\ \A i \in 1..L + k + q : t[i] = tape'[i].name
    BY <1>1, <1>2, <1>3, <1>4, NamesType
  <1>6. \A i \in 1..L : t[i] = s[i]
    BY <1>2, <1>4, <1>5
  <1>7. \A i \in 1..k : t[L + i] = links[i]
    <2> TAKE i \in 1..k
    <2>1. L + i \in 1..L + k + q
      BY <1>4
    <2>2. tape'[L + i] = Entry(links[i], TRUE)
      BY <1>2, <1>4
    <2>3. Entry(links[i], TRUE).name = links[i]
      BY DEF Entry
    <2> QED
      BY <1>5, <2>1, <2>2, <2>3
  <1> DEFINE j == s \o links
  <1>8. /\ j \in Seq(Name) /\ Len(j) = L + k /\ \A i \in 1..L : j[i] = s[i]
        /\ \A i \in 1..k : j[L + i] = links[i]
    BY <1>4, <1>5
  <1>9. Num(j, m) = Num(s, m) + Num(links, m)
    BY <1>3, NumJoin
  <1>14. Num(s, m) \in Nat /\ Num(links, m) \in Nat
    BY NumType
  <1> HIDE DEF j
  <1>10. \A i \in 1..L + k : t[i] = j[i]
    <2> TAKE i \in 1..L + k
    <2>1. CASE i <= L
      BY <1>4, <1>6, <1>8, <2>1
    <2>2. CASE i > L
      <3>1. i - L \in 1..k /\ L + (i - L) = i
        BY <1>4, <2>2
      <3> QED
        BY <1>7, <1>8, <3>1
    <2> QED
      BY <1>4, <2>1, <2>2
  <1>11. CASE q = 0
    <2>1. m # n
      BY <1>2, <1>11
    <2>2. Len(t) = L + k
      BY <1>5, <1>11
    <2>3. t = j
      BY <1>8, <1>10, <2>2
    <2> QED
      BY <1>3, <1>9, <1>14, <2>1, <2>3
  <1>12. CASE q = 1
    <2> DEFINE u == j \o <<n>>
    <2>1. u \in Seq(Name) /\ Len(u) = L + k + 1 /\ u[L + k + 1] = n /\ \A i \in 1..L + k : u[i] = j[i]
      BY <1>8, Added
    <2>2. Num(u, m) = Num(j, m) + IF n = m THEN 1 ELSE 0
      <3>4. <<n>> \in Seq(Name)
        OBVIOUS
      <3>1. PICK o \in Seq(Name) : o = <<n>>
        BY <3>4, Zenon
      <3>3. Num(j \o o, m) = Num(j, m) + Num(o, m)
        BY <1>8, NumJoin
      <3>2. Num(u, m) = Num(j, m) + Num(<<n>>, m)
        BY <3>1, <3>3
      <3> QED
        BY <3>2, NumOne
    <2> HIDE DEF u
    <2>3. Len(t) = L + k + 1
      BY <1>5, <1>12
    <2>4. t[L + k + 1] = n
      <3>1. tape'[L + k + 1] = Entry(n, FALSE)
        BY <1>2, <1>4, <1>12
      <3>2. Entry(n, FALSE).name = n
        BY DEF Entry
      <3>3. L + k + 1 \in 1..L + k + q
        BY <1>12
      <3> QED
        BY <1>5, <3>1, <3>2, <3>3
    <2>5. \A i \in 1..L + k + 1 : t[i] = u[i]
      <3> TAKE i \in 1..L + k + 1
      <3>1. i \in 1..L + k \/ i = L + k + 1
        OBVIOUS
      <3> QED
        BY <1>10, <2>1, <2>4, <3>1
    <2>6. t = u
      BY <2>1, <2>3, <2>5
    <2> QED
      BY <1>3, <1>9, <1>14, <2>2, <2>6
  <1> QED
    BY <1>11, <1>12

\* The entries of f behind its last data, up to place p.
BehindIn(t, f, p) == {i \in 1..p : /\ FileOf[t[i].name] = f
                                   /\ \A j \in i..p : FileOf[t[j].name] = f => ~t[j].data}
Behind(f, p) == BehindIn(tape, f, p)

\* The links of f that cpio -o holds back.
Pending(f) == IF f \in DOMAIN kept /\ kept[f].nlk > 0 THEN kept[f].lnk ELSE <<>>

\* What is held back are links of one file, as many as have come.
KeptInv ==
    \A f \in DOMAIN kept :
        /\ kept[f].lnk \in Seq(LinkOf(f))
        /\ kept[f].nlk > 0 => svr4 /\ kept[f].nlk + Len(kept[f].lnk) = NLink[f]

\* What was listed is in the archive, held back or still to come.
CountedInv ==
    \A n \in Name \ failed :
        Num(NamesOf(tape), n) + Num(list, n) + Num(Pending(FileOf[n]), n) = Num(input, n)

\* Data follows each link of a file that has data; and no more links wait for it than there
\* can be.
FollowInv ==
    svr4 => \A f \in File \ Empty : Sound(f) =>
                /\ Behind(f, Len(tape)) = {}
                /\ \A p \in 0..Len(tape) : Cardinality(Behind(f, p)) < NLink[f]

\* A file whose links need no care has its data with it.
PlainInv ==
    \A i \in 1..Len(tape) : ~Waits(tape[i].name) => (tape[i].data <=> FileOf[tape[i].name] \notin Empty)

CountInv == KeptInv /\ CountedInv /\ FollowInv /\ PlainInv

\* It is about the first entries only.
LEMMA BehindSame ==
    ASSUME NEW t, NEW u, NEW f, NEW p, \A i \in 1..p : t[i] = u[i]
    PROVE  BehindIn(t, f, p) = BehindIn(u, f, p)
  <1> SUFFICES ASSUME NEW i \in 1..p
               PROVE  (\A j \in i..p : FileOf[t[j].name] = f => ~t[j].data)
                      <=> (\A j \in i..p : FileOf[u[j].name] = f => ~u[j].data)
    BY DEF BehindIn
  <1>1. \A j \in i..p : t[j] = u[j]
    OBVIOUS
  <1> QED
    BY <1>1

\* It is a number of places.
LEMMA BehindType ==
    ASSUME NEW t, NEW f, NEW p \in Nat
    PROVE  /\ BehindIn(t, f, p) \subseteq 1..p /\ IsFiniteSet(BehindIn(t, f, p))
           /\ Cardinality(BehindIn(t, f, p)) \in Nat
           /\ Cardinality(BehindIn(t, f, p)) = 0 <=> BehindIn(t, f, p) = {}
  <1>1. BehindIn(t, f, p) \subseteq 1..p
    BY DEF BehindIn
  <1>2. IsFiniteSet(BehindIn(t, f, p))
    BY <1>1, FS_Interval, FS_Subset
  <1> QED
    BY <1>1, <1>2, FS_CardinalityType, FS_EmptySet

\* One entry more.
LEMMA BehindNext ==
    ASSUME NEW t, NEW f, NEW p \in Nat
    PROVE  /\ FileOf[t[p + 1].name] # f => BehindIn(t, f, p + 1) = BehindIn(t, f, p)
           /\ FileOf[t[p + 1].name] = f /\ t[p + 1].data => BehindIn(t, f, p + 1) = {}
           /\ FileOf[t[p + 1].name] = f /\ ~t[p + 1].data =>
                  /\ BehindIn(t, f, p + 1) = BehindIn(t, f, p) \cup {p + 1}
                  /\ Cardinality(BehindIn(t, f, p + 1)) = Cardinality(BehindIn(t, f, p)) + 1
  <1> DEFINE of(i) == FileOf[t[i].name] = f
             d(i) == t[i].data
  <1>1. \A q : BehindIn(t, f, q) = {i \in 1..q : of(i) /\ \A j \in i..q : of(j) => ~d(j)}
    BY DEF BehindIn
  <1> HIDE DEF of, d
  <1>2. 1..p + 1 = (1..p) \cup {p + 1} /\ p + 1 \notin 1..p
    OBVIOUS
  <1>3. \A i \in 1..p : i..p + 1 = (i..p) \cup {p + 1}
    OBVIOUS
  <1>4. (p + 1)..(p + 1) = {p + 1}
    OBVIOUS
  <1>5. ~of(p + 1) => BehindIn(t, f, p + 1) = BehindIn(t, f, p)
    <2> SUFFICES ASSUME ~of(p + 1), NEW i \in 1..p + 1
                 PROVE  i \in BehindIn(t, f, p + 1) <=> i \in BehindIn(t, f, p)
      BY <1>1, <1>2, SMTT(30)
    <2>1. CASE i = p + 1
      BY <1>1, <1>2, <2>1
    <2>2. CASE i \in 1..p
      <3>1. (\A j \in i..p + 1 : of(j) => ~d(j)) <=> (\A j \in i..p : of(j) => ~d(j))
        BY <1>3, <2>2
      <3> QED
        BY <1>1, <2>2, <3>1
    <2> QED
      BY <1>2, <2>1, <2>2
  <1>6. of(p + 1) /\ d(p + 1) => BehindIn(t, f, p + 1) = {}
    BY <1>1, <1>2, <1>3, <1>4
  <1>7. of(p + 1) /\ ~d(p + 1) => BehindIn(t, f, p + 1) = BehindIn(t, f, p) \cup {p + 1}
    BY <1>1, <1>2, <1>3, <1>4
  <1>8. p + 1 \notin BehindIn(t, f, p) /\ IsFiniteSet(BehindIn(t, f, p))
    BY <1>2, BehindType
  <1>9. Cardinality(BehindIn(t, f, p) \cup {p + 1}) = Cardinality(BehindIn(t, f, p)) + 1
    BY <1>8, FS_AddElement
  <1> QED
    BY <1>5, <1>6, <1>7, <1>9 DEF of, d

\* The first entry is behind no data.
LEMMA BehindNone == \A t, f : BehindIn(t, f, 0) = {}
  BY DEF BehindIn

\* addfile() of a file and of the links that were held back: all of them are of f.
LEMMA FollowKept ==
    ASSUME CpioOutAssumption, OutInv, svr4, FollowInv, NEW f \in File, NEW n \in LinkOf(f),
           NEW links \in Seq(LinkOf(f)), Len(links) < NLink[f], AddFile(links, n), svr4' = svr4
    PROVE  FollowInv'
  <1> SUFFICES ASSUME NEW g \in File \ Empty, Sound(g)'
               PROVE  /\ BehindIn(tape', g, Len(tape')) = {}
                      /\ \A p \in 0..Len(tape') : Cardinality(BehindIn(tape', g, p)) < NLink[g]
    BY DEF FollowInv, Behind
  <1>1. n \in Name /\ FileOf[n] = f /\ links \in Seq(Name) /\ \A i \in 1..Len(links) : FileOf[links[i]] = f
    <2>1. LinkOf(f) \subseteq Name /\ \A m \in LinkOf(f) : FileOf[m] = f
      BY DEF LinkOf
    <2>2. links \in Seq(Name)
      BY <2>1, SeqMonotonic
    <2> QED
      BY <2>1, <2>2
  <1>2. tape \in Seq(Heads) /\ tape' \in Seq(Heads)
    BY <1>1, AddFileDoes DEF OutInv
  <1>3. PICK q \in {0, 1} :
                /\ Len(tape') = Len(tape) + Len(links) + q
                /\ \A i \in 1..Len(tape) : tape'[i] = tape[i]
                /\ \A i \in 1..Len(links) : tape'[Len(tape) + i] = Entry(links[i], TRUE)
                /\ q = 1 => tape'[Len(tape) + Len(links) + 1] = Entry(n, FALSE) /\ failed' = failed
                /\ q = 0 => failed' = failed \cup {n}
    BY <1>1, <1>2, AddFileDoes
  <1>4. PICK L \in Nat, k \in Nat : L = Len(tape) /\ k = Len(links)
    BY <1>2
  <1>5. Sound(g) /\ NLink[g] \in Nat \ {0} /\ (q = 0 => g # f)
    <2>1. failed \subseteq failed'
      BY <1>3
    <2> QED
      BY <1>1, <1>3, <2>1 DEF Sound, CpioOutAssumption
  <1>6. BehindIn(tape, g, L) = {} /\ \A p \in 0..L : Cardinality(BehindIn(tape, g, p)) < NLink[g]
    BY <1>4, <1>5 DEF FollowInv, Behind
  <1>7. \A i \in L + 1..L + k + q : FileOf[tape'[i].name] = f
    <2> TAKE i \in L + 1..L + k + q
    <2>1. CASE i <= L + k
      <3>1. PICK j \in 1..k : i = L + j
        <4>1. i - L \in 1..k /\ i = L + (i - L)
          BY <1>4, <2>1
        <4> QED
          BY <4>1
      <3>2. tape'[i] = Entry(links[j], TRUE) /\ FileOf[links[j]] = f
        BY <1>1, <1>3, <1>4, <3>1
      <3>3. Entry(links[j], TRUE).name = links[j]
        BY DEF Entry
      <3> QED
        BY <3>2, <3>3
    <2>2. CASE i > L + k
      <3>1. i = L + k + 1 /\ q = 1
        BY <1>4, <2>2
      <3> QED
        BY <1>1, <1>3, <1>4, <3>1 DEF Entry
    <2> QED
      BY <1>4, <2>1, <2>2
  <1>8. ASSUME NEW p \in L..L + k + q PROVE BehindIn(tape', g, p) \subseteq L + 1..p
    <2> SUFFICES ASSUME NEW i \in 1..L, i \in BehindIn(tape', g, p) PROVE FALSE
      BY <1>4 DEF BehindIn
    <2>1. FileOf[tape[i].name] = g /\ \A j \in i..L : FileOf[tape[j].name] = g => ~tape[j].data
      <3>1. \A j \in i..L : j \in i..p /\ tape'[j] = tape[j]
        BY <1>3, <1>4
      <3> QED
        BY <1>3, <1>4, <3>1 DEF BehindIn
    <2>2. i \in BehindIn(tape, g, L)
      BY <2>1 DEF BehindIn
    <2> QED
      BY <1>6, <2>2
  <1>9. ASSUME g # f, NEW p \in L..L + k + q PROVE BehindIn(tape', g, p) = {}
    <2>1. \A i \in L + 1..p : FileOf[tape'[i].name] = f
      BY <1>7
    <2>2. \A i \in L + 1..p : i \notin BehindIn(tape', g, p)
      BY <1>9, <2>1 DEF BehindIn
    <2> QED
      BY <1>8, <2>2
  <1>10. q = 1 /\ g = f => BehindIn(tape', g, L + k + 1) = {}
    <2> SUFFICES ASSUME q = 1, g = f PROVE BehindIn(tape', g, L + k + 1) = {}
      OBVIOUS
    <2>1. tape'[L + k + 1] = Entry(n, FALSE)
      BY <1>3, <1>4
    <2>2. Entry(n, FALSE).data /\ FileOf[Entry(n, FALSE).name] = g
      BY <1>1 DEF Entry
    <2>3. L + k \in Nat
      BY <1>4
    <2> QED
      BY <2>1, <2>2, <2>3, BehindNext
  <1>11. BehindIn(tape', g, Len(tape')) = {}
    <2>1. CASE g # f
      <3>1. Len(tape') \in L..L + k + q
        BY <1>3, <1>4
      <3> QED
        BY <1>9, <2>1, <3>1
    <2>2. CASE g = f
      <3>1. q = 1
        BY <1>5, <2>2
      <3>2. Len(tape') = L + k + 1
        BY <1>3, <1>4, <3>1
      <3> QED
        BY <1>10, <2>2, <3>1, <3>2
    <2> QED
      BY <2>1, <2>2
  <1>12. ASSUME NEW p \in 0..Len(tape') PROVE Cardinality(BehindIn(tape', g, p)) < NLink[g]
    <2>0. p \in Nat /\ Len(tape') = L + k + q
      BY <1>2, <1>3, <1>4
    <2>1. CASE p <= L
      <3>1. \A i \in 1..p : tape'[i] = tape[i]
        BY <1>3, <1>4, <2>0, <2>1
      <3>2. BehindIn(tape', g, p) = BehindIn(tape, g, p)
        BY <3>1, BehindSame
      <3> QED
        BY <1>6, <2>0, <2>1, <3>2
    <2>2. CASE p > L
      <3>1. p \in L..L + k + q
        BY <1>12, <2>0, <2>2
      <3>2. Cardinality({}) = 0
        BY FS_EmptySet
      <3>3. CASE g # f
        <4>1. BehindIn(tape', g, p) = {}
          BY <1>9, <3>1, <3>3
        <4> QED
          BY <1>5, <3>2, <4>1
      <3>4. CASE g = f /\ p <= L + k
        <4>1. IsFiniteSet(L + 1..p) /\ Cardinality(L + 1..p) = p - L
          <5>1. Cardinality(L + 1..p) = p - (L + 1) + 1
            BY <1>4, <2>0, <2>2, FS_Interval
          <5> QED
            BY <1>4, <2>0, <5>1, FS_Interval
        <4>2. Cardinality(BehindIn(tape', g, p)) <= p - L /\ Cardinality(BehindIn(tape', g, p)) \in Nat
          BY <1>8, <2>0, <3>1, <4>1, FS_Subset, BehindType
        <4>3. p - L <= k /\ k < NLink[g]
          BY <1>4, <2>0, <3>4
        <4> QED
          BY <1>4, <1>5, <2>0, <4>2, <4>3
      <3>5. CASE g = f /\ p > L + k
        <4>1. q = 1 /\ p = L + k + 1
          <5>1. p <= L + k + q /\ q <= 1 /\ q \in Nat
            BY <1>12, <2>0
          <5>2. p > L + k
            BY <3>5
          <5>3. q # 0
            BY <1>4, <2>0, <5>1, <5>2
          <5>4. q = 1
            BY <5>3
          <5>5. p <= L + k + 1
            BY <5>1, <5>4
          <5>6. p \in Nat /\ L \in Nat /\ k \in Nat
            BY <1>4, <2>0
          <5>7. p = L + k + 1
            BY <5>2, <5>5, <5>6
          <5> QED
            BY <5>4, <5>7
        <4>2. BehindIn(tape', g, p) = {}
          BY <1>10, <3>5, <4>1
        <4> QED
          BY <1>5, <3>2, <4>2
      <3> QED
        BY <1>4, <2>0, <3>3, <3>4, <3>5
    <2> QED
      BY <1>4, <2>0, <2>1, <2>2
  <1> QED
    BY <1>11, <1>12

\* A sequence and one element more.
LEMMA Appended ==
    ASSUME NEW S, NEW s \in Seq(S), NEW x \in S
    PROVE  /\ Append(s, x) \in Seq(S) /\ Len(Append(s, x)) = Len(s) + 1
           /\ Append(s, x) = s \o <<x>> /\ <<x>> \in Seq(S)
  <1>1. Append(s, x) \in Seq(S)
    OBVIOUS
  <1>2. Len(Append(s, x)) = Len(s) + 1
    OBVIOUS
  <1>3. <<x>> \in Seq(S)
    OBVIOUS
  <1>4. Append(s, x) = s \o <<x>>
    BY AppendIsConcat
  <1> QED
    BY <1>1, <1>2, <1>3, <1>4, Zenon
\* A sequence is its begin and its last element.
LEMMA BeginAndLast ==
    ASSUME NEW S, NEW s \in Seq(S), s # <<>>
    PROVE  LET b == SubSeq(s, 1, Len(s) - 1)  x == s[Len(s)] IN
           /\ b \in Seq(S) /\ x \in S /\ Len(b) = Len(s) - 1 /\ s = b \o <<x>>
  <1>1. 1 \in 1..Len(s) /\ Len(s) \in 1..Len(s) /\ Len(s) \in Nat
    OBVIOUS
  <1>2. SubSeq(s, 1, Len(s)) = SubSeq(s, 1, Len(s) - 1) \o <<s[Len(s)]>>
    BY <1>1, SubSeqRecursiveSecond
  <1>3. SubSeq(s, 1, Len(s)) = s
    BY SubSeqFull
  <1>4. s[Len(s)] \in S
    BY <1>1
  <1>5. /\ SubSeq(s, 1, Len(s) - 1) \in Seq(S)
        /\ Len(SubSeq(s, 1, Len(s) - 1)) = Len(s) - 1
    <2>1. \A i \in 1..Len(s) - 1 : s[i] \in S
      BY <1>1
    <2>2. Len(SubSeq(s, 1, Len(s) - 1)) = IF 1 <= Len(s) - 1 THEN Len(s) - 1 - 1 + 1 ELSE 0
      BY <1>1, <2>1, SubSeqProperties
    <2>3. SubSeq(s, 1, Len(s) - 1) \in Seq(S)
      <3>1. 1 \in Int /\ Len(s) - 1 \in Int
        BY <1>1
      <3> QED
        BY <2>1, <3>1, SubSeqProperties, Zenon
    <2>4. \A N \in Nat \ {0} : (IF 1 <= N - 1 THEN N - 1 - 1 + 1 ELSE 0) = N - 1
      OBVIOUS
    <2>5. Len(s) \in Nat \ {0}
      BY <1>1
    <2>6. Len(SubSeq(s, 1, Len(s) - 1)) = Len(s) - 1
      BY <2>2, <2>4, <2>5, Zenon
    <2> QED
      BY <2>3, <2>6
  <1> QED
    BY <1>2, <1>3, <1>4, <1>5, Zenon

\* What is held back of f are links of f.
LEMMA PendingType ==
    ASSUME CpioOutAssumption, OutInv, KeptInv, NEW f
    PROVE  Pending(f) \in Seq(LinkOf(f)) /\ Pending(f) \in Seq(Name)
  <1>1. Pending(f) \in Seq(LinkOf(f))
    <2>1. <<>> \in Seq(LinkOf(f))
      OBVIOUS
    <2> QED
      BY <2>1 DEF Pending, KeptInv
  <1>2. LinkOf(f) \subseteq Name
    BY DEF LinkOf
  <1> QED
    BY <1>1, <1>2, SeqMonotonic

\* No name of another file is among the links of f.
LEMMA NoLink ==
    ASSUME NEW f, NEW links \in Seq(LinkOf(f)), NEW m, FileOf[m] # f
    PROVE  Num(links, m) = 0
  <1>1. LinkOf(f) \subseteq Name /\ \A x \in LinkOf(f) : FileOf[x] = f
    BY DEF LinkOf
  <1>2. links \in Seq(Name)
    BY <1>1, SeqMonotonic
  <1>3. ~\E i \in 1..Len(links) : links[i] = m
    BY <1>1
  <1>4. Num(links, m) \in Nat /\ (Num(links, m) > 0 <=> \E i \in 1..Len(links) : links[i] = m)
    BY <1>2, NumType
  <1> QED
    BY <1>3, <1>4

\* The slot that outfile() looks at: what it holds back, and what it waits for, make st_nlink.
LEMMA SlotIs ==
    ASSUME CpioOutAssumption, OutInv, KeptInv, NEW n \in Name
    PROVE  /\ FileOf[n] \in File /\ NLink[FileOf[n]] \in Nat \ {0}
           /\ Slot(n).lnk = Pending(FileOf[n]) /\ Slot(n).nlk \in Nat \ {0}
           /\ Slot(n).nlk + Len(Slot(n).lnk) = NLink[FileOf[n]]
  <1>1. FileOf[n] \in File /\ NLink[FileOf[n]] \in Nat \ {0}
    BY DEF CpioOutAssumption
  <1>2. PICK f : f = FileOf[n]
    OBVIOUS
  <1>3. CASE f \in DOMAIN kept /\ kept[f].nlk > 0
    <2>1. Slot(n) = kept[f] /\ Pending(f) = kept[f].lnk
      BY <1>2, <1>3 DEF Slot, Pending
    <2>2. kept[f].nlk \in Nat
      BY <1>1, <1>2, <1>3 DEF OutInv
    <2> QED
      BY <1>1, <1>2, <1>3, <2>1, <2>2 DEF KeptInv
  <1>4. CASE ~(f \in DOMAIN kept /\ kept[f].nlk > 0)
    <2>1. Slot(n).lnk = <<>> /\ Slot(n).nlk = NLink[f] /\ Pending(f) = <<>>
      BY <1>2, <1>4 DEF Slot, Pending
    <2>2. Len(<<>>) = 0
      OBVIOUS
    <2> QED
      BY <1>1, <1>2, <2>1, <2>2
  <1> QED
    BY <1>3, <1>4

\* links, and then n, leave the list and the slots.
Moving(links, n) ==
    \A m \in Name : /\ Num(list', m) \in Nat /\ Num(Pending(FileOf[m])', m) \in Nat
                    /\ Num(list, m) + Num(Pending(FileOf[m]), m)
                       = Num(list', m) + Num(Pending(FileOf[m])', m)
                         + (Num(links, m) + IF m = n THEN 1 ELSE 0)

\* addfile() of what leaves the list and the slots.
LEMMA CountedAdd ==
    ASSUME CpioOutAssumption, OutInv, KeptInv, CountedInv, NEW n \in Name, NEW links \in Seq(Name),
           AddFile(links, n), input' = input, Moving(links, n)
    PROVE  CountedInv'
  <1> SUFFICES ASSUME NEW m \in Name \ failed'
               PROVE  Num(NamesOf(tape'), m) + Num(list', m) + Num(Pending(FileOf[m])', m) = Num(input, m)
    BY DEF CountedInv
  <1>1. m \notin failed
    BY DEF AddFile
  <1>2. Num(NamesOf(tape), m) + Num(list, m) + Num(Pending(FileOf[m]), m) = Num(input, m)
    BY <1>1 DEF CountedInv
  <1>3. tape \in Seq(Heads) /\ list \in Seq(Name)
    BY DEF OutInv
  <1>4. PICK e \in Nat : e = IF m = n THEN 1 ELSE 0
    OBVIOUS
  <1>5. Num(NamesOf(tape'), m) = Num(NamesOf(tape), m) + Num(links, m) + e
    BY <1>3, <1>4, AddFileCounts
  <1>6. /\ Num(list', m) \in Nat /\ Num(Pending(FileOf[m])', m) \in Nat
        /\ Num(list, m) + Num(Pending(FileOf[m]), m)
           = Num(list', m) + Num(Pending(FileOf[m])', m) + (Num(links, m) + e)
    BY <1>4 DEF Moving
  <1>7. Num(NamesOf(tape), m) \in Nat /\ Num(list, m) \in Nat /\ Num(links, m) \in Nat
    BY <1>3, NumType, NamesType
  <1>8. Num(Pending(FileOf[m]), m) \in Nat
    BY PendingType, NumType
  <1> DEFINE t == Num(NamesOf(tape), m)
             u == Num(NamesOf(tape'), m)
             l == Num(list, m)
             r == Num(list', m)
             p == Num(Pending(FileOf[m]), m)
             w == Num(Pending(FileOf[m])', m)
             k == Num(links, m)
  <1>9. /\ t \in Nat /\ l \in Nat /\ k \in Nat /\ p \in Nat /\ r \in Nat /\ w \in Nat /\ e \in Nat
        /\ l + p = r + w + (k + e) /\ u = t + k + e
    BY <1>5, <1>6, <1>7, <1>8
  <1> HIDE DEF t, u, l, r, p, w, k
  <1>10. u + r + w = t + l + p
    BY <1>9
  <1> QED
    BY <1>2, <1>10 DEF u, t, l, p, r, w

\* addfile() gives a file its data, if it is no link that waits.
LEMMA PlainAdd ==
    ASSUME OutInv, PlainInv, svr4' = svr4, NEW n \in Name, NEW links \in Seq(Name), AddFile(links, n),
           \A i \in 1..Len(links) : Waits(links[i])
    PROVE  PlainInv'
  <1> SUFFICES ASSUME NEW i \in 1..Len(tape'), ~Waits(tape'[i].name)
               PROVE  tape'[i].data <=> FileOf[tape'[i].name] \notin Empty
    BY DEF PlainInv, Waits
  <1>1. tape \in Seq(Heads)
    BY DEF OutInv
  <1>2. PICK q \in {0, 1} :
                /\ Len(tape') = Len(tape) + Len(links) + q
                /\ \A j \in 1..Len(tape) : tape'[j] = tape[j]
                /\ \A j \in 1..Len(links) : tape'[Len(tape) + j] = Entry(links[j], TRUE)
                /\ q = 1 => tape'[Len(tape) + Len(links) + 1] = Entry(n, FALSE) /\ failed' = failed
    BY <1>1, AddFileDoes
  <1>3. PICK L \in Nat, k \in Nat : L = Len(tape) /\ k = Len(links)
    BY <1>1
  <1>4. CASE i <= L
    <2>1. i \in 1..L
      BY <1>2, <1>3, <1>4
    <2>2. tape'[i] = tape[i]
      BY <1>2, <1>3, <2>1
    <2> QED
      BY <1>3, <2>1, <2>2 DEF PlainInv
  <1>5. CASE i > L /\ i <= L + k
    <2>1. i - L \in 1..k /\ i = L + (i - L)
      BY <1>3, <1>5
    <2>2. PICK j \in 1..k : i = L + j
      BY <2>1
    <2>3. tape'[i] = Entry(links[j], TRUE) /\ Waits(links[j])
      BY <1>2, <1>3, <2>2
    <2>4. Entry(links[j], TRUE).name = links[j]
      BY DEF Entry
    <2> QED
      BY <2>3, <2>4
  <1>6. CASE i > L + k
    <2>1. q = 1
      <3>1. q # 0
        BY <1>2, <1>3, <1>6
      <3> QED
        BY <3>1
    <2>2. i <= L + k + 1
      BY <1>2, <1>3, <2>1
    <2>3. i = L + k + 1
      BY <1>3, <1>6, <2>2
    <2>4. tape'[i] = Entry(n, FALSE)
      BY <1>2, <1>3, <2>1, <2>3
    <2>5. Entry(n, FALSE).name = n /\ (Entry(n, FALSE).data <=> FileOf[n] \notin Empty)
      BY DEF Entry
    <2> QED
      BY <2>4, <2>5
  <1> QED
    BY <1>2, <1>3, <1>4, <1>5, <1>6

\* A name that could not be read is neither in the archive nor held back.
LEMMA CountLstat == CpioOutAssumption /\ OutInv /\ CountInv /\ LstatFails => CountInv'
  <1> SUFFICES ASSUME CpioOutAssumption, OutInv, CountInv, LstatFails PROVE CountInv'
    OBVIOUS
  <1>1. /\ list # <<>> /\ list' = Tail(list) /\ failed' = failed \cup {Head(list)}
        /\ UNCHANGED <<svr4, input, kept, tape>> /\ list \in Seq(Name)
    BY DEF LstatFails, Listed, OutInv
  <1>2. CountedInv'
    <2> SUFFICES ASSUME NEW m \in Name \ failed'
                 PROVE  Num(NamesOf(tape'), m) + Num(list', m) + Num(Pending(FileOf[m])', m) = Num(input, m)
      BY <1>1 DEF CountedInv
    <2>1. m \notin failed /\ Head(list) # m
      BY <1>1
    <2>2. Num(list', m) = Num(list, m)
      <3>1. Num(list, m) = 0 + Num(Tail(list), m) /\ Num(Tail(list), m) \in Nat
        BY <1>1, <2>1, NumTail, NumType
      <3> QED
        BY <1>1, <3>1
    <2>3. Pending(FileOf[m])' = Pending(FileOf[m])
      BY <1>1 DEF Pending
    <2>4. Num(NamesOf(tape), m) + Num(list, m) + Num(Pending(FileOf[m]), m) = Num(input, m)
      BY <2>1 DEF CountInv, CountedInv
    <2> QED
      BY <1>1, <2>2, <2>3, <2>4
  <1>3. KeptInv' /\ PlainInv'
    BY <1>1 DEF CountInv, KeptInv, PlainInv, Waits
  <1>4. FollowInv'
    <2>1. \A f : Sound(f)' => Sound(f)
      BY <1>1 DEF Sound
    <2> QED
      BY <1>1, <2>1 DEF CountInv, FollowInv, Behind
  <1> QED
    BY <1>2, <1>3, <1>4 DEF CountInv

\* A file whose links need no care goes to the archive.
LEMMA CountOutFile == CpioOutAssumption /\ OutInv /\ CountInv /\ OutFile => CountInv'
  <1> SUFFICES ASSUME CpioOutAssumption, OutInv, CountInv, OutFile PROVE CountInv'
    OBVIOUS
  <1>1. /\ list # <<>> /\ list' = Tail(list) /\ AddFile(<<>>, Head(list))
        /\ UNCHANGED <<svr4, input, kept>> /\ list \in Seq(Name)
        /\ ~svr4 \/ NLink[FileOf[Head(list)]] = 1
    BY DEF OutFile, Listed, OutInv
  <1>2. PICK n : n = Head(list)
    OBVIOUS
  <1>3. n \in Name /\ Tail(list) \in Seq(Name)
    BY <1>1, <1>2
  <1>4. PICK links : links = <<>>
    OBVIOUS
  <1>5. \A S : links \in Seq(S) /\ Len(links) = 0
    BY <1>4
  <1>6. CountedInv'
    <2>1. Moving(links, n)
      <3> SUFFICES ASSUME NEW m \in Name
                   PROVE  /\ Num(list', m) \in Nat /\ Num(Pending(FileOf[m])', m) \in Nat
                          /\ Num(list, m) + Num(Pending(FileOf[m]), m)
                             = Num(list', m) + Num(Pending(FileOf[m])', m)
                               + (Num(links, m) + IF m = n THEN 1 ELSE 0)
        BY DEF Moving
      <3>1. PICK e \in Nat : e = IF m = n THEN 1 ELSE 0
        OBVIOUS
      <3>2. Num(list, m) = e + Num(list', m)
        BY <1>1, <1>2, <3>1, NumTail
      <3>3. Num(list', m) \in Nat
        BY <1>1, <1>3, NumType
      <3>4. Pending(FileOf[m])' = Pending(FileOf[m])
        BY <1>1 DEF Pending
      <3>5. Num(Pending(FileOf[m]), m) \in Nat
        BY PendingType, NumType DEF CountInv
      <3>6. Num(links, m) = 0
        BY <1>4, NumEmpty
      <3> QED
        BY <3>1, <3>2, <3>3, <3>4, <3>5, <3>6
    <2> QED
      BY <1>1, <1>2, <1>3, <1>4, <1>5, <2>1, CountedAdd DEF CountInv
  <1>7. PlainInv'
    <2>1. \A i \in 1..Len(links) : Waits(links[i])
      BY <1>5
    <2> QED
      BY <1>1, <1>2, <1>3, <1>4, <1>5, <2>1, PlainAdd DEF CountInv
  <1>8. KeptInv'
    BY <1>1 DEF CountInv, KeptInv
  <1>9. FollowInv'
    <2>1. CASE ~svr4
      BY <1>1, <2>1 DEF FollowInv
    <2>2. CASE svr4
      <3>1. PICK f : f = FileOf[n]
        OBVIOUS
      <3>2. f \in File /\ n \in LinkOf(f) /\ Len(links) < NLink[f]
        BY <1>1, <1>2, <1>3, <1>5, <2>2, <3>1 DEF CpioOutAssumption, LinkOf
      <3> QED
        BY <1>1, <1>2, <1>4, <1>5, <2>2, <3>2, FollowKept DEF CountInv
    <2> QED
      BY <2>1, <2>2 DEF OutInv
  <1> QED
    BY <1>6, <1>7, <1>8, <1>9 DEF CountInv

\* A link is held back.
LEMMA CountKeepLink == CpioOutAssumption /\ OutInv /\ CountInv /\ KeepLink => CountInv'
  <1> SUFFICES ASSUME CpioOutAssumption, OutInv, CountInv, KeepLink PROVE CountInv'
    OBVIOUS
  <1>1. PICK n, f : n = Head(list) /\ f = FileOf[n]
    OBVIOUS
  <1>2. /\ list # <<>> /\ list' = Tail(list) /\ svr4 /\ Slot(n).nlk > 1
        /\ kept' = Put(kept, f, [nlk |-> Slot(n).nlk - 1, lnk |-> Append(Slot(n).lnk, n)])
        /\ UNCHANGED <<svr4, input, tape, failed>> /\ list \in Seq(Name)
    BY <1>1 DEF KeepLink, Linked, Listed, OutInv
  <1>3. n \in Name /\ Tail(list) \in Seq(Name) /\ n \in LinkOf(f) /\ KeptInv
    BY <1>1, <1>2 DEF LinkOf, CountInv
  <1>4. /\ f \in File /\ NLink[f] \in Nat \ {0}
        /\ Slot(n).lnk = Pending(f) /\ Slot(n).nlk \in Nat \ {0}
        /\ Slot(n).nlk + Len(Slot(n).lnk) = NLink[f]
    BY <1>1, <1>3, SlotIs
  <1>5. PICK k, s : k = Slot(n).nlk - 1 /\ s = Pending(f)
    OBVIOUS
  <1>6. s \in Seq(LinkOf(f)) /\ s \in Seq(Name)
    BY <1>3, <1>5, PendingType
  <1>7. /\ Append(s, n) \in Seq(LinkOf(f)) /\ Len(Append(s, n)) = Len(s) + 1
        /\ Append(s, n) = s \o <<n>> /\ <<n>> \in Seq(Name)
    BY <1>3, <1>6, Appended, Zenon
  <1>8. k \in Nat /\ k > 0 /\ k + Len(Append(s, n)) = NLink[f]
    <2>1. k \in Nat /\ k > 0 /\ Len(s) \in Nat
      BY <1>2, <1>4, <1>5, <1>6
    <2>2. (k + 1) + Len(s) = NLink[f]
      BY <1>4, <1>5
    <2>3. Len(Append(s, n)) = Len(s) + 1
      BY <1>7
    <2> QED
      BY <2>1, <2>2, <2>3
  <1>9. /\ DOMAIN kept' = DOMAIN kept \cup {f}
        /\ kept'[f].nlk = k /\ kept'[f].lnk = Append(s, n)
        /\ \A g \in DOMAIN kept : g # f => kept'[g] = kept[g]
    BY <1>2, <1>4, <1>5 DEF Put
  <1>10. KeptInv'
    <2> SUFFICES ASSUME NEW g \in DOMAIN kept'
                 PROVE  /\ kept'[g].lnk \in Seq(LinkOf(g))
                        /\ kept'[g].nlk > 0 => svr4 /\ kept'[g].nlk + Len(kept'[g].lnk) = NLink[g]
      BY <1>2 DEF KeptInv
    <2>1. CASE g = f
      BY <1>2, <1>7, <1>8, <1>9, <2>1
    <2>2. CASE g # f
      BY <1>3, <1>9, <2>2 DEF KeptInv
    <2> QED
      BY <2>1, <2>2
  <1>11. Pending(f)' = Append(s, n) /\ \A g : g # f => Pending(g)' = Pending(g)
    BY <1>8, <1>9 DEF Pending
  <1>12. CountedInv'
    <2> SUFFICES ASSUME NEW m \in Name \ failed
                 PROVE  Num(NamesOf(tape), m) + Num(list', m) + Num(Pending(FileOf[m])', m) = Num(input, m)
      BY <1>2 DEF CountedInv
    <2> PICK e \in Nat : e = IF n = m THEN 1 ELSE 0
      OBVIOUS
    <2>1. Num(list, m) = e + Num(list', m) /\ Num(list', m) \in Nat
      BY <1>1, <1>2, NumTail, NumType
    <2>2. Num(Pending(FileOf[m])', m) = Num(Pending(FileOf[m]), m) + e
      <3>1. CASE FileOf[m] = f
        <4>1. Num(Append(s, n), m) = Num(s, m) + Num(<<n>>, m)
          <5>1. Num(s \o <<n>>, m) = Num(s, m) + Num(<<n>>, m)
            BY <1>6, <1>7, NumJoin, Zenon
          <5> QED
            BY <1>7, <5>1, Zenon
        <4>2. Num(<<n>>, m) = e
          BY <1>3, NumOne
        <4> QED
          BY <1>5, <1>11, <3>1, <4>1, <4>2
      <3>2. CASE FileOf[m] # f
        <4>1. e = 0
          BY <1>1, <3>2
        <4>2. Num(Pending(FileOf[m]), m) \in Nat
          BY <1>3, PendingType, NumType
        <4> QED
          BY <1>11, <3>2, <4>1, <4>2
      <3> QED
        BY <3>1, <3>2
    <2>3. Num(NamesOf(tape), m) + Num(list, m) + Num(Pending(FileOf[m]), m) = Num(input, m)
      BY DEF CountInv, CountedInv
    <2>4. Num(NamesOf(tape), m) \in Nat /\ Num(Pending(FileOf[m]), m) \in Nat
      BY <1>3, NumType, NamesType, PendingType DEF OutInv
    <2> QED
      BY <2>1, <2>2, <2>3, <2>4
  <1>13. FollowInv' /\ PlainInv'
    BY <1>2 DEF CountInv, FollowInv, Behind, Sound, PlainInv, Waits
  <1> QED
    BY <1>10, <1>12, <1>13 DEF CountInv

\* What addfile() of links of f, and then of n, of f too, does for the rest of CountInv.
LEMMA CountAdded ==
    ASSUME CpioOutAssumption, OutInv, CountInv, svr4, NEW f \in File, NLink[f] > 1, NEW n \in LinkOf(f),
           NEW links \in Seq(LinkOf(f)), Len(links) < NLink[f], AddFile(links, n),
           UNCHANGED <<svr4, input>>, Moving(links, n)
    PROVE  CountedInv' /\ FollowInv' /\ PlainInv'
  <1>1. n \in Name /\ links \in Seq(Name)
    <2>1. LinkOf(f) \subseteq Name
      BY DEF LinkOf
    <2> QED
      BY <2>1, SeqMonotonic
  <1>2. CountedInv'
    BY <1>1, CountedAdd DEF CountInv
  <1>3. FollowInv'
    BY FollowKept DEF CountInv
  <1>4. \A i \in 1..Len(links) : Waits(links[i])
    <2>1. \A x \in LinkOf(f) : Waits(x)
      BY DEF LinkOf, Waits
    <2> QED
      BY <2>1
  <1>5. PlainInv'
    BY <1>1, <1>4, PlainAdd DEF CountInv
  <1> QED
    BY <1>2, <1>3, <1>5

\* The last link takes those held back with it.
LEMMA CountLastLink == CpioOutAssumption /\ OutInv /\ CountInv /\ LastLink => CountInv'
  <1> SUFFICES ASSUME CpioOutAssumption, OutInv, CountInv, LastLink PROVE CountInv'
    OBVIOUS
  <1>1. PICK n, f : n = Head(list) /\ f = FileOf[n]
    OBVIOUS
  <1>2. /\ list # <<>> /\ list' = Tail(list) /\ svr4 /\ Slot(n).nlk = 1 /\ NLink[f] > 1
        /\ AddFile(Slot(n).lnk, n)
        /\ kept' = Put(kept, f, [Slot(n) EXCEPT !.nlk = 0])
        /\ UNCHANGED <<svr4, input>> /\ list \in Seq(Name)
    BY <1>1 DEF LastLink, Linked, Listed, OutInv
  <1>3. n \in Name /\ Tail(list) \in Seq(Name) /\ n \in LinkOf(f) /\ KeptInv
    BY <1>1, <1>2 DEF LinkOf, CountInv
  <1>4. /\ f \in File /\ NLink[f] \in Nat \ {0}
        /\ Slot(n).lnk = Pending(f)
        /\ Slot(n).nlk + Len(Slot(n).lnk) = NLink[f]
    BY <1>1, <1>3, SlotIs
  <1>5. Slot(n) \in [nlk : 0..NLink[f], lnk : Seq(Name)]
    BY <1>1, <1>3, SlotType
  <1>6. PICK s : s = Pending(f)
    OBVIOUS
  <1>7. s \in Seq(LinkOf(f)) /\ s \in Seq(Name) /\ Len(s) \in Nat
    BY <1>3, <1>6, PendingType
  <1>8. Len(s) < NLink[f]
    BY <1>2, <1>4, <1>6, <1>7
  <1>9. /\ DOMAIN kept' = DOMAIN kept \cup {f}
        /\ kept'[f].nlk = 0 /\ kept'[f].lnk = s
        /\ \A g \in DOMAIN kept : g # f => kept'[g] = kept[g]
    BY <1>2, <1>4, <1>5, <1>6 DEF Put
  <1>10. KeptInv'
    <2> SUFFICES ASSUME NEW g \in DOMAIN kept'
                 PROVE  /\ kept'[g].lnk \in Seq(LinkOf(g))
                        /\ kept'[g].nlk > 0 => svr4 /\ kept'[g].nlk + Len(kept'[g].lnk) = NLink[g]
      BY <1>2 DEF KeptInv
    <2>1. CASE g = f
      BY <1>7, <1>9, <2>1
    <2>2. CASE g # f
      BY <1>3, <1>9, <2>2 DEF KeptInv
    <2> QED
      BY <2>1, <2>2
  <1>11. Pending(f)' = <<>> /\ \A g : g # f => Pending(g)' = Pending(g)
    BY <1>9 DEF Pending
  <1>12. Moving(s, n)
    <2> SUFFICES ASSUME NEW m \in Name
                 PROVE  /\ Num(list', m) \in Nat /\ Num(Pending(FileOf[m])', m) \in Nat
                        /\ Num(list, m) + Num(Pending(FileOf[m]), m)
                           = Num(list', m) + Num(Pending(FileOf[m])', m)
                             + (Num(s, m) + IF m = n THEN 1 ELSE 0)
      BY DEF Moving
    <2>1. PICK e \in Nat : e = IF m = n THEN 1 ELSE 0
      OBVIOUS
    <2>2. Num(list, m) = e + Num(list', m) /\ Num(list', m) \in Nat
      BY <1>1, <1>2, <1>3, <2>1, NumTail, NumType
    <2>3. Num(Pending(FileOf[m]), m) = Num(Pending(FileOf[m])', m) + Num(s, m)
          /\ Num(Pending(FileOf[m])', m) \in Nat /\ Num(s, m) \in Nat
      <3>1. Num(s, m) \in Nat /\ Num(Pending(FileOf[m]), m) \in Nat
        BY <1>3, <1>7, PendingType, NumType
      <3>2. CASE FileOf[m] = f
        <4>1. Num(Pending(FileOf[m])', m) = 0
          BY <1>11, <3>2, NumEmpty
        <4> QED
          BY <1>6, <3>1, <3>2, <4>1
      <3>3. CASE FileOf[m] # f
        <4>1. Num(s, m) = 0
          BY <1>7, <3>3, NoLink
        <4> QED
          BY <1>11, <3>1, <3>3, <4>1
      <3> QED
        BY <3>2, <3>3
    <2> QED
      BY <2>1, <2>2, <2>3
  <1>13. CountedInv' /\ FollowInv' /\ PlainInv'
    BY <1>2, <1>3, <1>4, <1>6, <1>7, <1>8, <1>12, CountAdded
  <1> QED
    BY <1>10, <1>13 DEF CountInv

\* What waits for links that nobody listed.
LEMMA CountLFlush ==
    CpioOutAssumption /\ OutInv /\ CountInv /\ (\E f \in File : LFlush(f)) => CountInv'
  <1> SUFFICES ASSUME CpioOutAssumption, OutInv, CountInv, NEW f \in File, LFlush(f) PROVE CountInv'
    OBVIOUS
  <1>1. /\ f \in DOMAIN kept /\ kept[f].nlk > 0 /\ kept[f].lnk # <<>> /\ KeptInv
        /\ kept[f].nlk \in Nat /\ NLink[f] \in Nat \ {0} /\ kept[f] \in [nlk : 0..NLink[f], lnk : Seq(Name)]
    BY DEF LFlush, Unfinished, OutInv, CountInv, CpioOutAssumption
  <1>2. PICK s, t, n : s = kept[f].lnk /\ t = SubSeq(s, 1, Len(s) - 1) /\ n = s[Len(s)]
    OBVIOUS
  <1>3. s \in Seq(LinkOf(f)) /\ s # <<>> /\ svr4 /\ kept[f].nlk + Len(s) = NLink[f] /\ s = Pending(f)
    BY <1>1, <1>2 DEF KeptInv, Pending
  <1>4. t \in Seq(LinkOf(f)) /\ n \in LinkOf(f) /\ Len(t) = Len(s) - 1 /\ s = t \o <<n>>
    BY <1>2, <1>3, BeginAndLast
  <1>5. /\ AddFile(t, n) /\ kept' = [kept EXCEPT ![f].nlk = 0]
        /\ UNCHANGED <<svr4, input, list>>
    BY <1>2 DEF LFlush
  <1>6. Len(s) \in Nat /\ Len(s) > 0
    BY <1>3
  <1>7. Len(t) < NLink[f] /\ NLink[f] > 1
    BY <1>1, <1>3, <1>4, <1>6
  <1>8. /\ DOMAIN kept' = DOMAIN kept
        /\ kept'[f].nlk = 0 /\ kept'[f].lnk = s
        /\ \A g \in DOMAIN kept : g # f => kept'[g] = kept[g]
    BY <1>1, <1>2, <1>5
  <1>9. KeptInv'
    <2> SUFFICES ASSUME NEW g \in DOMAIN kept'
                 PROVE  /\ kept'[g].lnk \in Seq(LinkOf(g))
                        /\ kept'[g].nlk > 0 => svr4 /\ kept'[g].nlk + Len(kept'[g].lnk) = NLink[g]
      BY <1>5 DEF KeptInv
    <2>1. CASE g = f
      BY <1>3, <1>8, <2>1
    <2>2. CASE g # f
      BY <1>1, <1>8, <2>2 DEF KeptInv
    <2> QED
      BY <2>1, <2>2
  <1>10. Pending(f)' = <<>> /\ \A g : g # f => Pending(g)' = Pending(g)
    BY <1>8 DEF Pending
  <1>11. t \in Seq(Name) /\ n \in Name /\ list \in Seq(Name) /\ FileOf[n] = f
    <2>1. LinkOf(f) \subseteq Name /\ \A x \in LinkOf(f) : FileOf[x] = f
      BY DEF LinkOf
    <2> QED
      BY <1>4, <2>1, SeqMonotonic DEF OutInv
  <1>12. Moving(t, n)
    <2> SUFFICES ASSUME NEW m \in Name
                 PROVE  /\ Num(list', m) \in Nat /\ Num(Pending(FileOf[m])', m) \in Nat
                        /\ Num(list, m) + Num(Pending(FileOf[m]), m)
                           = Num(list', m) + Num(Pending(FileOf[m])', m)
                             + (Num(t, m) + IF m = n THEN 1 ELSE 0)
      BY DEF Moving
    <2>1. PICK e \in Nat : e = IF n = m THEN 1 ELSE 0
      OBVIOUS
    <2>2. list' = list /\ Num(list, m) \in Nat
      BY <1>5, <1>11, NumType
    <2>3. Num(t, m) \in Nat
      BY <1>11, NumType
    <2>4. Num(Pending(FileOf[m]), m) = Num(Pending(FileOf[m])', m) + (Num(t, m) + e)
          /\ Num(Pending(FileOf[m])', m) \in Nat
      <3>1. CASE FileOf[m] = f
        <4>1. Num(Pending(FileOf[m])', m) = 0
          BY <1>10, <3>1, NumEmpty
        <4>2. Num(s, m) = Num(t, m) + e
          <5>1. Num(<<n>>, m) = e
            BY <1>11, <2>1, NumOne
          <5>2. <<n>> \in Seq(Name)
            BY <1>11
          <5>3. Num(t \o <<n>>, m) = Num(t, m) + Num(<<n>>, m)
            BY <1>11, <5>2, NumJoin, Zenon
          <5> QED
            BY <1>4, <5>1, <5>3, Zenon
        <4> QED
          BY <1>3, <2>1, <2>3, <3>1, <4>1, <4>2
      <3>2. CASE FileOf[m] # f
        <4>1. Num(t, m) = 0 /\ e = 0
          BY <1>4, <1>11, <2>1, <3>2, NoLink
        <4>2. Num(Pending(FileOf[m]), m) \in Nat
          BY <1>1, PendingType, NumType
        <4> QED
          BY <1>10, <3>2, <4>1, <4>2
      <3> QED
        BY <3>1, <3>2
    <2>5. e = IF m = n THEN 1 ELSE 0
      BY <2>1
    <2> QED
      BY <2>1, <2>2, <2>3, <2>4, <2>5
  <1>13. CountedInv' /\ FollowInv' /\ PlainInv'
    BY <1>3, <1>4, <1>5, <1>7, <1>12, CountAdded
  <1> QED
    BY <1>9, <1>13 DEF CountInv

\* CountInv is about the archive only.
LEMMA CountSame == ASSUME UNCHANGED archive, CountInv PROVE CountInv'
  <1> USE DEF archive
  <1>1. KeptInv' /\ PlainInv'
    BY DEF CountInv, KeptInv, PlainInv, Waits
  <1>2. CountedInv'
    BY DEF CountInv, CountedInv, Pending
  <1>3. FollowInv'
    BY DEF CountInv, FollowInv, Behind, Sound
  <1> QED
    BY <1>1, <1>2, <1>3 DEF CountInv

\* At first everything is still to come.
LEMMA CountFirst == Init => (Own => CountInv)
  <1> SUFFICES ASSUME Init, Own PROVE CountInv
    OBVIOUS
  <1>1. input \in Seq(Name) /\ list = input /\ kept = <<>> /\ tape = <<>>
    BY CpioOutAssumption DEF Init, OutInit, Own, CpioOutAssumption
  <1>2. DOMAIN kept = {} /\ Len(tape) = 0
    BY <1>1
  <1>3. CountedInv
    <2> SUFFICES ASSUME NEW n \in Name \ failed
                 PROVE  Num(NamesOf(tape), n) + Num(list, n) + Num(Pending(FileOf[n]), n) = Num(input, n)
      BY DEF CountedInv
    <2>1. NamesOf(tape) = <<>>
      BY <1>1 DEF NamesOf
    <2>2. Pending(FileOf[n]) = <<>>
      BY <1>2 DEF Pending
    <2>3. Num(<<>>, n) = 0 /\ Num(input, n) \in Nat
      BY <1>1, NumEmpty, NumType
    <2> QED
      BY <1>1, <2>1, <2>2, <2>3
  <1>4. KeptInv /\ PlainInv
    BY <1>2 DEF KeptInv, PlainInv
  <1>5. FollowInv
    <2> SUFFICES ASSUME NEW f \in File
                 PROVE  Behind(f, 0) = {} /\ Cardinality(Behind(f, 0)) < NLink[f]
      BY <1>2 DEF FollowInv
    <2>1. Behind(f, 0) = {}
      BY BehindNone DEF Behind
    <2>2. NLink[f] \in Nat \ {0}
      BY CpioOutAssumption DEF CpioOutAssumption
    <2> QED
      BY <2>1, <2>2, FS_EmptySet
  <1> QED
    BY <1>3, <1>4, <1>5 DEF CountInv

\* And no step of cpio loses or doubles a name.
LEMMA CountStep == Inv /\ (Own => CountInv) /\ [Next]_vars => (Own => CountInv)'
  <1> SUFFICES ASSUME Inv, Own => CountInv, [Next]_vars, Own' PROVE CountInv'
    OBVIOUS
  <1>1. OutInv /\ CpioOutAssumption
    BY CpioOutAssumption DEF Inv
  <1>2. UNCHANGED archive \/ OutNext
    <2>1. UNCHANGED vars => UNCHANGED archive
      BY DEF vars, outVars
    <2> QED
      BY <2>1, Reads DEF Next, CopyOut
  <1>3. input' = input
    BY <1>2 DEF archive, OutNext, LstatFails, OutFile, KeepLink, LastLink, LFlush, Listed, Linked
  <1>4. CountInv
    BY <1>3 DEF Own
  <1> QED
    BY <1>1, <1>2, <1>4, CountSame, CountLstat, CountOutFile, CountKeepLink, CountLastLink, CountLFlush
       DEF OutNext

\* The archive that cpio -o has written has each name that it could read, once for each time it
\* was listed, and the data of a file with links behind each of them: for any list, any number
\* of links, listed or not, and any failures (outfile(), addfile(), lflush()).
THEOREM CpioWrites == Spec => []OnTape
  <1>1. Inv /\ (Own => CountInv) => OnTape
    <2> SUFFICES ASSUME Inv, CountInv, OutDone
                 PROVE  /\ \A n \in Name \ failed :
                              Cardinality({i \in DOMAIN tape : tape[i].name = n}) = Count(n)
                        /\ svr4 => \A i \in DOMAIN tape :
                              FileOf[tape[i].name] \notin Empty /\ Sound(FileOf[tape[i].name]) =>
                                  \E j \in DOMAIN tape : j >= i /\ FileOf[tape[j].name] = FileOf[tape[i].name] /\ tape[j].data
      BY DEF OnTape
    <2>1. tape \in Seq(Heads) /\ list = <<>> /\ input \in Seq(Name)
      BY DEF Inv, OutInv, OutDone
    <2>2. ASSUME NEW n \in Name \ failed
          PROVE  Cardinality({i \in DOMAIN tape : tape[i].name = n}) = Count(n)
      <3>1. Pending(FileOf[n]) = <<>>
        BY DEF Pending, OutDone, Unfinished
      <3>2. Num(NamesOf(tape), n) + Num(list, n) + Num(Pending(FileOf[n]), n) = Num(input, n)
        BY DEF CountInv, CountedInv
      <3>3. Num(<<>>, n) = 0 /\ Num(NamesOf(tape), n) \in Nat
        BY <2>1, NumEmpty, NumType, NamesType
      <3>4. Num(NamesOf(tape), n) = Num(input, n)
        BY <2>1, <3>1, <3>2, <3>3
      <3>5. Num(NamesOf(tape), n) = Cardinality({i \in DOMAIN tape : tape[i].name = n})
        <4>1. Spots(NamesOf(tape), n) = {i \in DOMAIN tape : tape[i].name = n}
          BY <2>1 DEF Spots, NamesOf
        <4> QED
          BY <4>1 DEF Num
      <3>6. Num(input, n) = Count(n)
        BY DEF Num, Spots, Count
      <3> QED
        BY <3>4, <3>5, <3>6
    <2>3. ASSUME svr4, NEW i \in DOMAIN tape, NEW f, f = FileOf[tape[i].name],
                 f \notin Empty, Sound(f)
          PROVE  \E j \in DOMAIN tape : j >= i /\ FileOf[tape[j].name] = f /\ tape[j].data
      <3>1. f \in File /\ DOMAIN tape = 1..Len(tape) /\ Len(tape) \in Nat
        BY <2>1, <2>3, CpioOutAssumption DEF CpioOutAssumption, Heads
      <3>2. i \notin BehindIn(tape, f, Len(tape))
        BY <2>3, <3>1 DEF CountInv, FollowInv, Behind
      <3>3. PICK j \in i..Len(tape) : FileOf[tape[j].name] = f /\ tape[j].data
        BY <2>3, <3>1, <3>2 DEF BehindIn
      <3>4. j \in DOMAIN tape /\ j >= i
        BY <3>1, <3>3
      <3> QED
        BY <3>3, <3>4
    <2> QED
      BY <2>2, <2>3
  <1> QED
    BY InvInit, InvStep, CountFirst, CountStep, <1>1, PTL DEF Spec

-----------------------------------------------------------------------------
(* The links that wait for data *)

\* The slot of f: storelink() has as many links in i_lnk as it has counted down i_nlk.
FileSlot(f) ==
    f \in DOMAIN isl =>
        /\ NLink[f] > 1
        /\ isl[f].nlk = 0 => isl[f].lnk = <<>>
        /\ isl[f].nlk > 0 /\ node # f => isl[f].nlk + Len(isl[f].lnk) = NLink[f] + 1

\* flushnode() is about links of the inode that it has, or of one that nothing waits for.
TodoSlot ==
    /\ pc \in {"out", "next", "rest"} => node = None
    /\ node # None => node \in DOMAIN isl /\ isl[node].lnk = <<>>
    /\ todo # <<>> => /\ node # None /\ isl[node].nlk > 0
                      /\ \A i \in 1..Len(todo) : FileOf[todo[i]] = node
    /\ own # None => IF node = None THEN FileOf[own] \in DOMAIN isl => isl[FileOf[own]].nlk = 0
                     ELSE FileOf[own] = node

SlotInv ==
    svr4 /\ pc # "exit" =>
        /\ pc = "out" => isl = <<>> /\ pos = 0
        /\ pc = "rest" => pos > Len(tape)
        /\ \A f \in File : FileSlot(f)
        /\ TodoSlot

\* The headers that have been read.
Read == IF pos <= Len(tape) THEN pos ELSE Len(tape)

\* The links of f that came after its last data are those that wait.
Awaited(f) ==
    IF Behind(f, Read) = {} THEN node = f \/ f \notin DOMAIN isl \/ isl[f].nlk = 0
    ELSE /\ node # f /\ f \in DOMAIN isl /\ isl[f].nlk > 0
         /\ Len(isl[f].lnk) = Cardinality(Behind(f, Read))

AwaitInv ==
    svr4 /\ Own /\ failed = {} /\ pc \notin {"out", "exit"} =>
        \A f \in File \ Empty : NLink[f] > 1 => Awaited(f)

\* A file of which no slot changes, and that is not the one of flushnode().
LEMMA OtherFile ==
    ASSUME NEW g, g \in DOMAIN isl <=> g \in DOMAIN isl', g \in DOMAIN isl => isl'[g] = isl[g],
           node = g <=> node' = g
    PROVE  /\ FileSlot(g) => FileSlot(g)'
           /\ Behind(g, Read)' = Behind(g, Read) /\ Awaited(g) => Awaited(g)'
  <1>1. FileSlot(g) => FileSlot(g)'
    BY DEF FileSlot
  <1>2. ASSUME Behind(g, Read)' = Behind(g, Read), Awaited(g) PROVE Awaited(g)'
    BY <1>2 DEF Awaited
  <1> QED
    BY <1>1, <1>2

\* What is not above 0 is 0.
LEMMA NotPositive == \A k \in Nat : ~(k > 0) => k = 0
  OBVIOUS

\* The slots that there are.
LEMMA SlotTypes ==
    ASSUME IslInv, NEW f \in DOMAIN isl
    PROVE  /\ f \in File /\ NLink[f] \in Nat \ {0} /\ isl[f].nlk \in Nat /\ isl[f].lnk \in Seq(LinkOf(f))
           /\ Len(isl[f].lnk) \in Nat
           /\ isl[f] \in [nlk : 0..NLink[f], lnk : Seq(LinkOf(f)), name : LinkOf(f) \cup {None}]
  <1>1. f \in File /\ isl[f] \in [nlk : 0..NLink[f], lnk : Seq(LinkOf(f)), name : LinkOf(f) \cup {None}]
    BY DEF IslInv
  <1>2. NLink[f] \in Nat \ {0}
    BY <1>1, CpioOutAssumption DEF CpioOutAssumption
  <1>3. isl[f].lnk \in Seq(LinkOf(f))
    BY <1>1
  <1>4. Len(isl[f].lnk) \in Nat
    BY <1>3
  <1>5. isl[f].nlk \in Nat
    BY <1>1, <1>2
  <1> QED
    BY <1>1, <1>2, <1>3, <1>4, <1>5

\* The begin of flushnode().
LEMMA FlushSlots ==
    ASSUME IslInv, svr4, SlotInv, pc \in {"next", "rest"},
           NEW f \in File, NEW n \in LinkOf(f) \cup {None}, FlushNode(f, n)
    PROVE  /\ SlotInv'
           /\ DOMAIN isl' = DOMAIN isl /\ \A g \in DOMAIN isl : g # f => isl'[g] = isl[g]
           /\ node' \in {f, None} /\ (f \in DOMAIN isl => node' = f) /\ node = None
  <1>1. /\ pc' = "inpone" /\ own' = n /\ node' = (IF f \in DOMAIN isl THEN f ELSE None)
        /\ node = None /\ f # None
    BY CpioAssumption DEF FlushNode, SlotInv, TodoSlot
  <1>2. (\A g \in File : FileSlot(g)) /\ TodoSlot
    BY DEF SlotInv
  <1>3. CASE f \in DOMAIN isl /\ isl[f].nlk > 0
    <2>1. todo' = isl[f].lnk /\ isl' = [isl EXCEPT ![f].lnk = <<>>]
      BY <1>3 DEF FlushNode
    <2>2. /\ isl[f] \in [nlk : 0..NLink[f], lnk : Seq(LinkOf(f)), name : LinkOf(f) \cup {None}]
          /\ NLink[f] > 1
      BY <1>2, <1>3, SlotTypes DEF FileSlot
    <2>3. /\ DOMAIN isl' = DOMAIN isl /\ \A g \in DOMAIN isl : g # f => isl'[g] = isl[g]
          /\ isl'[f].nlk = isl[f].nlk /\ isl'[f].lnk = <<>>
      BY <1>3, <2>1, <2>2
    <2>4. node' = f
      BY <1>1, <1>3
    <2>5. ASSUME NEW g \in File PROVE FileSlot(g)'
      <3>1. CASE g = f
        BY <2>2, <2>3, <2>4, <3>1 DEF FileSlot
      <3>2. CASE g # f
        <4>1. node # g /\ node' # g
          BY <1>1, <2>4, <3>2, CpioAssumption DEF CpioAssumption
        <4> QED
          BY <1>2, <2>3, <3>2, <4>1, OtherFile
      <3> QED
        BY <3>1, <3>2
    <2>6. TodoSlot'
      <3>1. \A i \in 1..Len(todo') : FileOf[todo'[i]] = f
        <4>1. \A x \in LinkOf(f) : FileOf[x] = f
          BY DEF LinkOf
        <4>2. isl[f].lnk \in Seq(LinkOf(f))
          BY <2>2
        <4> QED
          BY <2>1, <4>1, <4>2
      <3>2. own' # None => FileOf[own'] = node'
        BY <1>1, <2>4 DEF LinkOf
      <3> QED
        BY <1>1, <1>3, <2>3, <2>4, <3>1, <3>2 DEF TodoSlot
    <2> QED
      BY <1>1, <2>3, <2>4, <2>5, <2>6 DEF SlotInv
  <1>4. CASE ~(f \in DOMAIN isl /\ isl[f].nlk > 0)
    <2>1. todo' = <<>> /\ isl' = isl
      BY <1>4 DEF FlushNode
    <2>2. f \in DOMAIN isl => isl[f].nlk = 0 /\ isl[f].lnk = <<>>
      <3> HAVE f \in DOMAIN isl
      <3>1. isl[f].nlk \in Nat
        BY SlotTypes
      <3>2. isl[f].nlk = 0
        <4>1. ~(isl[f].nlk > 0)
          BY <1>4
        <4> QED
          BY <3>1, <4>1, NotPositive, Zenon
      <3>3. FileSlot(f)
        BY <1>2
      <3> QED
        BY <3>2, <3>3 DEF FileSlot
    <2>3. ASSUME NEW g \in File PROVE FileSlot(g)'
      <3>1. CASE g = f
        BY <1>2, <2>1, <2>2, <3>1 DEF FileSlot
      <3>2. CASE g # f
        <4>1. node # g /\ node' # g
          BY <1>1, <3>2, CpioAssumption DEF CpioAssumption
        <4> QED
          BY <1>2, <2>1, <3>2, <4>1, OtherFile
      <3> QED
        BY <3>1, <3>2
    <2>4. TodoSlot'
      <3>1. own' # None => FileOf[own'] = f
        BY <1>1 DEF LinkOf
      <3> QED
        BY <1>1, <2>1, <2>2, <3>1 DEF TodoSlot
    <2> QED
      BY <1>1, <2>1, <2>3, <2>4 DEF SlotInv
  <1> QED
    BY <1>3, <1>4

\* What one header more changes.
LEMMA ReadOne ==
    ASSUME Inv, ReadHeader, NEW g
    PROVE  /\ pc = "next" /\ UNCHANGED archive /\ Header.name \in LinkOf(FileOf[Header.name])
           /\ FileOf[Header.name] \in File /\ pos + 1 \in 1..Len(tape) /\ Read' = pos + 1
           /\ FileOf[Header.name] # g => Behind(g, Read)' = Behind(g, Read)
           /\ FileOf[Header.name] = g /\ Header.data => Behind(g, Read)' = {}
           /\ FileOf[Header.name] = g /\ ~Header.data =>
                  /\ Behind(g, Read)' # {} /\ Cardinality(Behind(g, Read))' = Cardinality(Behind(g, Read)) + 1
           /\ Cardinality(Behind(g, Read)) \in Nat
           /\ Behind(g, Read) = {} => Cardinality(Behind(g, Read)) = 0
  <1>1. /\ pc = "next" /\ Header.name \in LinkOf(FileOf[Header.name]) /\ FileOf[Header.name] \in File
        /\ pos' = pos + 1 /\ pos < Len(tape)
    BY CpioOutAssumption, HeaderType DEF Inv, ReadHeader
  <1>2. UNCHANGED archive
    BY DEF ReadHeader, outVars
  <1>3. pos \in Nat /\ Len(tape) \in Nat /\ pos + 1 \in 1..Len(tape)
    BY <1>1 DEF Inv, NameInv, OutInv
  <1>4. Read = pos /\ Read' = pos + 1
    BY <1>1, <1>2, <1>3 DEF Read, archive
  <1>5. Behind(g, Read) = BehindIn(tape, g, pos) /\ Behind(g, Read)' = BehindIn(tape, g, pos + 1)
    BY <1>2, <1>4 DEF Behind, archive
  <1>6. /\ FileOf[Header.name] # g => BehindIn(tape, g, pos + 1) = BehindIn(tape, g, pos)
        /\ FileOf[Header.name] = g /\ Header.data => BehindIn(tape, g, pos + 1) = {}
        /\ FileOf[Header.name] = g /\ ~Header.data =>
               /\ BehindIn(tape, g, pos + 1) = BehindIn(tape, g, pos) \cup {pos + 1}
               /\ Cardinality(BehindIn(tape, g, pos + 1)) = Cardinality(BehindIn(tape, g, pos)) + 1
    BY <1>3, BehindNext DEF Header
  <1>7. /\ Cardinality(BehindIn(tape, g, pos)) \in Nat
        /\ BehindIn(tape, g, pos) = {} => Cardinality(BehindIn(tape, g, pos)) = 0
    BY <1>3, BehindType
  <1>8. BehindIn(tape, g, pos) \cup {pos + 1} # {}
    OBVIOUS
  <1> QED
    BY <1>1, <1>2, <1>3, <1>4, <1>5, <1>6, <1>7, <1>8

WaitInv == SlotInv /\ AwaitInv

\* A header of a file without links.
LEMMA WaitTakeFile == ASSUME Inv, WaitInv, TakeFile PROVE WaitInv'
  <1>1. /\ ReadHeader /\ ~Waits(Header.name) /\ pc' = "inpone" /\ own' = Header.name
        /\ UNCHANGED <<isl, node, todo>>
    BY DEF TakeFile
  <1>2. PICK f : f = FileOf[Header.name]
    OBVIOUS
  <1>3. pc = "next" /\ UNCHANGED archive /\ f \in File
    BY <1>1, <1>2, ReadOne
  <1>4. todo = <<>>
    BY <1>3 DEF Inv, NameInv
  <1>5. svr4 => ~(NLink[f] > 1)
    BY <1>1, <1>2 DEF Waits
  <1>6. svr4 => SlotInv'
    <2> HAVE svr4
    <2>1. (\A g \in File : FileSlot(g)) /\ TodoSlot
      BY <1>3 DEF WaitInv, SlotInv
    <2>2. \A g \in File : FileSlot(g)'
      BY <1>1, <2>1, OtherFile
    <2>3. f \notin DOMAIN isl
      BY <1>3, <1>5, <2>1 DEF FileSlot
    <2>4. TodoSlot'
      <3>1. node' = None /\ todo' = <<>>
        BY <1>1, <1>3, <1>4, <2>1 DEF TodoSlot
      <3> QED
        BY <1>1, <1>2, <2>3, <3>1 DEF TodoSlot
    <2> QED
      BY <1>1, <2>2, <2>4 DEF SlotInv
  <1>7. AwaitInv'
    <2> SUFFICES ASSUME svr4, Own, failed = {}, NEW g \in File \ Empty, NLink[g] > 1 PROVE Awaited(g)'
      BY <1>3 DEF AwaitInv, Own, archive
    <2>1. f # g /\ Awaited(g)
      BY <1>3, <1>5 DEF WaitInv, AwaitInv
    <2>2. Behind(g, Read)' = Behind(g, Read)
      BY <1>1, <1>2, <2>1, ReadOne
    <2> QED
      BY <1>1, <2>1, <2>2, OtherFile
  <1>8. SlotInv'
    BY <1>3, <1>6 DEF SlotInv, archive
  <1> QED
    BY <1>7, <1>8 DEF WaitInv

\* The header that has the data.
LEMMA WaitFlushLinks == ASSUME Inv, WaitInv, FlushLinks PROVE WaitInv'
  <1>1. PICK n, f : n = Header.name /\ f = FileOf[n]
    OBVIOUS
  <1>2. ReadHeader /\ svr4 /\ Header.data /\ FlushNode(f, n)
    BY <1>1 DEF FlushLinks, Waits
  <1>3. pc = "next" /\ UNCHANGED archive /\ f \in File /\ n \in LinkOf(f)
    BY <1>1, <1>2, ReadOne
  <1>4. /\ SlotInv'
        /\ DOMAIN isl' = DOMAIN isl /\ \A g \in DOMAIN isl : g # f => isl'[g] = isl[g]
        /\ node' \in {f, None} /\ (f \in DOMAIN isl => node' = f) /\ node = None
    BY <1>2, <1>3, FlushSlots DEF WaitInv, Inv, NameInv
  <1>5. AwaitInv'
    <2> SUFFICES ASSUME svr4, Own, failed = {}, NEW g \in File \ Empty, NLink[g] > 1 PROVE Awaited(g)'
      BY <1>3 DEF AwaitInv, Own, archive
    <2>1. Awaited(g)
      BY <1>3 DEF WaitInv, AwaitInv
    <2>2. CASE g = f
      <3>1. Behind(g, Read)' = {}
        BY <1>1, <1>2, <2>2, ReadOne
      <3>2. node' = f \/ f \notin DOMAIN isl'
        BY <1>4
      <3> QED
        BY <2>2, <3>1, <3>2 DEF Awaited
    <2>3. CASE g # f
      <3>1. Behind(g, Read)' = Behind(g, Read)
        BY <1>1, <1>2, <2>3, ReadOne
      <3>2. node # g /\ node' # g
        BY <1>4, <2>3, CpioAssumption DEF CpioAssumption
      <3> QED
        BY <1>4, <2>1, <2>3, <3>1, <3>2, OtherFile
    <2> QED
      BY <2>2, <2>3
  <1> QED
    BY <1>4, <1>5 DEF WaitInv

\* With less than m - 1 more than 2 are needed to make m + 1.
LEMMA TooFew == \A c, m \in Nat, k \in 1..2 : ~(k + c = m + 1 /\ c + 1 < m)
  OBVIOUS

\* 1 and 2 are above 0.
LEMMA OneOrTwo == \A k \in 1..2 : k > 0 /\ k # 0
  OBVIOUS

\* A file with data has its data before storelink() takes a link for the last one.
LEMMA NotTheLast ==
    ASSUME Inv, Own => CountInv, WaitInv, FlushEmpty, Own, failed = {}
    PROVE  FileOf[Header.name] \in Empty
  <1> SUFFICES ASSUME FileOf[Header.name] \notin Empty PROVE FALSE
    OBVIOUS
  <1>1. PICK f : f = FileOf[Header.name]
    OBVIOUS
  <1>2. /\ ReadHeader /\ svr4 /\ NLink[f] > 1 /\ ~Header.data
        /\ f \in DOMAIN isl /\ isl[f].nlk \in 1..2
    BY <1>1 DEF FlushEmpty, Waits
  <1>3. /\ pc = "next" /\ f \in File /\ pos + 1 \in 1..Len(tape) /\ Read' = pos + 1 /\ UNCHANGED archive
        /\ Cardinality(Behind(f, Read))' = Cardinality(Behind(f, Read)) + 1
        /\ Cardinality(Behind(f, Read)) \in Nat
    BY <1>1, <1>2, ReadOne
  <1>4. node = None /\ None # f /\ FileSlot(f) /\ Awaited(f)
    BY <1>1, <1>2, <1>3, CpioAssumption DEF WaitInv, SlotInv, TodoSlot, AwaitInv, CpioAssumption
  <1>5. isl[f].nlk + Len(isl[f].lnk) = NLink[f] + 1 /\ Len(isl[f].lnk) = Cardinality(Behind(f, Read))
    <2>1. isl[f].nlk > 0 /\ isl[f].nlk # 0
      BY <1>2, OneOrTwo, Zenon
    <2>2. Behind(f, Read) # {}
      BY <1>2, <1>4, <2>1 DEF Awaited
    <2> QED
      BY <1>2, <1>4, <2>1, <2>2 DEF FileSlot, Awaited
  <1>6. NLink[f] \in Nat
    BY <1>3, CpioOutAssumption DEF CpioOutAssumption
  <1>7. Cardinality(Behind(f, pos + 1)) = Cardinality(Behind(f, Read)) + 1
    BY <1>3 DEF Behind, archive
  <1>8. Cardinality(Behind(f, pos + 1)) < NLink[f]
    <2>1. Sound(f)
      BY DEF Sound
    <2>2. pos + 1 \in 0..Len(tape)
      BY <1>3
    <2> QED
      BY <1>1, <1>2, <1>3, <2>1, <2>2 DEF CountInv, FollowInv
  <1>9. /\ isl[f].nlk + Cardinality(Behind(f, Read)) = NLink[f] + 1
        /\ Cardinality(Behind(f, Read)) + 1 < NLink[f]
    BY <1>5, <1>7, <1>8
  <1> QED
    BY <1>2, <1>3, <1>6, <1>9, TooFew

\* So what flushnode() has no data for needs none.
LEMMA WaitFlushEmpty ==
    ASSUME Inv, Own => CountInv, WaitInv, FlushEmpty PROVE WaitInv'
  <1>1. PICK n, f : n = Header.name /\ f = FileOf[n]
    OBVIOUS
  <1>2. ReadHeader /\ svr4 /\ ~Header.data /\ FlushNode(f, n)
    BY <1>1 DEF FlushEmpty, Waits
  <1>3. pc = "next" /\ UNCHANGED archive /\ f \in File /\ n \in LinkOf(f)
    BY <1>1, <1>2, ReadOne
  <1>4. /\ SlotInv'
        /\ DOMAIN isl' = DOMAIN isl /\ \A g \in DOMAIN isl : g # f => isl'[g] = isl[g]
        /\ node' \in {f, None} /\ (f \in DOMAIN isl => node' = f) /\ node = None
    BY <1>2, <1>3, FlushSlots DEF WaitInv, Inv, NameInv
  <1>5. AwaitInv'
    <2> SUFFICES ASSUME svr4, Own, failed = {}, NEW g \in File \ Empty, NLink[g] > 1 PROVE Awaited(g)'
      BY <1>3 DEF AwaitInv, Own, archive
    <2>1. Awaited(g)
      BY <1>3 DEF WaitInv, AwaitInv
    <2>2. g # f
      BY <1>1, NotTheLast
    <2>3. Behind(g, Read)' = Behind(g, Read)
      BY <1>1, <1>2, <2>2, ReadOne
    <2>4. node # g /\ node' # g
      BY <1>4, <2>2, CpioAssumption DEF CpioAssumption
    <2> QED
      BY <1>4, <2>1, <2>2, <2>3, <2>4, OtherFile
  <1> QED
    BY <1>4, <1>5 DEF WaitInv

\* One link is held back: it is the first of those that wait, or one more.
LEMMA StoredSlot ==
    ASSUME Inv, SlotInv, StoreLink, NEW n, n = Header.name,
           NEW f, f = FileOf[n]
    PROVE  /\ DOMAIN isl' = DOMAIN isl \cup {f} /\ (\A g \in DOMAIN isl : g # f => isl'[g] = isl[g])
           /\ isl'[f].nlk \in Nat /\ isl'[f].nlk > 0 /\ isl'[f].nlk + Len(isl'[f].lnk) = NLink[f] + 1
           /\ f \notin DOMAIN isl \/ isl[f].nlk = 0 => Len(isl'[f].lnk) = 1
           /\ f \in DOMAIN isl /\ isl[f].nlk > 0 => Len(isl'[f].lnk) = Len(isl[f].lnk) + 1
  <1>1. ReadHeader /\ svr4 /\ NLink[f] > 1
    BY DEF StoreLink, Waits
  <1>2. f \in File /\ n \in LinkOf(f) /\ NLink[f] \in Nat /\ pc = "next"
    BY <1>1, ReadOne, CpioOutAssumption DEF CpioOutAssumption
  <1>3. node = None /\ FileSlot(f) /\ None # f
    BY <1>1, <1>2, CpioAssumption DEF SlotInv, TodoSlot, CpioAssumption
  <1>4. ASSUME NEW k \in Nat, NEW l \in Seq(LinkOf(f)), NEW m, isl' = NewSlot(f, k, Append(l, n), m)
        PROVE  /\ DOMAIN isl' = DOMAIN isl \cup {f} /\ (\A g \in DOMAIN isl : g # f => isl'[g] = isl[g])
               /\ isl'[f].nlk = k /\ Len(isl'[f].lnk) = Len(l) + 1
    <2>1. isl'[f].lnk = Append(l, n) /\ isl'[f].nlk = k /\ DOMAIN isl' = DOMAIN isl \cup {f}
          /\ (\A g \in DOMAIN isl : g # f => isl'[g] = isl[g])
      BY <1>4 DEF NewSlot, Put
    <2>2. Len(Append(l, n)) = Len(l) + 1
      BY <1>2, Appended
    <2> QED
      BY <2>1, <2>2
  <1>5. PICK e \in Seq(LinkOf(f)) : e = <<>> /\ Len(e) = 0 /\ Append(e, n) = <<n>>
    <2>1. <<>> \in Seq(LinkOf(f))
      OBVIOUS
    <2>2. Len(<<>>) = 0
      OBVIOUS
    <2>3. Append(<<>>, n) = <<n>>
      OBVIOUS
    <2> QED
      BY <2>1, <2>2, <2>3, Zenon
  <1>6. CASE f \notin DOMAIN isl
    <2>1. isl' = NewSlot(f, NLink[f], Append(e, n), None)
      BY <1>5, <1>6 DEF StoreLink
    <2>2. isl'[f].nlk = NLink[f] /\ Len(isl'[f].lnk) = 0 + 1
      BY <1>2, <1>4, <1>5, <2>1, Zenon
    <2>3. Len(isl'[f].lnk) = 1
      BY <2>2
    <2>4. /\ DOMAIN isl' = DOMAIN isl \cup {f} /\ (\A g \in DOMAIN isl : g # f => isl'[g] = isl[g])
      BY <1>2, <1>4, <1>5, <2>1, Zenon
    <2>5. isl'[f].nlk > 0
      BY <1>1, <1>2, <2>2
    <2> QED
      BY <1>2, <1>6, <2>2, <2>3, <2>4, <2>5, Zenon
  <1>7. CASE f \in DOMAIN isl /\ isl[f].nlk = 0
    <2>1. isl[f].lnk = e
      BY <1>3, <1>5, <1>7 DEF FileSlot
    <2>2. isl' = NewSlot(f, NLink[f], Append(e, n), None)
      BY <1>7, <2>1 DEF StoreLink
    <2>3. isl'[f].nlk = NLink[f] /\ Len(isl'[f].lnk) = 0 + 1
      BY <1>2, <1>4, <1>5, <2>2, Zenon
    <2>4. Len(isl'[f].lnk) = 1
      BY <2>3
    <2>5. /\ DOMAIN isl' = DOMAIN isl \cup {f} /\ (\A g \in DOMAIN isl : g # f => isl'[g] = isl[g])
      BY <1>2, <1>4, <1>5, <2>2, Zenon
    <2>6. isl'[f].nlk > 0 /\ ~(0 > 0)
      BY <1>1, <1>2, <2>3
    <2> QED
      BY <1>2, <1>7, <2>3, <2>4, <2>5, <2>6, Zenon
  <1>8. CASE f \in DOMAIN isl /\ isl[f].nlk # 0
    <2>1. /\ isl[f].nlk > 2
          /\ isl' = NewSlot(f, isl[f].nlk - 1, Append(isl[f].lnk, n), isl[f].name)
      BY <1>8 DEF StoreLink
    <2>2. isl[f].nlk \in Nat /\ isl[f].lnk \in Seq(LinkOf(f)) /\ Len(isl[f].lnk) \in Nat
      BY <1>8, SlotTypes DEF Inv, NameInv
    <2>3. isl[f].nlk > 0 /\ isl[f].nlk - 1 \in Nat /\ isl[f].nlk - 1 > 0
      BY <2>1, <2>2
    <2>4. isl[f].nlk + Len(isl[f].lnk) = NLink[f] + 1
      BY <1>3, <1>8, <2>3 DEF FileSlot
    <2>5. isl'[f].nlk = isl[f].nlk - 1 /\ Len(isl'[f].lnk) = Len(isl[f].lnk) + 1
      BY <1>4, <2>1, <2>2, <2>3
    <2>6. isl'[f].nlk + Len(isl'[f].lnk) = NLink[f] + 1
      <3>1. (isl[f].nlk - 1) + (Len(isl[f].lnk) + 1) = NLink[f] + 1
        <4> DEFINE a == isl[f].nlk
                   b == Len(isl[f].lnk)
                   c == NLink[f]
        <4>1. a \in Nat /\ b \in Nat /\ c \in Nat /\ a - 1 \in Nat /\ a + b = c + 1
          BY <1>2, <2>2, <2>3, <2>4
        <4> HIDE DEF a, b, c
        <4>2. (a - 1) + (b + 1) = c + 1
          BY <4>1
        <4> QED
          BY <4>2 DEF a, b, c
      <3> QED
        BY <2>5, <3>1, Zenon
    <2>7. DOMAIN isl' = DOMAIN isl \cup {f} /\ (\A g \in DOMAIN isl : g # f => isl'[g] = isl[g])
      BY <1>4, <2>1, <2>2, <2>3, Zenon
    <2> QED
      BY <1>8, <2>3, <2>5, <2>6, <2>7, Zenon
  <1> QED
    BY <1>6, <1>7, <1>8

\* storelink() counts as many links as there are in the archive without data.
LEMMA WaitStoreLink == ASSUME Inv, WaitInv, StoreLink PROVE WaitInv'
  <1>1. PICK n, f : n = Header.name /\ f = FileOf[n]
    OBVIOUS
  <1>2. ReadHeader /\ svr4 /\ ~Header.data /\ NLink[f] > 1 /\ UNCHANGED <<pc, node, todo, own>>
    BY <1>1 DEF StoreLink, Waits
  <1>3. pc = "next" /\ UNCHANGED archive /\ f \in File /\ n \in LinkOf(f)
    BY <1>1, <1>2, ReadOne
  <1>4. SlotInv
    BY DEF WaitInv
  <1>5. /\ DOMAIN isl' = DOMAIN isl \cup {f} /\ (\A g \in DOMAIN isl : g # f => isl'[g] = isl[g])
        /\ isl'[f].nlk \in Nat /\ isl'[f].nlk > 0 /\ isl'[f].nlk + Len(isl'[f].lnk) = NLink[f] + 1
        /\ f \notin DOMAIN isl \/ isl[f].nlk = 0 => Len(isl'[f].lnk) = 1
        /\ f \in DOMAIN isl /\ isl[f].nlk > 0 => Len(isl'[f].lnk) = Len(isl[f].lnk) + 1
    BY <1>1, <1>4, StoredSlot
  <1>6. isl'[f].nlk # 0
    BY <1>5
  <1>7. todo = <<>> /\ own = None /\ node = None /\ None # f
    BY <1>2, <1>3, <1>4, CpioAssumption DEF Inv, NameInv, SlotInv, TodoSlot, CpioAssumption
  <1>8. SlotInv'
    <2>1. ASSUME NEW g \in File PROVE FileSlot(g)'
      <3>1. CASE g = f
        BY <1>2, <1>5, <1>6, <3>1 DEF FileSlot
      <3>2. CASE g # f
        <4>1. FileSlot(g)
          BY <1>2, <1>3, <1>4 DEF SlotInv
        <4> QED
          BY <1>2, <1>5, <3>2, <4>1, OtherFile
      <3> QED
        BY <3>1, <3>2
    <2>2. TodoSlot'
      BY <1>2, <1>7 DEF TodoSlot
    <2> QED
      BY <1>2, <1>3, <2>1, <2>2 DEF SlotInv
  <1>9. AwaitInv'
    <2> SUFFICES ASSUME Own, failed = {}, NEW g \in File \ Empty, NLink[g] > 1 PROVE Awaited(g)'
      BY <1>3 DEF AwaitInv, Own, archive
    <2>1. Awaited(g)
      BY <1>2, <1>3 DEF WaitInv, AwaitInv
    <2>2. CASE g = f
      <3>1. /\ Behind(f, Read)' # {} /\ Cardinality(Behind(f, Read))' = Cardinality(Behind(f, Read)) + 1
            /\ Cardinality(Behind(f, Read)) \in Nat
            /\ Behind(f, Read) = {} => Cardinality(Behind(f, Read)) = 0
        BY <1>1, <1>2, ReadOne
      <3>2. Len(isl'[f].lnk) = Cardinality(Behind(f, Read))'
        <4>1. CASE Behind(f, Read) = {}
          <5>1. f \notin DOMAIN isl \/ isl[f].nlk = 0
            BY <1>7, <2>1, <2>2, <4>1 DEF Awaited
          <5>2. Cardinality(Behind(f, Read))' = 1
            BY <3>1, <4>1
          <5> QED
            BY <1>5, <5>1, <5>2
        <4>2. CASE Behind(f, Read) # {}
          <5>1. f \in DOMAIN isl /\ isl[f].nlk > 0 /\ Len(isl[f].lnk) = Cardinality(Behind(f, Read))
            BY <2>1, <2>2, <4>2 DEF Awaited
          <5> QED
            BY <1>5, <3>1, <5>1
        <4> QED
          BY <4>1, <4>2
      <3>3. node' # f /\ f \in DOMAIN isl'
        BY <1>2, <1>5, <1>7
      <3> QED
        BY <1>5, <2>2, <3>1, <3>2, <3>3 DEF Awaited
    <2>3. CASE g # f
      <3>1. Behind(g, Read)' = Behind(g, Read)
        BY <1>1, <1>2, <2>3, ReadOne
      <3> QED
        BY <1>2, <1>5, <2>1, <2>3, <3>1, OtherFile
    <2> QED
      BY <2>2, <2>3
  <1> QED
    BY <1>8, <1>9 DEF WaitInv

\* The end of the archive.
LEMMA WaitTrailer == ASSUME Inv, WaitInv, Trailer PROVE WaitInv'
  <1>1. /\ pc = "next" /\ pos = Len(tape) /\ pc' = "rest" /\ pos' = pos + 1
        /\ UNCHANGED <<archive, isl, node, todo, own>>
    BY DEF Trailer, outVars
  <1>2. pos \in Nat /\ Len(tape') = Len(tape)
    BY <1>1 DEF Inv, NameInv, OutInv, archive
  <1>3. Read = Len(tape) /\ Read' = Len(tape) /\ pos' > Len(tape')
    BY <1>1, <1>2 DEF Read
  <1>4. SlotInv'
    <2>1. svr4' = svr4
      BY <1>1 DEF archive
    <2> SUFFICES ASSUME svr4 PROVE SlotInv'
      BY <2>1 DEF SlotInv
    <2>2. \A g \in File : FileSlot(g)'
      BY <1>1, OtherFile DEF WaitInv, SlotInv
    <2>3. TodoSlot'
      BY <1>1 DEF WaitInv, SlotInv, TodoSlot
    <2> QED
      BY <1>1, <1>3, <2>2, <2>3 DEF SlotInv
  <1>5. AwaitInv'
    <2> SUFFICES ASSUME svr4, Own, failed = {}, NEW g \in File \ Empty, NLink[g] > 1 PROVE Awaited(g)'
      BY <1>1 DEF AwaitInv, Own, archive
    <2>1. Awaited(g)
      BY <1>1 DEF WaitInv, AwaitInv
    <2>2. Behind(g, Read)' = Behind(g, Read)
      BY <1>1, <1>3 DEF Behind, archive
    <2> QED
      BY <1>1, <2>1, <2>2, OtherFile
  <1> QED
    BY <1>4, <1>5 DEF WaitInv

\* What is left behind the end has no data.
LEMMA NothingToCome ==
    ASSUME Inv, Own => CountInv, WaitInv, NEW f \in File, FlushRest(f), Own, failed = {}
    PROVE  f \in Empty
  <1>1. /\ pc = "rest" /\ svr4 /\ f \in DOMAIN isl /\ isl[f].nlk > 0
    BY DEF FlushRest
  <1>2. /\ pos > Len(tape) /\ pos \in Nat /\ Len(tape) \in Nat
        /\ NLink[f] > 1 /\ node # f
    <2>1. pos > Len(tape) /\ FileSlot(f) /\ node = None
      BY <1>1 DEF WaitInv, SlotInv, TodoSlot
    <2>2. pos \in Nat /\ Len(tape) \in Nat
      BY DEF Inv, NameInv, OutInv
    <2> QED
      BY <1>1, <2>1, <2>2, CpioAssumption DEF FileSlot, CpioAssumption
  <1>3. Read = Len(tape)
    BY <1>2 DEF Read
  <1> SUFFICES ASSUME f \notin Empty PROVE FALSE
    OBVIOUS
  <1>4. Behind(f, Read) = {}
    <2>1. Sound(f)
      BY DEF Sound
    <2> QED
      BY <1>1, <1>3, <2>1 DEF CountInv, FollowInv
  <1>5. Awaited(f)
    BY <1>1, <1>2 DEF WaitInv, AwaitInv
  <1>6. isl[f].nlk # 0
    BY <1>1
  <1> QED
    BY <1>1, <1>2, <1>4, <1>5, <1>6 DEF Awaited

\* So it waits for nothing.
LEMMA WaitFlushRest ==
    ASSUME Inv, Own => CountInv, WaitInv, NEW f \in File, FlushRest(f) PROVE WaitInv'
  <1>1. /\ pc = "rest" /\ svr4 /\ f \in DOMAIN isl /\ isl[f].nlk > 0 /\ FlushNode(f, None)
        /\ UNCHANGED <<archive, pos>>
    BY DEF FlushRest, outVars
  <1>2. /\ SlotInv'
        /\ DOMAIN isl' = DOMAIN isl /\ \A g \in DOMAIN isl : g # f => isl'[g] = isl[g]
        /\ node' = f /\ node = None
    BY <1>1, FlushSlots DEF WaitInv, Inv, NameInv
  <1>3. AwaitInv'
    <2> SUFFICES ASSUME svr4, Own, failed = {}, NEW g \in File \ Empty, NLink[g] > 1 PROVE Awaited(g)'
      BY <1>1 DEF AwaitInv, Own, archive
    <2>1. Awaited(g)
      BY <1>1 DEF WaitInv, AwaitInv
    <2>2. g # f
      BY NothingToCome
    <2>3. Behind(g, Read)' = Behind(g, Read)
      BY <1>1 DEF Behind, Read, archive
    <2>4. node # g /\ node' # g
      BY <1>2, <2>2, CpioAssumption DEF CpioAssumption
    <2> QED
      BY <1>2, <2>1, <2>2, <2>3, <2>4, OtherFile
  <1> QED
    BY <1>2, <1>3 DEF WaitInv

\* The end of flushnode() leaves a slot for which nothing waits.
LEMMA WaitNodeDone == ASSUME Inv, WaitInv, NodeDone PROVE WaitInv'
  <1>1. /\ pc = "inpone" /\ todo = <<>> /\ own = None
        /\ pc' = IF pos > Len(tape) THEN "rest" ELSE "next"
        /\ node' = None /\ UNCHANGED <<archive, pos, todo, own>>
        /\ isl' = IF node = None THEN isl
                  ELSE [isl EXCEPT ![node].nlk = 0,
                                   ![node].name = IF isl[node].nlk > 2 THEN @ ELSE None]
    BY DEF NodeDone, outVars
  <1>2. Read' = Read /\ UNCHANGED tape /\ UNCHANGED svr4
    BY <1>1 DEF Read, archive
  <1>3. TodoSlot'
    BY <1>1 DEF TodoSlot
  <1>4. ASSUME svr4, NEW g, node # g, g \in File
        PROVE  /\ FileSlot(g) => FileSlot(g)'
               /\ Behind(g, Read)' = Behind(g, Read) /\ Awaited(g) => Awaited(g)'
    <2>1. g \in DOMAIN isl <=> g \in DOMAIN isl'
      BY <1>1
    <2>2. g \in DOMAIN isl => isl'[g] = isl[g]
      BY <1>1, <1>4
    <2>3. node = g <=> node' = g
      BY <1>1, <1>4, CpioAssumption DEF CpioAssumption
    <2> QED
      BY <2>1, <2>2, <2>3, OtherFile
  <1>5. ASSUME svr4, node # None
        PROVE  /\ node \in DOMAIN isl /\ isl'[node].nlk = 0 /\ isl'[node].lnk = <<>> /\ NLink[node] > 1
    <2>1. node \in DOMAIN isl /\ isl[node].lnk = <<>>
      BY <1>1, <1>5 DEF WaitInv, SlotInv, TodoSlot
    <2>2. NLink[node] > 1 /\ isl[node] \in [nlk : 0..NLink[node], lnk : Seq(LinkOf(node)), name : LinkOf(node) \cup {None}]
      BY <1>1, <1>5, <2>1, SlotTypes DEF WaitInv, SlotInv, FileSlot, Inv, NameInv
    <2>3. isl' = [isl EXCEPT ![node].nlk = 0,
                             ![node].name = IF isl[node].nlk > 2 THEN @ ELSE None]
      BY <1>1, <1>5
    <2> QED
      BY <2>1, <2>2, <2>3
  <1>6. SlotInv'
    <2> SUFFICES ASSUME svr4 PROVE SlotInv'
      BY <1>2 DEF SlotInv
    <2>1. \A g \in File : FileSlot(g)
      BY <1>1 DEF WaitInv, SlotInv
    <2>2. ASSUME NEW g \in File PROVE FileSlot(g)'
      <3>1. CASE node = g
        <4>1. node # None
          BY <3>1, CpioAssumption DEF CpioAssumption
        <4> QED
          BY <1>5, <3>1, <4>1 DEF FileSlot
      <3>2. CASE node # g
        BY <1>4, <2>1, <3>2
      <3> QED
        BY <3>1, <3>2
    <2>3. pc' = "rest" => pos' > Len(tape')
      BY <1>1, <1>2
    <2>4. pc' # "out"
      BY <1>1
    <2> QED
      BY <1>3, <2>2, <2>3, <2>4 DEF SlotInv
  <1>7. AwaitInv'
    <2> SUFFICES ASSUME svr4, Own, failed = {}, NEW g \in File \ Empty, NLink[g] > 1 PROVE Awaited(g)'
      BY <1>1 DEF AwaitInv, Own, archive
    <2>1. Awaited(g)
      BY <1>1 DEF WaitInv, AwaitInv
    <2>2. Behind(g, Read)' = Behind(g, Read)
      BY <1>2 DEF Behind
    <2>3. CASE node = g
      <3>1. node # None
        BY <2>3, CpioAssumption DEF CpioAssumption
      <3>2. Behind(g, Read) = {}
        BY <2>1, <2>3 DEF Awaited
      <3> QED
        BY <1>5, <2>2, <2>3, <3>1, <3>2 DEF Awaited
    <2>4. CASE node # g
      BY <1>4, <2>1, <2>2, <2>4
    <2> QED
      BY <2>3, <2>4
  <1> QED
    BY <1>6, <1>7 DEF WaitInv

\* No slot changes but in its name, and a new one waits for nothing.
SameSlots ==
    /\ \A g \in DOMAIN isl : g \in DOMAIN isl' /\ isl'[g].nlk = isl[g].nlk /\ isl'[g].lnk = isl[g].lnk
    /\ \A g \in DOMAIN isl' \ DOMAIN isl : NLink[g] > 1 /\ isl'[g].nlk = 0 /\ isl'[g].lnk = <<>>

\* flushnode() or doinp() is at the same name, or goes on to the next.
Onward ==
    \/ UNCHANGED <<todo, own>>
    \/ todo # <<>> /\ todo' = Tail(todo) /\ own' = own
    \/ todo = <<>> /\ todo' = todo /\ own' = None

\* What filein() does changes nothing about the links that wait.
LEMMA WaitSame ==
    ASSUME Inv, WaitInv, UNCHANGED <<archive, pos, node>>, SameSlots, Onward,
           pc \notin {"out", "exit"}, pc' \notin {"out", "next", "rest", "exit"}
    PROVE  WaitInv'
  <1>1. Read' = Read /\ UNCHANGED tape /\ UNCHANGED svr4
    BY DEF Read, archive
  <1>2. ASSUME svr4, NEW g \in File, FileSlot(g) PROVE FileSlot(g)'
    BY <1>2 DEF FileSlot, SameSlots
  <1>3. ASSUME svr4, NEW g \in File, Awaited(g) PROVE Awaited(g)'
    <2>1. Behind(g, Read)' = Behind(g, Read)
      BY <1>1 DEF Behind
    <2>2. CASE Behind(g, Read) = {}
      BY <1>3, <2>1, <2>2 DEF Awaited, SameSlots
    <2>3. CASE Behind(g, Read) # {}
      BY <1>3, <2>1, <2>3 DEF Awaited, SameSlots
    <2> QED
      BY <2>2, <2>3
  <1>4. ASSUME svr4, TodoSlot PROVE TodoSlot'
    <2>1. todo \in Seq(Filled) /\ node' = node
      BY DEF Inv, NameInv
    <2>2. node' # None => node' \in DOMAIN isl' /\ isl'[node'].lnk = <<>>
      BY <1>4, <2>1 DEF TodoSlot, SameSlots
    <2>3. todo' # <<>> => /\ node' # None /\ isl'[node'].nlk > 0
                          /\ \A i \in 1..Len(todo') : FileOf[todo'[i]] = node'
      <3> SUFFICES ASSUME todo' # <<>>
                   PROVE  node' # None /\ isl'[node'].nlk > 0 /\ \A i \in 1..Len(todo') : FileOf[todo'[i]] = node'
        OBVIOUS
      <3>1. todo # <<>>
        BY DEF Onward
      <3>2. /\ node # None /\ isl[node].nlk > 0 /\ node \in DOMAIN isl
            /\ \A i \in 1..Len(todo) : FileOf[todo[i]] = node
        BY <1>4, <3>1 DEF TodoSlot
      <3>3. \A i \in 1..Len(todo') : FileOf[todo'[i]] = node
        <4>1. todo' = todo \/ todo' = Tail(todo)
          BY <3>1 DEF Onward
        <4>2. CASE todo' = Tail(todo)
          <5>1. /\ Len(Tail(todo)) = Len(todo) - 1 /\ Len(todo) \in Nat
                /\ \A i \in 1..Len(Tail(todo)) : Tail(todo)[i] = todo[i + 1]
            BY <2>1, <3>1, HeadTailProperties
          <5>2. \A i \in 1..Len(Tail(todo)) : i + 1 \in 1..Len(todo)
            BY <5>1
          <5> QED
            BY <3>2, <4>2, <5>1, <5>2
        <4> QED
          BY <3>2, <4>1, <4>2
      <3> QED
        BY <2>1, <3>2, <3>3 DEF SameSlots
    <2>4. own' # None => IF node' = None THEN FileOf[own'] \in DOMAIN isl' => isl'[FileOf[own']].nlk = 0
                         ELSE FileOf[own'] = node'
      <3> SUFFICES ASSUME own' # None
                   PROVE  IF node' = None THEN FileOf[own'] \in DOMAIN isl' => isl'[FileOf[own']].nlk = 0
                          ELSE FileOf[own'] = node'
        OBVIOUS
      <3>1. own' = own
        BY DEF Onward
      <3> QED
        BY <1>4, <2>1, <3>1 DEF TodoSlot, SameSlots
    <2> QED
      BY <2>2, <2>3, <2>4 DEF TodoSlot
  <1>5. SlotInv'
    BY <1>1, <1>2, <1>4 DEF WaitInv, SlotInv
  <1>6. AwaitInv'
    BY <1>3 DEF WaitInv, AwaitInv, Own, archive
  <1> QED
    BY <1>5, <1>6 DEF WaitInv

\* With the -c format only the name of a slot is recorded.
LEMMA NewFileSlots ==
    ASSUME Inv, WaitInv, svr4, NewFile
    PROVE  /\ pc = "inpone" /\ UNCHANGED <<archive, pos, node, todo, own>> /\ pc' \in {"mkstemp", "creat"}
           /\ SameSlots
  <1>0. pc = "inpone" /\ UNCHANGED <<archive, pos, node>> /\ pc' \in {"mkstemp", "creat"}
    BY DEF NewFile, Filein, Inpone, At, Goto
  <1>1. /\ IsLink \/ own # None
        /\ isl' = Recorded /\ UNCHANGED <<todo, own>>
    BY DEF NewFile, Filein, Inpone, At, Goto
  <1>2. (\A g \in File : FileSlot(g)) /\ TodoSlot
    BY <1>0 DEF WaitInv, SlotInv
  <1>3. tgt \in Name /\ file \in File /\ NLink[file] \in Nat \ {0}
    <2>1. tgt \in Name
      BY <1>1, TgtType DEF Inv, NameInv
    <2> QED
      BY <2>1, CpioOutAssumption DEF file, CpioOutAssumption
  <1>4. file \in DOMAIN isl => isl[file].lnk = <<>>
    <2> HAVE file \in DOMAIN isl
    <2>1. CASE IsLink
      <3>1. file = node /\ node # None
        <4>1. todo # <<>> /\ todo \in Seq(Filled)
          BY <2>1 DEF IsLink, Inv, NameInv
        <4>2. 1 \in 1..Len(todo) /\ Head(todo) = todo[1]
          BY <4>1
        <4> QED
          BY <1>2, <2>1, <4>1, <4>2 DEF TodoSlot, file, tgt
      <3> QED
        BY <1>2, <3>1 DEF TodoSlot
    <2>2. CASE ~IsLink
      <3>1. own # None /\ file = FileOf[own]
        BY <1>1, <2>2 DEF file, tgt
      <3>2. CASE node = None
        BY <1>2, <1>3, <3>1, <3>2 DEF TodoSlot, FileSlot
      <3>3. CASE node # None
        BY <1>2, <3>1, <3>3 DEF TodoSlot
      <3> QED
        BY <3>2, <3>3
    <2> QED
      BY <2>1, <2>2
  <1>5. SameSlots
    <2>1. CASE isl' = isl
      BY <2>1 DEF SameSlots
    <2>2. CASE isl' # isl
      <3>1. /\ NLink[file] # 1
            /\ isl' = NewSlot(file, IF file \in DOMAIN isl THEN isl[file].nlk ELSE 0, <<>>, tgt)
        BY <1>1, <2>2 DEF Recorded
      <3>2. /\ DOMAIN isl' = DOMAIN isl \cup {file} /\ \A g \in DOMAIN isl : g # file => isl'[g] = isl[g]
            /\ isl'[file].nlk = (IF file \in DOMAIN isl THEN isl[file].nlk ELSE 0)
            /\ isl'[file].lnk = <<>>
        BY <3>1 DEF NewSlot, Put
      <3>3. NLink[file] > 1
        BY <1>3, <3>1
      <3> QED
        BY <1>4, <3>2, <3>3 DEF SameSlots
    <2> QED
      BY <2>1, <2>2
  <1> QED
    BY <1>0, <1>1, <1>5

\* So nothing waits that did not.
LEMMA WaitNewFile == ASSUME Inv, WaitInv, svr4, NewFile PROVE WaitInv'
  <1>1. Onward
    BY NewFileSlots DEF Onward
  <1> QED
    BY <1>1, NewFileSlots, WaitSame

\* The steps of inpone() and filein() stay at a name or go on to the next.
Extracts == Choosing \/ Linking \/ Keeping \/ Writing \/ Ending

\* What all of them have in common.
LEMMA FileSteps ==
    ASSUME Extracts
    PROVE  /\ UNCHANGED <<archive, given, pos, node, sig>> /\ pc \in {"inpone"} \cup Extracting
           /\ Onward /\ pc' \in {"inpone"} \cup Extracting
           /\ NewFile \/ (MakeLink /\ ~svr4) \/ isl' = isl
  <1> USE DEF Extracts
  <1>1. NewFile \/ (MakeLink /\ ~svr4) \/ isl' = isl
    BY DEF Choosing, Unwanted, SkipNewer, NoDirectory, MakeLink, Linking, Link, UnlinkTarget,
           LinkFails, InLink,
           Keeping, Writing, Ending, Mkstemp, MkstempFails, CloseFails, PutEmpty, PutEmptyFails,
           SetOfile, SetTfile, RenameOld,
           RenameFails, Create, CreateFails, Write, WriteFails, Restore, RestoreFails, Forget,
           UnlinkTemp, Keep
  <1>2. \E p : At(p) /\ p \in {"inpone"} \cup Extracting
    BY Zenon DEF Choosing, Unwanted, SkipNewer, NoDirectory, NewFile, MakeLink, Filein, Inpone, Linking, Link,
           UnlinkTarget, LinkFails, InLink,
           Keeping, Writing, Ending, Mkstemp, MkstempFails, CloseFails, PutEmpty, PutEmptyFails,
           SetOfile, SetTfile, RenameOld,
           RenameFails, Create, CreateFails, Write, WriteFails, Restore, RestoreFails, Forget,
           UnlinkTemp, Keep, Extracting
  <1>3. UNCHANGED <<archive, given, pos, node, sig>> /\ pc \in {"inpone"} \cup Extracting
    BY <1>2 DEF At
  <1>4. (\E o : Over(o)) \/ \E p \in Extracting : Goto(p)
    BY Zenon DEF Choosing, Unwanted, SkipNewer, NoDirectory, NewFile, MakeLink, Filein, Inpone, Linking, Link,
           UnlinkTarget, LinkFails, InLink, Leave,
           Keeping, Writing, Ending, Mkstemp, MkstempFails, CloseFails, PutEmpty, PutEmptyFails,
           SetOfile, SetTfile, RenameOld,
           RenameFails, Create, CreateFails, Write, WriteFails, Restore, RestoreFails, Forget,
           UnlinkTemp, Extracting
  <1>5. Onward /\ pc' \in {"inpone"} \cup Extracting
    BY <1>4 DEF Over, Goto, Onward, IsLink
  <1> QED
    BY <1>1, <1>3, <1>5

\* All but NewFile leave the slots alone.
LEMMA WaitFile == ASSUME Inv, WaitInv, svr4, Extracts, ~NewFile PROVE WaitInv'
  <1>1. isl' = isl
    BY FileSteps
  <1>2. SameSlots
    BY <1>1 DEF SameSlots
  <1> QED
    BY <1>1, <1>2, FileSteps, WaitSame DEF Extracting

\* At first no link waits.
LEMMA WaitFirst == Init => WaitInv
  <1> SUFFICES ASSUME Init PROVE WaitInv
    OBVIOUS
  <1>1. pc = "out" /\ isl = <<>> /\ pos = 0 /\ node = None /\ todo = <<>> /\ own = None
    BY DEF Init
  <1>2. \A f \in File : FileSlot(f)
    BY <1>1 DEF FileSlot
  <1>3. TodoSlot
    BY <1>1 DEF TodoSlot
  <1> QED
    BY <1>1, <1>2, <1>3 DEF WaitInv, SlotInv, AwaitInv

\* Before and at the begin of cpio -i nothing has been read.
LEMMA WaitBegin == ASSUME Inv, WaitInv, CopyOut \/ Start PROVE WaitInv'
  <1>1. /\ pc = "out" /\ pc' \in {"out", "next"} /\ UNCHANGED reader
        /\ pc' = "next" => UNCHANGED archive
    BY DEF CopyOut, Start, inVars, outVars
  <1>2. svr4' = svr4
    BY DEF CopyOut, Start, outVars, archive, OutNext, LstatFails, OutFile, KeepLink, LastLink, LFlush,
           Listed, Linked
  <1> SUFFICES ASSUME svr4 PROVE WaitInv'
    BY <1>2 DEF WaitInv, SlotInv, AwaitInv
  <1>3. isl = <<>> /\ pos = 0 /\ node = None /\ todo = <<>> /\ own = None
    BY <1>1 DEF WaitInv, SlotInv, TodoSlot, Inv, NameInv
  <1>4. isl' = <<>> /\ pos' = 0 /\ node' = None /\ todo' = <<>> /\ own' = None
    BY <1>1, <1>3 DEF reader
  <1>5. SlotInv'
    <2>1. \A f \in File : FileSlot(f)'
      BY <1>4 DEF FileSlot
    <2>2. TodoSlot'
      BY <1>4 DEF TodoSlot
    <2>3. pc' # "rest"
      BY <1>1
    <2> QED
      BY <1>4, <2>1, <2>2, <2>3 DEF SlotInv
  <1>6. AwaitInv'
    <2> SUFFICES ASSUME pc' # "out", NEW f \in File PROVE Awaited(f)'
      BY DEF AwaitInv
    <2>1. Len(tape') \in Nat
      BY <1>1 DEF archive, Inv, OutInv
    <2>2. Read' = 0
      BY <1>4, <2>1 DEF Read
    <2>3. Behind(f, Read)' = {}
      BY <2>2, BehindNone DEF Behind
    <2> QED
      BY <1>4, <2>3 DEF Awaited
  <1> QED
    BY <1>5, <1>6 DEF WaitInv

\* Every step leaves the links waiting for the data that is to come.
LEMMA WaitStep == Inv /\ (Own => CountInv) /\ WaitInv /\ [Next]_vars => WaitInv'
  <1> SUFFICES ASSUME Inv, Own => CountInv, WaitInv, [Next]_vars PROVE WaitInv'
    OBVIOUS
  <1>1. CASE UNCHANGED vars
    <2> USE <1>1 DEF vars, outVars, archive, inVars, reader
    <2>1. SlotInv'
      <3>1. \A f : FileSlot(f)' <=> FileSlot(f)
        BY DEF FileSlot
      <3>2. TodoSlot' <=> TodoSlot
        BY DEF TodoSlot
      <3> QED
        BY <3>1, <3>2 DEF WaitInv, SlotInv
    <2>2. AwaitInv'
      <3>1. \A f : Awaited(f)' <=> Awaited(f)
        BY DEF Awaited, Behind, Read
      <3> QED
        BY <3>1 DEF WaitInv, AwaitInv, Own
    <2> QED
      BY <2>1, <2>2 DEF WaitInv
  <1>2. CASE CopyOut \/ Start
    BY <1>2, WaitBegin
  <1>3. CASE Interrupt \/ Exit \/ TapeEnds
    <2>1. pc' = "exit"
      BY <1>3 DEF Interrupt, Exit, TapeEnds
    <2> QED
      BY <2>1 DEF WaitInv, SlotInv, AwaitInv
  <1>4. CASE Doinp /\ ~Exit /\ ~TapeEnds
    <2>1. svr4' = svr4
      BY <1>4, Reads DEF archive
    <2>2. CASE ~svr4
      BY <2>1, <2>2 DEF WaitInv, SlotInv, AwaitInv
    <2>3. CASE svr4
      BY <1>4, <2>3, Kinds, WaitTakeFile, WaitFlushLinks, WaitStoreLink, WaitFlushEmpty, WaitTrailer,
         WaitFlushRest, WaitNodeDone, WaitNewFile, WaitFile DEF Reading, Extracts
    <2> QED
      BY <2>2, <2>3
  <1> QED
    BY <1>1, <1>2, <1>3, <1>4 DEF Next

\* Where storelink() takes a link for the last one of its file and gives up waiting for data,
\* the file has none: for any archive that cpio -o wrote of files that it could read, and
\* whatever fails in cpio -i (storelink(), flushnode()).
THEOREM CpioAwaits == Spec => DataAwaited
  <1>1. Inv /\ (Own => CountInv) /\ WaitInv /\ [Next]_vars
        => [FlushEmpty /\ Own /\ failed = {} => FileOf[own'] \in Empty]_vars
    <2> SUFFICES ASSUME Inv, Own => CountInv, WaitInv, FlushEmpty, Own, failed = {}
                 PROVE  FileOf[own'] \in Empty
      OBVIOUS
    <2>1. own' = Header.name
      BY DEF FlushEmpty, FlushNode
    <2> QED
      BY <2>1, NotTheLast
  <1> QED
    BY InvInit, InvStep, CountFirst, CountStep, WaitFirst, WaitStep, <1>1, PTL DEF Spec, DataAwaited

-----------------------------------------------------------------------------
(* What the exit status tells *)

\* n is in the sequence s.
Among(n, s) == \E i \in 1..Len(s) : s[i] = n

\* Nothing is in the empty one.
LEMMA AmongNone == \A n : ~Among(n, <<>>)
  BY DEF Among

\* What is in a sequence is its first element or in the rest.
LEMMA AmongTail ==
    ASSUME NEW S, NEW s \in Seq(S), s # <<>>, NEW n
    PROVE  Among(n, s) <=> n = Head(s) \/ Among(n, Tail(s))
  <1>1. /\ Len(Tail(s)) = Len(s) - 1 /\ Len(s) \in Nat /\ Len(s) >= 1 /\ Head(s) = s[1]
        /\ \A i \in 1..Len(s) - 1 : Tail(s)[i] = s[i + 1]
    BY HeadTailProperties
  <1>2. ASSUME Among(n, s) PROVE n = Head(s) \/ Among(n, Tail(s))
    <2>1. PICK i \in 1..Len(s) : s[i] = n
      BY <1>2 DEF Among
    <2>2. CASE i = 1
      BY <1>1, <2>1, <2>2
    <2>3. CASE i # 1
      <3>1. i - 1 \in 1..Len(s) - 1 /\ (i - 1) + 1 = i
        BY <1>1, <2>3
      <3>2. Tail(s)[i - 1] = n
        BY <1>1, <2>1, <3>1
      <3> QED
        BY <1>1, <3>1, <3>2 DEF Among
    <2> QED
      BY <2>2, <2>3
  <1>3. ASSUME Among(n, Tail(s)) PROVE Among(n, s)
    <2>1. PICK i \in 1..Len(s) - 1 : Tail(s)[i] = n
      BY <1>1, <1>3 DEF Among
    <2>2. i + 1 \in 1..Len(s) /\ s[i + 1] = n
      BY <1>1, <2>1
    <2> QED
      BY <2>2 DEF Among
  <1>4. n = Head(s) => Among(n, s)
    <2>1. 1 \in 1..Len(s)
      BY <1>1
    <2> QED
      BY <1>1, <2>1 DEF Among
  <1> QED
    BY <1>2, <1>3, <1>4

\* Or the last one that was added.
LEMMA AmongAppend ==
    ASSUME NEW S, NEW s \in Seq(S), NEW x \in S, NEW n
    PROVE  Among(n, Append(s, x)) <=> n = x \/ Among(n, s)
  <1>1. /\ Len(Append(s, x)) = Len(s) + 1 /\ Len(s) \in Nat /\ Append(s, x)[Len(s) + 1] = x
        /\ \A i \in 1..Len(s) : Append(s, x)[i] = s[i]
    OBVIOUS
  <1>2. ASSUME Among(n, Append(s, x)) PROVE n = x \/ Among(n, s)
    <2>1. PICK i \in 1..Len(s) + 1 : Append(s, x)[i] = n
      BY <1>1, <1>2 DEF Among
    <2>2. CASE i = Len(s) + 1
      BY <1>1, <2>1, <2>2
    <2>3. CASE i # Len(s) + 1
      <3>1. i \in 1..Len(s)
        BY <1>1, <2>3
      <3> QED
        BY <1>1, <2>1, <3>1 DEF Among
    <2> QED
      BY <2>2, <2>3
  <1>3. n = x => Among(n, Append(s, x))
    <2>1. Len(s) + 1 \in 1..Len(s) + 1
      BY <1>1
    <2> QED
      BY <1>1, <2>1 DEF Among
  <1>4. Among(n, s) => Among(n, Append(s, x))
    <2>1. \A i \in 1..Len(s) : i \in 1..Len(s) + 1
      BY <1>1
    <2> QED
      BY <1>1, <2>1 DEF Among
  <1> QED
    BY <1>2, <1>3, <1>4

\* Nothing has failed, and cpio -i is at work.
Clean == Own /\ failed = {} /\ ~errcnt /\ pc \notin {"out", "exit"}

\* There is a name to be extracted.
Busy == IsLink \/ own # None

\* From "mkstemp" to "unlink" tgt is made anew.
Filling == Making \cup Replacing \cup {"unlink"}

\* The archive is complete before it is read, and read to its end.
EndInv == (pc # "out" => OutDone) /\ (pc = "rest" => pos > Len(tape))

\* The old formats have no links that wait.
OldInv == ~svr4 => todo = <<>> /\ node = None /\ \A f \in DOMAIN isl : isl[f].lnk = <<>>

\* f has been extracted under a name; and flushnode() is about to link others to it.
Named(f) == f \in DOMAIN isl /\ isl[f].name # None
Shares(f) == svr4 /\ node = f /\ f \in DOMAIN isl /\ isl[f].nlk > 0

\* The data of a file that has data is still to come, or has been written under another name.
DataInv ==
    Clean /\ Busy =>
        /\ file \notin Empty => size \/ (pc \in {"inpone", "link"} /\ Shares(file) /\ Named(file))
        /\ pc \in Extracting /\ Shares(file) => Named(file)

\* The links in i_lnk, the names that have been read, and those that are not waiting any more.
Held(n) == \E f \in DOMAIN isl : isl[f].nlk > 0 /\ Among(n, isl[f].lnk)
Came(n) == \E i \in 1..Len(tape) : i <= pos /\ tape[i].name = n
Waiting(n) == Held(n) \/ Among(n, todo) \/ own = n
Finished(n) == n \in wanted /\ Came(n) /\ ~Waiting(n)
Settled(n) == Finished(n) \/ \E f \in DOMAIN isl : isl[f].name = n

\* What has been extracted is complete, unless its data is just being written again.
SettledInv ==
    Clean => \A n \in Name : Settled(n) =>
                \/ Whole(n)
                \/ pc \in Filling /\ n = tgt
                \/ pc = "write" /\ dir[n] = dir[tgt] /\ FileOf[n] = file

\* tgt is complete when filein() is done with it.
FilledInv ==
    Clean =>
        /\ pc = "creat" /\ Exists(tgt) => Whole(tgt)
        /\ pc \in {"tunlink", "unlink"} => Whole(tgt)
        /\ pc \notin {"skip", "restore"}
        /\ pc = "write" => Exists(tgt) /\ ino[dir[tgt]].of = file /\ (size \/ Whole(tgt))

FillInv == EndInv /\ OldInv /\ DataInv /\ SettledInv /\ FilledInv

\* What is behind a clean state was clean.
LEMMA StaysClean ==
    ASSUME Next, Clean', pc # "out"
    PROVE  Clean /\ ~errcnt' /\ UNCHANGED <<archive, given>>
  <1>1. ~Start /\ ~CopyOut
    BY DEF Start, CopyOut
  <1>2. UNCHANGED <<archive, given>>
    BY <1>1, FlagStep, Reads DEF Next
  <1>3. ~errcnt
    BY FlagStep DEF Clean
  <1>4. pc # "exit"
    <2>1. ~Interrupt \/ pc # "exit"
      BY DEF Interrupt, Places
    <2>2. Doinp => pc # "exit"
      BY DEF Doinp, ReadHeader, TakeFile, FlushLinks,
         StoreLink, FlushEmpty, Trailer, FlushRest, NodeDone, Exit, At, Inpone, Filein, Unwanted,
         SkipNewer, NoDirectory, NewFile, MakeLink, InLink, Link, UnlinkTarget, LinkFails, Mkstemp,
         Keep,
         MkstempFails, CloseFails, PutEmpty, PutEmptyFails, SetOfile, SetTfile, RenameOld,
         RenameFails, Create, CreateFails, Write,
         WriteFails, Restore, RestoreFails, Forget, UnlinkTemp, TapeEnds, InData
    <2> QED
      BY <1>1, <2>1, <2>2 DEF Clean, Interrupt, Next
  <1> QED
    BY <1>2, <1>3, <1>4 DEF Clean, Own, archive

\* The links of slots that stay are held as before.
LEMMA HeldSame ==
    ASSUME \A g \in DOMAIN isl : g \in DOMAIN isl' /\ isl'[g].nlk = isl[g].nlk /\ isl'[g].lnk = isl[g].lnk,
           NEW n, Held(n)
    PROVE  Held(n)'
  BY DEF Held

\* One more name has been read.
LEMMA CameNext ==
    ASSUME Inv, ReadHeader, NEW n
    PROVE  Came(n)' <=> Came(n) \/ n = Header.name
  <1>1. /\ UNCHANGED archive /\ pos + 1 \in 1..Len(tape) /\ pos' = pos + 1
    BY ReadOne DEF ReadHeader
  <1>2. pos \in Nat /\ Len(tape) \in Nat
    BY DEF Inv, NameInv, OutInv
  <1>3. Came(n)' <=> \E i \in 1..Len(tape) : i <= pos + 1 /\ tape[i].name = n
    BY <1>1 DEF Came, archive
  <1>4. \A i \in 1..Len(tape) : i <= pos + 1 <=> i <= pos \/ i = pos + 1
    BY <1>2
  <1> QED
    BY <1>1, <1>3, <1>4 DEF Came, Header

\* The begin of flushnode() takes the links that are held.
LEMMA FlushHeld ==
    ASSUME IslInv, NEW f, NEW n, FlushNode(f, n)
    PROVE  /\ \A m : Held(m) => Held(m)' \/ Among(m, todo')
           /\ own' = n /\ DOMAIN isl' = DOMAIN isl
           /\ \A g \in DOMAIN isl : isl'[g].name = isl[g].name /\ isl'[g].nlk = isl[g].nlk
  <1>1. CASE f \in DOMAIN isl /\ isl[f].nlk > 0
    <2>1. todo' = isl[f].lnk /\ isl' = [isl EXCEPT ![f].lnk = <<>>] /\ own' = n
      BY <1>1 DEF FlushNode
    <2>2. isl[f] \in [nlk : 0..NLink[f], lnk : Seq(LinkOf(f)), name : LinkOf(f) \cup {None}]
      BY <1>1, SlotTypes
    <2>3. /\ DOMAIN isl' = DOMAIN isl
          /\ \A g \in DOMAIN isl : isl'[g].name = isl[g].name /\ isl'[g].nlk = isl[g].nlk
          /\ \A g \in DOMAIN isl : g # f => isl'[g] = isl[g]
      BY <1>1, <2>1, <2>2
    <2>4. ASSUME NEW m, Held(m) PROVE Held(m)' \/ Among(m, todo')
      <3>1. PICK g \in DOMAIN isl : isl[g].nlk > 0 /\ Among(m, isl[g].lnk)
        BY <2>4 DEF Held
      <3>2. CASE g = f
        BY <2>1, <3>1, <3>2
      <3>3. CASE g # f
        BY <2>3, <3>1, <3>3 DEF Held
      <3> QED
        BY <3>2, <3>3
    <2> QED
      BY <2>1, <2>3, <2>4
  <1>2. CASE ~(f \in DOMAIN isl /\ isl[f].nlk > 0)
    <2>1. isl' = isl /\ own' = n
      BY <1>2 DEF FlushNode
    <2> QED
      BY <2>1 DEF Held
  <1> QED
    BY <1>1, <1>2

\* storelink() holds one more.
LEMMA StoreHeld ==
    ASSUME Inv, StoreLink
    PROVE  /\ \A m : Held(m) \/ m = Header.name => Held(m)'
           /\ \A m \in Name : (\E g \in DOMAIN isl' : isl'[g].name = m) => \E g \in DOMAIN isl : isl[g].name = m
  <1>1. PICK n, f : n = Header.name /\ f = FileOf[n]
    OBVIOUS
  <1>2. ReadHeader /\ NLink[f] > 1 /\ f \in File /\ n \in LinkOf(f)
    BY <1>1, ReadOne DEF StoreLink, Waits
  <1>3. ASSUME NEW k \in Int, k > 0, NEW l \in Seq(LinkOf(f)), NEW x, isl' = NewSlot(f, k, Append(l, n), x),
               f \in DOMAIN isl /\ isl[f].nlk > 0 => l = isl[f].lnk /\ x = isl[f].name,
               ~(f \in DOMAIN isl /\ isl[f].nlk > 0) => x = None
        PROVE  /\ \A m : Held(m) \/ m = n => Held(m)'
               /\ \A m \in Name : (\E g \in DOMAIN isl' : isl'[g].name = m) => \E g \in DOMAIN isl : isl[g].name = m
    <2>1. /\ DOMAIN isl' = DOMAIN isl \cup {f} /\ \A g \in DOMAIN isl : g # f => isl'[g] = isl[g]
          /\ isl'[f].nlk = k /\ isl'[f].lnk = Append(l, n) /\ isl'[f].name = x
      BY <1>3 DEF NewSlot, Put
    <2>2. \A m : m = n \/ Among(m, l) => Among(m, Append(l, n))
      BY <1>2, AmongAppend
    <2>3. ASSUME NEW m, Held(m) \/ m = n PROVE Held(m)'
      <3>1. CASE m = n
        BY <1>3, <2>1, <2>2, <3>1 DEF Held
      <3>2. CASE Held(m)
        <4>1. PICK g \in DOMAIN isl : isl[g].nlk > 0 /\ Among(m, isl[g].lnk)
          BY <3>2 DEF Held
        <4>2. CASE g = f
          BY <1>3, <2>1, <2>2, <4>1, <4>2 DEF Held
        <4>3. CASE g # f
          BY <2>1, <4>1, <4>3 DEF Held
        <4> QED
          BY <4>2, <4>3
      <3> QED
        BY <2>3, <3>1, <3>2
    <2>4. None \notin Name
      BY CpioAssumption DEF CpioAssumption
    <2>5. ASSUME NEW m \in Name, NEW g \in DOMAIN isl', isl'[g].name = m PROVE \E h \in DOMAIN isl : isl[h].name = m
      <3>1. CASE g = f
        BY <1>3, <2>1, <2>4, <2>5, <3>1
      <3>2. CASE g # f
        BY <2>1, <2>5, <3>2
      <3> QED
        BY <3>1, <3>2
    <2> QED
      BY <2>3, <2>5
  <1>4. f \in DOMAIN isl => isl[f].lnk \in Seq(LinkOf(f)) /\ isl[f].nlk \in Nat
    BY SlotTypes DEF Inv, NameInv
  <1>5. NLink[f] \in Nat
    BY <1>2, CpioOutAssumption DEF CpioOutAssumption
  <1>6. CASE f \notin DOMAIN isl
    <2>1. PICK e \in Seq(LinkOf(f)) : Append(e, n) = <<n>>
      <3>1. <<>> \in Seq(LinkOf(f)) /\ Append(<<>>, n) = <<n>>
        OBVIOUS
      <3> QED
        BY <3>1, Zenon
    <2>2. isl' = NewSlot(f, NLink[f], Append(e, n), None)
      BY <1>1, <1>6, <2>1 DEF StoreLink
    <2>3. NLink[f] \in Int /\ NLink[f] > 0
      BY <1>2, <1>5
    <2> QED
      BY <1>1, <1>3, <1>6, <2>2, <2>3, Zenon
  <1>7. CASE f \in DOMAIN isl /\ isl[f].nlk = 0
    <2>1. isl' = NewSlot(f, NLink[f], Append(isl[f].lnk, n), None) /\ ~(isl[f].nlk > 0)
      BY <1>1, <1>7 DEF StoreLink
    <2> QED
      BY <1>1, <1>2, <1>3, <1>4, <1>5, <1>7, <2>1
  <1>8. CASE f \in DOMAIN isl /\ isl[f].nlk # 0
    <2>1. /\ isl[f].nlk > 2
          /\ isl' = NewSlot(f, isl[f].nlk - 1, Append(isl[f].lnk, n), isl[f].name)
      BY <1>1, <1>8 DEF StoreLink
    <2>2. isl[f].nlk - 1 \in Int /\ isl[f].nlk - 1 > 0 /\ isl[f].nlk > 0
      BY <1>4, <1>8, <2>1
    <2> QED
      BY <1>1, <1>3, <1>4, <1>8, <2>1, <2>2
  <1> QED
    BY <1>6, <1>7, <1>8

\* The end of flushnode() finds no link held of its inode.
LEMMA DoneHeld ==
    ASSUME Inv, WaitInv, OldInv, NodeDone
    PROVE  /\ \A m : Held(m) => Held(m)'
           /\ \A m \in Name : (\E g \in DOMAIN isl' : isl'[g].name = m) => \E g \in DOMAIN isl : isl[g].name = m
  <1>1. CASE node = None
    <2>1. isl' = isl
      BY <1>1 DEF NodeDone
    <2> QED
      BY <2>1 DEF Held
  <1>2. CASE node # None
    <2>1. svr4 /\ pc = "inpone"
      BY <1>2 DEF OldInv, NodeDone
    <2>2. node \in DOMAIN isl /\ isl[node].lnk = <<>>
      BY <1>2, <2>1 DEF WaitInv, SlotInv, TodoSlot
    <2>3. isl' = [isl EXCEPT ![node].nlk = 0, ![node].name = IF isl[node].nlk > 2 THEN @ ELSE None]
      BY <1>2 DEF NodeDone
    <2>4. isl[node] \in [nlk : 0..NLink[node], lnk : Seq(LinkOf(node)), name : LinkOf(node) \cup {None}]
      BY <2>2, SlotTypes DEF Inv, NameInv
    <2>5. /\ DOMAIN isl' = DOMAIN isl /\ \A g \in DOMAIN isl : g # node => isl'[g] = isl[g]
          /\ isl'[node].name \in {isl[node].name, None}
      BY <2>2, <2>3, <2>4
    <2>6. None \notin Name
      BY CpioAssumption DEF CpioAssumption
    <2>7. ASSUME NEW m, Held(m) PROVE Held(m)'
      <3>1. PICK g \in DOMAIN isl : isl[g].nlk > 0 /\ Among(m, isl[g].lnk)
        BY <2>7 DEF Held
      <3>2. g # node
        BY <2>2, <3>1, AmongNone
      <3> QED
        BY <2>5, <3>1, <3>2 DEF Held
    <2>8. ASSUME NEW m \in Name, NEW g \in DOMAIN isl', isl'[g].name = m PROVE \E h \in DOMAIN isl : isl[h].name = m
      BY <2>2, <2>5, <2>6, <2>8
    <2> QED
      BY <2>7, <2>8
  <1> QED
    BY <1>1, <1>2

\* The steps of doinp() but the last.
Steps == Reading /\ ~Exit /\ ~TapeEnds

\* What doinp() and flushnode() read waits for filein().
LEMMA ReadSettles ==
    ASSUME Inv, WaitInv, OldInv, Next, Clean', Steps, NEW m \in Name
    PROVE  (Finished(m)' => Finished(m)) /\ (Settled(m)' => Settled(m))
  <1>1. pc # "out"
    BY DEF Steps, Reading, ReadHeader, TakeFile, FlushLinks, StoreLink, FlushEmpty, Trailer, FlushRest, NodeDone
  <1>2. wanted' = wanted
    BY <1>1, StaysClean DEF given
  <1>3. IslInv
    BY DEF Inv, NameInv
  <1>4. ~NodeDone => todo = <<>> /\ own = None
    BY DEF Steps, Reading, ReadHeader, TakeFile, FlushLinks, StoreLink, FlushEmpty, Trailer, FlushRest, Inv, NameInv
  <1>5. ~NodeDone => ~Among(m, todo) /\ own # m
    BY <1>4, AmongNone, CpioAssumption DEF CpioAssumption
  <1> DEFINE named == \E g \in DOMAIN isl : isl[g].name = m
             new == Came(m)' /\ ~Came(m)
  <1>6. (new => Waiting(m)') /\ (Waiting(m) => Waiting(m)') /\ (named' => named)
    <2>1. CASE TakeFile
      <3>1. ReadHeader /\ own' = Header.name /\ UNCHANGED <<isl, todo>>
        BY <2>1 DEF TakeFile
      <3>2. new => own' = m
        BY <3>1, CameNext
      <3>3. ~NodeDone
        BY <2>1 DEF TakeFile, ReadHeader, NodeDone
      <3> QED
        BY <1>5, <3>1, <3>2, <3>3 DEF Waiting, Held
    <2>2. CASE FlushLinks \/ FlushEmpty
      <3>1. ReadHeader /\ FlushNode(FileOf[Header.name], Header.name)
        BY <2>2 DEF FlushLinks, FlushEmpty
      <3>2. new => own' = m
        BY <1>3, <3>1, CameNext, FlushHeld
      <3>3. ~NodeDone
        BY <3>1 DEF ReadHeader, NodeDone
      <3>4. Held(m) => Held(m)' \/ Among(m, todo')
        BY <1>3, <3>1, FlushHeld
      <3>5. named' => named
        BY <1>3, <3>1, FlushHeld
      <3> QED
        BY <1>5, <3>2, <3>3, <3>4, <3>5 DEF Waiting
    <2>3. CASE StoreLink
      <3>1. ReadHeader
        BY <2>3 DEF StoreLink
      <3>2. ~NodeDone
        BY <3>1 DEF ReadHeader, NodeDone
      <3>3. new => Held(m)'
        BY <2>3, <3>1, CameNext, StoreHeld
      <3>4. (Held(m) => Held(m)') /\ (named' => named)
        BY <2>3, StoreHeld
      <3> QED
        BY <1>5, <3>2, <3>3, <3>4 DEF Waiting
    <2>4. CASE Trailer
      <3>1. UNCHANGED <<archive, isl, todo, own>> /\ pos = Len(tape) /\ pos' = pos + 1
        BY <2>4 DEF Trailer, outVars
      <3>2. pos \in Nat
        BY <3>1 DEF Inv, NameInv, OutInv
      <3>3. \A i \in 1..Len(tape) : i <= pos + 1 <=> i <= pos
        BY <3>1, <3>2
      <3>4. ~new
        BY <3>1, <3>3 DEF Came, archive
      <3> QED
        BY <3>1, <3>4 DEF Waiting, Held
    <2>5. CASE \E f \in File : FlushRest(f)
      <3>1. PICK f : FlushNode(f, None) /\ UNCHANGED <<archive, pos>> /\ pc = "rest"
        BY <2>5 DEF FlushRest, outVars
      <3>2. ~NodeDone
        BY <3>1 DEF NodeDone
      <3>3. Held(m) => Held(m)' \/ Among(m, todo')
        BY <1>3, <3>1, FlushHeld
      <3>4. named' => named
        BY <1>3, <3>1, FlushHeld
      <3>5. ~new
        BY <3>1 DEF Came, archive
      <3> QED
        BY <1>5, <3>2, <3>3, <3>4, <3>5 DEF Waiting
    <2>6. CASE NodeDone
      <3>1. UNCHANGED <<archive, pos, todo, own>>
        BY <2>6 DEF NodeDone, outVars
      <3>2. ~new
        BY <3>1 DEF Came, archive
      <3>3. (Held(m) => Held(m)') /\ (named' => named)
        BY <2>6, DoneHeld
      <3> QED
        BY <3>1, <3>2, <3>3 DEF Waiting
    <2> QED
      BY <2>1, <2>2, <2>3, <2>4, <2>5, <2>6 DEF Steps, Reading
  <1>7. Finished(m)' => Finished(m)
    BY <1>2, <1>6 DEF Finished
  <1> QED
    BY <1>6, <1>7 DEF Settled

\* What is being extracted is waiting.
LEMMA TgtWaits == ASSUME Inv, Busy PROVE Waiting(tgt) /\ tgt \in Name /\ ~Finished(tgt)
  <1>1. tgt \in Name
    BY TgtType DEF Inv, NameInv, Busy
  <1>2. CASE IsLink
    <2>1. todo \in Seq(Filled) /\ todo # <<>> /\ tgt = Head(todo)
      BY <1>2 DEF Inv, NameInv, IsLink, tgt
    <2>2. Among(tgt, todo)
      BY <2>1, AmongTail
    <2> QED
      BY <1>1, <2>2 DEF Waiting, Finished
  <1>3. CASE ~IsLink
    <2>1. own = tgt
      BY <1>3 DEF tgt, Busy
    <2> QED
      BY <1>1, <2>1 DEF Waiting, Finished
  <1> QED
    BY <1>2, <1>3

\* filein() has a name.
LEMMA TgtThere == ASSUME Inv, pc \in Extracting \/ (Extracts /\ pc = "inpone") PROVE Busy
  <1>1. CASE pc \in Extracting
    <2>1. tgt \in Name
      BY <1>1 DEF Inv, NameInv
    <2> QED
      BY <2>1, CpioAssumption DEF Busy, tgt, CpioAssumption
  <1>2. CASE Extracts /\ pc = "inpone"
    <2>1. Inpone
      BY <1>2 DEF Extracts, Choosing, Unwanted, SkipNewer, NoDirectory, NewFile, MakeLink, Filein,
             Linking, Link, UnlinkTarget, LinkFails, InLink, Keeping, Writing, Ending, Mkstemp,
             MkstempFails, CloseFails, PutEmpty, PutEmptyFails,
             SetOfile, SetTfile, RenameOld, RenameFails, Create, CreateFails, Write, WriteFails,
             Restore,
             RestoreFails, Forget, UnlinkTemp, Keep, At
    <2> QED
      BY <2>1 DEF Inpone, Busy
  <1> QED
    BY <1>1, <1>2

\* The names of the slots after inpone() has chosen to make a new file.
LEMMA NewFileNames ==
    ASSUME Inv, NewFile
    PROVE  /\ DOMAIN isl \subseteq DOMAIN isl' /\ \A g \in DOMAIN isl' : g # file => g \in DOMAIN isl /\ isl'[g] = isl[g]
           /\ isl' = isl \/ (NLink[file] # 1 /\ ~(svr4 /\ Known) /\ file \in DOMAIN isl' /\ isl'[file].name = tgt)
           /\ ~svr4 /\ isl' # isl => isl'[file].nlk = NLink[file] /\ isl'[file].lnk = <<>>
           /\ NLink[file] # 1 /\ ~(svr4 /\ Known) => file \in DOMAIN isl' /\ isl'[file].name = tgt
           /\ NLink[file] # 1 /\ ~svr4 => isl'[file].nlk = NLink[file]
  <1>1. isl' = Recorded
    BY DEF NewFile
  <1>2. CASE NLink[file] = 1 \/ (svr4 /\ Known)
    BY <1>1, <1>2 DEF Recorded
  <1>3. CASE ~(NLink[file] = 1 \/ (svr4 /\ Known))
    BY <1>1, <1>3 DEF Recorded, NewSlot, Put
  <1> QED
    BY <1>2, <1>3

\* inpone() counts down the links of the old formats.
LEMMA MakeLinkSlots ==
    ASSUME Inv, MakeLink, ~svr4
    PROVE  /\ file \in DOMAIN isl /\ isl[file].name # None /\ isl[file].nlk > 1 /\ DOMAIN isl' = DOMAIN isl
           /\ \A g \in DOMAIN isl : g # file => isl'[g] = isl[g]
           /\ isl'[file].nlk = isl[file].nlk - 1
           /\ isl'[file].name = isl[file].name /\ isl'[file].lnk = isl[file].lnk
  <1>1. /\ file \in DOMAIN isl /\ isl[file].name # None /\ isl[file].nlk > 1
        /\ isl' = [isl EXCEPT ![file].nlk = @ - 1]
    BY DEF MakeLink, Links, Known
  <1>2. isl[file] \in [nlk : 0..NLink[file], lnk : Seq(LinkOf(file)), name : LinkOf(file) \cup {None}]
    BY <1>1, SlotTypes DEF Inv, NameInv
  <1> QED
    BY <1>1, <1>2

\* Only tgt comes to an end.
LEMMA FileSettles ==
    ASSUME Inv, WaitInv, OldInv, Extracts, NEW m \in Name
    PROVE  /\ Finished(m)' => Finished(m) \/ (m = tgt /\ ~UNCHANGED <<todo, own>>)
           /\ (\E g \in DOMAIN isl' : isl'[g].name = m) => (\E g \in DOMAIN isl : isl[g].name = m) \/ (NewFile /\ m = tgt)
           /\ \A g \in DOMAIN isl : g \in DOMAIN isl'
  <1>1. /\ UNCHANGED <<archive, given, pos, node>> /\ Onward
        /\ NewFile \/ (MakeLink /\ ~svr4) \/ isl' = isl
    BY FileSteps
  <1>2. Held(m) => Held(m)'
    <2>1. CASE svr4
      <3>1. NewFile \/ isl' = isl
        BY <1>1, <2>1
      <3>2. SameSlots
        BY <2>1, <3>1, NewFileSlots DEF SameSlots
      <3> QED
        BY <3>2, HeldSame DEF SameSlots
    <2>2. CASE ~svr4
      <3>1. \A g \in DOMAIN isl : isl[g].lnk = <<>>
        BY <2>2 DEF OldInv
      <3> QED
        BY <3>1, AmongNone DEF Held
    <2> QED
      BY <2>1, <2>2
  <1>3. Came(m)' <=> Came(m)
    BY <1>1 DEF Came, archive
  <1>4. Waiting(m) => Waiting(m)' \/ (m = tgt /\ ~UNCHANGED <<todo, own>>)
    <2>1. CASE UNCHANGED <<todo, own>>
      BY <1>2, <2>1 DEF Waiting
    <2>2. CASE todo # <<>> /\ todo' = Tail(todo) /\ own' = own
      <3>1. todo \in Seq(Filled) /\ tgt = Head(todo)
        BY <2>2 DEF Inv, NameInv, tgt, IsLink
      <3>2. Among(m, todo) <=> m = tgt \/ Among(m, todo')
        BY <2>2, <3>1, AmongTail
      <3>3. todo' # todo
        <4>1. Len(Tail(todo)) = Len(todo) - 1 /\ Len(todo) \in Nat
          BY <2>2, <3>1, HeadTailProperties
        <4>2. \A k \in Nat : k - 1 # k
          OBVIOUS
        <4> QED
          BY <2>2, <4>1, <4>2
      <3> QED
        BY <1>2, <2>2, <3>2, <3>3 DEF Waiting
    <2>3. CASE todo = <<>> /\ todo' = todo /\ own' = None /\ own' # own
      <3>1. tgt = own
        BY <2>3 DEF tgt, IsLink
      <3> QED
        BY <1>2, <2>3, <3>1 DEF Waiting
    <2> QED
      BY <1>1, <2>1, <2>2, <2>3 DEF Onward
  <1>5. Finished(m)' => Finished(m) \/ (m = tgt /\ ~UNCHANGED <<todo, own>>)
    BY <1>1, <1>3, <1>4 DEF Finished, given
  <1>6. (\E g \in DOMAIN isl' : isl'[g].name = m) => (\E g \in DOMAIN isl : isl[g].name = m) \/ (NewFile /\ m = tgt)
    <2>1. CASE NewFile
      BY <2>1, NewFileNames
    <2>2. CASE MakeLink /\ ~svr4
      BY <2>2, MakeLinkSlots
    <2> QED
      BY <1>1, <2>1, <2>2
  <1>7. \A g \in DOMAIN isl : g \in DOMAIN isl'
    BY <1>1, NewFileNames, MakeLinkSlots
  <1> QED
    BY <1>5, <1>6, <1>7

\* The old formats have no such links after any step.
LEMMA OldStep == ASSUME Inv, WaitInv, OldInv, [Next]_vars PROVE OldInv'
  <1>1. svr4' = svr4
    <2>1. UNCHANGED archive \/ CopyOut \/ UNCHANGED vars
      BY Reads DEF Next
    <2> QED
      BY <2>1 DEF vars, outVars, archive, CopyOut, OutNext, LstatFails, OutFile, KeepLink,
                  LastLink, LFlush,
           Listed, Linked
  <1> SUFFICES ASSUME ~svr4 PROVE OldInv'
    BY <1>1 DEF OldInv
  <1>2. todo = <<>> /\ node = None /\ \A f \in DOMAIN isl : isl[f].lnk = <<>>
    BY DEF OldInv
  <1>3. CASE UNCHANGED <<todo, node, isl>>
    BY <1>2, <1>3 DEF OldInv
  <1>4. CASE UNCHANGED vars \/ CopyOut \/ Start \/ Interrupt
    BY <1>3, <1>4 DEF vars, inVars, reader, CopyOut, Start, Interrupt
  <1>5. CASE Reading
    <2>1. ~FlushLinks /\ ~StoreLink /\ ~FlushEmpty /\ \A f : ~FlushRest(f)
      BY DEF FlushLinks, StoreLink, FlushEmpty, FlushRest, Waits
    <2>2. UNCHANGED <<todo, isl>> /\ node' = node
      BY <1>2, <1>5, <2>1 DEF Reading, TakeFile, Trailer, NodeDone, Exit, TapeEnds, reader
    <2> QED
      BY <1>3, <2>2
  <1>6. CASE Extracts
    <2>1. node' = node /\ Onward /\ (NewFile \/ (MakeLink /\ ~svr4) \/ isl' = isl)
      BY <1>6, FileSteps
    <2>2. todo' = <<>>
      BY <1>2, <2>1 DEF Onward
    <2>3. \A f \in DOMAIN isl' : isl'[f].lnk = <<>>
      <3>1. CASE NewFile
        BY <1>2, <3>1, NewFileNames
      <3>2. CASE MakeLink
        BY <1>2, <3>2, MakeLinkSlots
      <3> QED
        BY <1>2, <2>1, <3>1, <3>2
    <2> QED
      BY <1>2, <2>1, <2>2, <2>3 DEF OldInv
  <1> QED
    BY <1>4, <1>5, <1>6, Kinds DEF Next, Extracts

\* The archive stays complete, and nothing is left of it behind its end.
LEMMA EndStep == ASSUME Inv, EndInv, [Next]_vars PROVE EndInv'
  <1>1. CASE UNCHANGED vars
    BY <1>1 DEF EndInv, vars, inVars, reader, outVars, archive, OutDone, Unfinished
  <1>2. CASE CopyOut
    BY <1>2 DEF EndInv, CopyOut, inVars
  <1>3. CASE Start
    BY <1>3 DEF EndInv, Start, outVars, archive, OutDone, Unfinished
  <1>4. CASE Doinp \/ Interrupt
    <2>1. UNCHANGED archive
      BY <1>4, Reads
    <2>2. CASE Interrupt
      BY <2>1, <2>2 DEF EndInv, OutDone, Unfinished, archive, Interrupt, Places
    <2>3. CASE Reading
      <3>1. pc # "out"
        BY <2>3 DEF Reading, TakeFile, FlushLinks, StoreLink, FlushEmpty, Trailer, NodeDone, Exit, TapeEnds,
                    InData, FlushRest, ReadHeader
      <3>2. pc' = "rest" => pos' > Len(tape)
        <4>1. CASE Trailer
          <5>1. pos \in Nat
            BY DEF Inv, NameInv, OutInv
          <5> QED
            BY <4>1, <5>1 DEF Trailer
        <4>2. CASE ~Trailer
          BY <2>3, <4>2 DEF Reading, TakeFile, FlushLinks, StoreLink, FlushEmpty, NodeDone, Exit, TapeEnds,
              FlushRest, ReadHeader, FlushNode
        <4> QED
          BY <4>1, <4>2
      <3> QED
        BY <2>1, <3>1, <3>2 DEF EndInv, OutDone, Unfinished, archive
    <2>4. CASE Extracts
      BY <2>1, <2>4, FileSteps DEF EndInv, OutDone, Unfinished, archive, Extracting
    <2> QED
      BY <1>4, <2>2, <2>3, <2>4, Kinds DEF Extracts
  <1> QED
    BY <1>1, <1>2, <1>3, <1>4 DEF Next

\* What flushnode() begins with is of its file.
LEMMA FlushFile ==
    ASSUME IslInv, NEW f, NEW n \in LinkOf(f) \cup {None}, FlushNode(f, n), Busy'
    PROVE  file' = f
  <1>1. CASE f \in DOMAIN isl /\ isl[f].nlk > 0 /\ todo' # <<>>
    <2>1. todo' = isl[f].lnk /\ isl[f].lnk \in Seq(LinkOf(f))
      BY <1>1, SlotTypes DEF FlushNode
    <2>2. Head(todo') \in LinkOf(f)
      BY <1>1, <2>1
    <2> QED
      BY <1>1, <2>2 DEF file, tgt, IsLink, LinkOf
  <1>2. CASE todo' = <<>>
    <2>1. own' = n /\ own' # None
      BY <1>2 DEF FlushNode, Busy, IsLink
    <2> QED
      BY <1>2, <2>1 DEF file, tgt, IsLink, LinkOf
  <1>3. ~(f \in DOMAIN isl /\ isl[f].nlk > 0) => todo' = <<>>
    BY DEF FlushNode
  <1> QED
    BY <1>1, <1>2, <1>3

\* The next link is one of the same file, which flushnode() has a slot of.
LEMMA NextFile ==
    ASSUME Inv, WaitInv, OldInv, Extracts, Busy', ~UNCHANGED <<todo, own>>
    PROVE  svr4 /\ IsLink /\ UNCHANGED <<file, isl>> /\ Shares(file) /\ Shares(file)'
  <1>1. /\ UNCHANGED <<archive, given, pos, node>> /\ Onward /\ pc' # "exit" /\ pc # "exit"
        /\ NewFile \/ (MakeLink /\ ~svr4) \/ isl' = isl
    BY FileSteps DEF Extracting
  <1>2. todo # <<>> /\ todo' = Tail(todo) /\ own' = own
    BY <1>1 DEF Onward, Busy, IsLink
  <1>3. svr4 /\ ~NewFile /\ isl' = isl
    <2>1. svr4
      BY <1>2 DEF OldInv
    <2>2. ~NewFile
      BY DEF NewFile, Goto
    <2> QED
      BY <1>1, <2>1, <2>2
  <1>4. WaitInv'
    BY <1>3, WaitFile
  <1>5. /\ node # None /\ isl[node].nlk > 0 /\ \A i \in 1..Len(todo) : FileOf[todo[i]] = node
        /\ node \in DOMAIN isl
    BY <1>1, <1>2, <1>3 DEF WaitInv, SlotInv, TodoSlot
  <1>6. file = node
    <2>1. todo \in Seq(Filled)
      BY DEF Inv, NameInv
    <2>2. 1 \in 1..Len(todo) /\ Head(todo) = todo[1]
      BY <1>2, <2>1
    <2> QED
      BY <1>2, <1>5, <2>2 DEF file, tgt, IsLink
  <1>7. file' = node
    <2>1. CASE todo' # <<>>
      <3>1. todo \in Seq(Filled)
        BY DEF Inv, NameInv
      <3>2. todo' \in Seq(Filled)
        BY <1>2, <3>1
      <3>3. 1 \in 1..Len(todo') /\ Head(todo') = todo'[1]
        BY <2>1, <3>2
      <3>4. FileOf[todo'[1]] = node'
        BY <1>1, <1>3, <1>4, <2>1, <3>3 DEF WaitInv, SlotInv, TodoSlot, archive
      <3> QED
        BY <1>1, <2>1, <3>3, <3>4 DEF file, tgt, IsLink
    <2>2. CASE todo' = <<>>
      <3>1. own # None
        BY <1>2, <2>2 DEF Busy, IsLink
      <3>2. FileOf[own] = node
        BY <1>1, <1>3, <1>5, <3>1 DEF WaitInv, SlotInv, TodoSlot
      <3> QED
        BY <1>2, <2>2, <3>2 DEF file, tgt, IsLink
    <2> QED
      BY <2>1, <2>2
  <1> QED
    BY <1>1, <1>2, <1>3, <1>5, <1>6, <1>7 DEF Shares, IsLink, archive

\* Before filein() the data is in the archive.
LEMMA DataRead == ASSUME Inv, CountInv, WaitInv, OldInv, Next, Clean', Steps PROVE DataInv'
  <1>1. pc # "out"
    BY DEF Steps, Reading, ReadHeader, TakeFile, FlushLinks, StoreLink, FlushEmpty, Trailer, FlushRest, NodeDone
  <1>2. Clean /\ UNCHANGED <<archive, given>>
    BY <1>1, StaysClean
  <1>3. IslInv
    BY DEF Inv, NameInv
  <1> SUFFICES ASSUME Busy' PROVE (file' \notin Empty => size') /\ pc' \notin Extracting
    BY DEF DataInv
  <1>4. CASE TakeFile
    <2>1. ReadHeader /\ ~Waits(Header.name) /\ own' = Header.name /\ pc' = "inpone" /\ todo' = todo
      BY <1>4 DEF TakeFile
    <2>2. pos + 1 \in 1..Len(tape) /\ pc = "next" /\ size' = Header.data
      BY <2>1, ReadOne DEF ReadHeader
    <2>3. Header.data <=> FileOf[Header.name] \notin Empty
      BY <2>1, <2>2 DEF CountInv, PlainInv, Header
    <2>4. todo = <<>>
      BY <2>2 DEF Inv, NameInv
    <2>5. file' = FileOf[Header.name]
      BY <2>1, <2>4 DEF file, tgt, IsLink
    <2> QED
      BY <2>1, <2>2, <2>3, <2>5 DEF Extracting
  <1>5. CASE FlushLinks \/ FlushEmpty
    <2>1. /\ ReadHeader /\ FlushNode(FileOf[Header.name], Header.name)
      BY <1>5 DEF FlushLinks, FlushEmpty
    <2>2. pc' = "inpone" /\ size' = Header.data /\ Header.name \in LinkOf(FileOf[Header.name])
      BY <2>1, ReadOne DEF FlushNode, ReadHeader
    <2>3. file' = FileOf[Header.name]
      BY <1>3, <2>1, <2>2, FlushFile
    <2>4. FlushEmpty => file' \in Empty
      BY <1>2, <2>3, NotTheLast DEF Clean
    <2>5. FlushLinks => size'
      BY <2>2 DEF FlushLinks
    <2> QED
      BY <1>5, <2>2, <2>4, <2>5 DEF Extracting
  <1>6. CASE StoreLink \/ Trailer \/ NodeDone
    <2>1. todo' = <<>> /\ own' = None
      BY <1>6 DEF StoreLink, ReadHeader, Trailer, NodeDone, Inv, NameInv
    <2> QED
      BY <2>1 DEF Busy, IsLink
  <1>7. CASE \E f \in File : FlushRest(f)
    <2>1. PICK f \in File : FlushRest(f)
      BY <1>7
    <2>2. FlushNode(f, None) /\ pc' = "inpone"
      BY <2>1 DEF FlushRest, FlushNode
    <2>3. file' = f
      BY <1>3, <2>2, FlushFile
    <2>4. f \in Empty
      BY <1>2, <2>1, NothingToCome DEF Clean
    <2> QED
      BY <2>2, <2>3, <2>4 DEF Extracting
  <1> QED
    BY <1>4, <1>5, <1>6, <1>7 DEF Steps, Reading

\* When filein() is done with a name its file is known; and it has been written.
LEMMA DataFile == ASSUME Inv, WaitInv, OldInv, DataInv, Next, Clean', Extracts PROVE DataInv'
  <1>1. /\ UNCHANGED <<archive, given, pos, node>> /\ Onward
        /\ NewFile \/ (MakeLink /\ ~svr4) \/ isl' = isl
        /\ pc \in {"inpone"} \cup Extracting
    BY FileSteps
  <1>2. Clean /\ ~errcnt'
    BY <1>1, StaysClean DEF Extracting
  <1>3. Busy
    BY <1>1, TgtThere
  <1>4. /\ file \notin Empty => size \/ (pc \in {"inpone", "link"} /\ Shares(file) /\ Named(file))
        /\ pc \in Extracting /\ Shares(file) => Named(file)
    BY <1>2, <1>3 DEF DataInv
  <1> SUFFICES ASSUME Busy'
               PROVE  /\ file' \notin Empty => size' \/ (pc' \in {"inpone", "link"} /\ Shares(file)' /\ Named(file)')
                      /\ pc' \in Extracting /\ Shares(file)' => Named(file)'
    BY DEF DataInv
  <1>5. CASE ~UNCHANGED <<todo, own>>
    <2>1. svr4 /\ IsLink /\ UNCHANGED <<file, isl>> /\ Shares(file) /\ Shares(file)'
      BY <1>5, NextFile
    <2>2. Named(file)' <=> Named(file)
      BY <2>1 DEF Named
    <2>3. CASE Unwanted
      <3>1. size' = size /\ pc' = "inpone" /\ pc = "inpone"
        BY <2>1, <2>3 DEF Unwanted, Inpone, At, Over, NameInv, Inv
      <3> QED
        BY <1>4, <2>1, <2>2, <3>1 DEF Extracting
    <2>4. CASE Link
      <3>1. pc = "link" /\ pc' = "inpone" /\ ~size
        BY <1>5, <2>4 DEF Link, InLink, At, Goto, Leave, Over
      <3> QED
        BY <1>4, <2>1, <2>2, <3>1 DEF Extracting
    <2>5. CASE Restore \/ Forget \/ UnlinkTemp \/ PutEmpty
      <3>1. pc \in Extracting /\ pc' = "inpone"
        BY <1>5, <2>5 DEF Restore, Forget, UnlinkTemp, PutEmpty, Keep, At, Goto, Leave, Over, Extracting
      <3> QED
        BY <1>4, <2>1, <2>2, <3>1
    <2>6. CASE \/ SkipNewer \/ NoDirectory \/ LinkFails \/ MkstempFails \/ CloseFails \/ PutEmptyFails
               \/ RenameFails \/ RestoreFails
      BY <1>2, <2>6 DEF SkipNewer, NoDirectory, LinkFails, MkstempFails, CloseFails, PutEmptyFails,
                        RenameFails, RestoreFails, Error
    <2>7. CASE NewFile \/ MakeLink \/ UnlinkTarget \/ Mkstemp \/ SetOfile \/ SetTfile \/ RenameOld \/ Writing
      BY <1>5, <2>7 DEF NewFile, MakeLink, UnlinkTarget, Mkstemp, SetOfile, SetTfile, RenameOld, Writing,
                        Create, CreateFails, Write, WriteFails, Goto
    <2> QED
      BY <2>3, <2>4, <2>5, <2>6, <2>7 DEF Extracts, Choosing, Linking, Keeping, Ending
  <1>6. CASE UNCHANGED <<todo, own>>
    <2>1. tgt' = tgt /\ file' = file
      BY <1>6, SameTgt
    <2>2. CASE NewFile
      <3>1. /\ pc = "inpone" /\ pc' \in {"creat", "mkstemp"} /\ size' = size /\ ~Links
        BY <2>2 DEF NewFile, Filein, Inpone, At, Goto
      <3>2. ASSUME Shares(file) PROVE NLink[file] > 1 /\ NLink[file] # 1
        <4>1. file \in DOMAIN isl /\ svr4
          BY <3>2 DEF Shares
        <4>2. FileSlot(file)
          <5>1. file \in File
            BY <4>1, SlotTypes DEF Inv, NameInv
          <5> QED
            BY <3>1, <4>1, <5>1 DEF WaitInv, SlotInv
        <4>3. NLink[file] \in Nat
          BY <4>1, SlotTypes DEF Inv, NameInv
        <4> QED
          BY <4>1, <4>2, <4>3 DEF FileSlot
      <3>3. ~(Shares(file) /\ Named(file))
        BY <3>1, <3>2 DEF Links, Known, Shares, Named
      <3>4. file \notin Empty => size'
        BY <1>4, <3>1, <3>3
      <3>5. Shares(file)' => Shares(file)
        <4> HAVE Shares(file)'
        <4>1. svr4 /\ node = file /\ file \in DOMAIN isl' /\ isl'[file].nlk > 0
          BY <1>1, <2>1 DEF Shares, archive
        <4>2. SameSlots
          BY <2>2, <4>1, NewFileSlots
        <4>3. file \in DOMAIN isl
          <5>1. file \notin DOMAIN isl => isl'[file].nlk = 0
            BY <4>1, <4>2 DEF SameSlots
          <5> QED
            BY <4>1, <5>1
        <4> QED
          BY <4>1, <4>2, <4>3 DEF Shares, SameSlots
      <3>6. Shares(file) => Named(file)'
        <4> HAVE Shares(file)
        <4>1. tgt # None
          BY <1>3, TgtWaits, CpioAssumption DEF CpioAssumption
        <4>2. CASE Known
          <5>1. isl' = isl
            BY <2>2, <4>2 DEF Shares, NewFile, Recorded
          <5> QED
            BY <2>1, <4>2, <5>1 DEF Known, Named
        <4>3. CASE ~Known
          BY <2>1, <2>2, <3>2, <4>1, <4>3, NewFileNames DEF Named
        <4> QED
          BY <4>2, <4>3
      <3> QED
        BY <2>1, <3>4, <3>5, <3>6
    <2>3. CASE MakeLink
      <3>1. pc = "inpone" /\ pc' = "link" /\ size' = size /\ Known
        BY <2>3 DEF MakeLink, Filein, Inpone, At, Goto, Links
      <3>2. CASE svr4
        <4>1. isl' = isl
          BY <2>3, <3>2 DEF MakeLink
        <4>2. (Shares(file)' <=> Shares(file)) /\ (Named(file)' <=> Named(file)) /\ Named(file)
          BY <1>1, <2>1, <3>1, <4>1 DEF Shares, Named, archive, Known
        <4> QED
          BY <1>4, <2>1, <3>1, <4>2
      <3>3. CASE ~svr4
        BY <1>1, <1>4, <2>1, <3>1, <3>3 DEF Shares, archive
      <3> QED
        BY <3>2, <3>3
    <2>4. CASE ~NewFile /\ ~MakeLink
      <3>1. isl' = isl
        BY <1>1, <2>4
      <3>2. (Shares(file)' <=> Shares(file)) /\ (Named(file)' <=> Named(file))
        BY <1>1, <2>1, <3>1 DEF Shares, Named, archive
      <3>3. CASE (\E p \in Extracting : Goto(p)) /\ pc \in Extracting
        <4>1. size' = size /\ pc' \in Extracting
          BY <3>3 DEF Goto
        <4>2. pc' \in {"inpone", "link"} \/ (file \notin Empty => size)
          <5>1. CASE pc = "link" /\ pc' # "link"
            <6>0. Linking
              BY <5>1, Zenon DEF Extracts, Choosing, Linking, Keeping, Writing, Ending, Unwanted, SkipNewer,
                 NoDirectory, NewFile, MakeLink, Filein, Inpone, Keep, At,
                 Mkstemp, MkstempFails, CloseFails, PutEmpty, PutEmptyFails, SetOfile, SetTfile,
                 RenameOld,
                 RenameFails, Create, CreateFails, Write, WriteFails, Restore, RestoreFails, Forget,
                 UnlinkTemp
            <6>1. Link
              BY <4>1, <5>1, <6>0 DEF Linking, UnlinkTarget, LinkFails, Leave, Over, Goto, Extracting
            <6>2. ~(svr4 /\ ~size)
              BY <4>1, <5>1, <6>1 DEF Link, Leave, Over, Extracting
            <6> QED
              BY <1>4, <6>2 DEF Shares
          <5>2. CASE pc # "link"
            BY <1>4, <3>3, <5>2 DEF Extracting
          <5> QED
            BY <4>1, <5>1, <5>2
        <4>3. pc' \in {"inpone", "link"} => pc = "link"
          BY <1>1, <1>6, <2>4, <3>3, <4>1 DEF Extracts, Choosing, Linking, Keeping, Writing, Ending,
             Unwanted, SkipNewer, NoDirectory,
             Filein, Inpone, InLink, Link, UnlinkTarget, LinkFails, Keep, At, Goto, Leave, Over,
             Extracting,
             Mkstemp, MkstempFails, CloseFails, PutEmpty, PutEmptyFails, SetOfile, SetTfile, RenameOld,
             RenameFails, Create, CreateFails, Write, WriteFails, Restore, RestoreFails, Forget,
             UnlinkTemp
        <4> QED
          BY <1>4, <2>1, <3>2, <3>3, <4>1, <4>2, <4>3
      <3>4. CASE ~((\E p \in Extracting : Goto(p)) /\ pc \in Extracting)
        <4>1. (\E o : Over(o))
          BY <1>1, <2>4, <3>4, Zenon DEF Extracts, Choosing, Linking, Keeping, Writing, Ending, Unwanted, SkipNewer, NoDirectory,
             Filein, Inpone, InLink, Link, UnlinkTarget, LinkFails, Keep, At, Leave, Extracting,
             Mkstemp, MkstempFails, CloseFails, PutEmpty, PutEmptyFails, SetOfile, SetTfile, RenameOld,
             RenameFails, Create, CreateFails, Write, WriteFails, Restore, RestoreFails, Forget,
             UnlinkTemp
        <4>2. CASE IsLink
          <5>1. todo' = Tail(todo) /\ todo # <<>> /\ todo \in Seq(Filled)
            BY <4>1, <4>2 DEF Over, IsLink, Inv, NameInv
          <5>2. Len(Tail(todo)) = Len(todo) - 1 /\ Len(todo) \in Nat
            BY <5>1, HeadTailProperties
          <5>3. \A k \in Nat : k - 1 # k
            OBVIOUS
          <5> QED
            BY <1>6, <5>1, <5>2, <5>3
        <4>3. CASE ~IsLink
          BY <1>3, <1>6, <4>1, <4>3 DEF Over, Busy
        <4> QED
          BY <4>2, <4>3
      <3> QED
        BY <3>3, <3>4
    <2> QED
      BY <2>2, <2>3, <2>4
  <1> QED
    BY <1>5, <1>6

\* A complete file that is left alone stays complete.
LEMMA WholeStays ==
    ASSUME NEW n, Whole(n), dir'[n] = dir[n], ino'[dir[n]] = ino[dir[n]] PROVE Whole(n)'
  BY DEF Whole, Exists, Made

\* Reading leaves the target alone.
LEMMA SettledRead ==
    ASSUME Inv, WaitInv, OldInv, SettledInv, Next, Clean', Steps PROVE SettledInv' /\ FilledInv'
  <1>1. /\ pc \in {"next", "rest", "inpone"} /\ pc' \in {"next", "rest", "inpone"} /\ UNCHANGED tree
    BY DEF Steps, Reading, ReadHeader, TakeFile, FlushLinks, StoreLink, FlushEmpty, Trailer, FlushRest, NodeDone, FlushNode
  <1>2. Clean
    BY <1>1, StaysClean
  <1>3. FilledInv'
    BY <1>1 DEF FilledInv
  <1>4. ASSUME NEW n \in Name, Settled(n)' PROVE Whole(n)'
    <2>1. Settled(n)
      BY <1>4, ReadSettles
    <2>2. Whole(n)
      BY <1>1, <1>2, <2>1 DEF SettledInv, Filling, Making, Replacing
    <2> QED
      BY <1>1, <2>2, WholeStays DEF tree
  <1> QED
    BY <1>3, <1>4 DEF SettledInv

\* Where filein() is, and what it finds.
Found ==
    /\ Inv /\ WaitInv /\ OldInv /\ DataInv /\ SettledInv /\ FilledInv /\ Next /\ Clean' /\ Extracts

\* The facts that every step of filein() needs.
LEMMA WhatIsFound ==
    ASSUME Found
    PROVE  /\ Clean /\ ~errcnt' /\ Busy /\ tgt \in Name /\ ~Finished(tgt)
           /\ UNCHANGED <<archive, given, pos, node>> /\ pc \in {"inpone"} \cup Extracting
           /\ file \notin Empty => size \/ (pc \in {"inpone", "link"} /\ Shares(file) /\ Named(file))
           /\ \A n \in Name : /\ Finished(n)' => Finished(n) \/ (n = tgt /\ ~UNCHANGED <<todo, own>>)
                              /\ Settled(n)' => Settled(n) \/ (n = tgt /\ (~UNCHANGED <<todo, own>> \/ NewFile))
           /\ \A n \in Name : Settled(n) => \/ Whole(n)
                                            \/ pc \in Filling /\ n = tgt
                                            \/ pc = "write" /\ dir[n] = dir[tgt] /\ FileOf[n] = file
  <1> USE DEF Found
  <1>1. /\ UNCHANGED <<archive, given, pos, node>> /\ pc \in {"inpone"} \cup Extracting
    BY FileSteps
  <1>2. Clean /\ ~errcnt'
    BY <1>1, StaysClean DEF Extracting
  <1>3. Busy
    BY <1>1, TgtThere
  <1>4. tgt \in Name /\ ~Finished(tgt)
    BY <1>3, TgtWaits
  <1>5. file \notin Empty => size \/ (pc \in {"inpone", "link"} /\ Shares(file) /\ Named(file))
    BY <1>2, <1>3 DEF DataInv
  <1>6. ASSUME NEW n \in Name
        PROVE  /\ Finished(n)' => Finished(n) \/ (n = tgt /\ ~UNCHANGED <<todo, own>>)
               /\ Settled(n)' => Settled(n) \/ (n = tgt /\ (~UNCHANGED <<todo, own>> \/ NewFile))
    <2>1. Finished(n)' => Finished(n) \/ (n = tgt /\ ~UNCHANGED <<todo, own>>)
      BY FileSettles
    <2>2. (\E g \in DOMAIN isl' : isl'[g].name = n) => (\E g \in DOMAIN isl : isl[g].name = n) \/ (NewFile /\ n = tgt)
      BY FileSettles
    <2> QED
      BY <2>1, <2>2 DEF Settled
  <1>7. \A n \in Name : Settled(n) => \/ Whole(n)
                                      \/ pc \in Filling /\ n = tgt
                                      \/ pc = "write" /\ dir[n] = dir[tgt] /\ FileOf[n] = file
    BY <1>2 DEF SettledInv
  <1> QED
    BY <1>1, <1>2, <1>3, <1>4, <1>5, <1>6, <1>7

\* An error is told of.
LEMMA NoError ==
    ASSUME Found
    PROVE  /\ ~SkipNewer /\ ~NoDirectory /\ ~LinkFails /\ ~RenameFails /\ ~CreateFails
           /\ ~MkstempFails /\ ~CloseFails /\ ~PutEmpty /\ ~PutEmptyFails
           /\ ~WriteFails /\ ~RestoreFails
  <1>1. pc # "skip"
    BY WhatIsFound DEF Found, FilledInv
  <1> QED
    BY <1>1, WhatIsFound DEF SkipNewer, NoDirectory, LinkFails, MkstempFails, CloseFails, PutEmpty,
                             PutEmptyFails, RenameFails, CreateFails, WriteFails, RestoreFails,
                             Keep, At, Error

\* What the user does not want is no matter.
LEMMA SettledUnwanted == ASSUME Found, Unwanted PROVE SettledInv' /\ FilledInv'
  <1>1. pc = "inpone" /\ pc' = "inpone" /\ UNCHANGED tree /\ tgt \notin wanted
    BY DEF Unwanted, Inpone, At, Over
  <1>2. ASSUME NEW n \in Name, Settled(n)' PROVE Whole(n)'
    <2>1. wanted' = wanted /\ ~NewFile
      BY <1>1, WhatIsFound DEF given, NewFile, Filein
    <2>2. Finished(n)' => n # tgt
      BY <1>1, <2>1 DEF Finished
    <2>3. (\E g \in DOMAIN isl' : isl'[g].name = n) => \E g \in DOMAIN isl : isl[g].name = n
      BY <2>1, FileSettles DEF Found
    <2>4. Settled(n)
      BY <1>2, <2>2, <2>3, WhatIsFound DEF Settled
    <2>5. Whole(n)
      BY <1>1, <2>4, WhatIsFound DEF Filling, Making, Replacing
    <2> QED
      BY <1>1, <2>5, WholeStays DEF tree
  <1> QED
    BY <1>1, <1>2 DEF SettledInv, FilledInv

\* Choosing what to do leaves the target alone.
LEMMA SettledChoice == ASSUME Found, NewFile \/ MakeLink PROVE SettledInv' /\ FilledInv'
  <1>1. /\ pc = "inpone" /\ UNCHANGED <<tree, todo, own>>
        /\ NewFile => pc' \in {"creat", "mkstemp"} /\ (pc' = "creat" => ~Exists(tgt))
        /\ MakeLink => pc' = "link"
    BY DEF NewFile, MakeLink, Filein, Inpone, At, Goto
  <1>2. tgt' = tgt /\ file' = file
    BY <1>1, SameTgt
  <1>3. ASSUME NEW n \in Name, Settled(n)', n # tgt \/ ~NewFile PROVE Whole(n)'
    <2>1. Settled(n)
      BY <1>1, <1>3, WhatIsFound
    <2>2. Whole(n)
      BY <1>1, <2>1, WhatIsFound DEF Filling, Making, Replacing
    <2> QED
      BY <1>1, <2>2, WholeStays DEF tree
  <1>4. SettledInv'
    BY <1>1, <1>2, <1>3 DEF SettledInv, Filling, Making, Replacing
  <1>5. FilledInv'
    BY <1>1, <1>2 DEF FilledInv, Exists, tree
  <1> QED
    BY <1>4, <1>5

\* The first link, to which the others are linked, is complete.
LEMMA FirstWhole ==
    ASSUME Found, pc = "link" PROVE Whole(first) /\ first \in LinkOf(file) /\ first # None
  <1>1. file \in DOMAIN isl /\ first \in Name
    BY DEF Found, Inv, NameInv
  <1>2. first \in LinkOf(file) \cup {None} /\ None \notin Name
    BY <1>1, SlotTypes, CpioAssumption DEF Found, Inv, NameInv, CpioAssumption, first
  <1>3. Settled(first)
    BY <1>1 DEF Settled, first
  <1>4. Whole(first)
    BY <1>1, <1>3, WhatIsFound DEF Filling, Making, Replacing
  <1> QED
    BY <1>1, <1>2, <1>4

\* A link is as complete as the first one.
LEMMA SettledLink == ASSUME Found, Link PROVE SettledInv' /\ FilledInv'
  <1>1. /\ pc = "link" /\ dir' = [dir EXCEPT ![tgt] = dir[first]] /\ ino' = ino
        /\ pc' = "inpone" \/ (pc' = "creat" /\ UNCHANGED <<todo, own>>)
    BY DEF Link, InLink, At, Leave, Over, Goto
  <1>2. Whole(first) /\ first \in LinkOf(file) /\ tgt \in Name /\ DOMAIN dir = Name \cup {Temp}
    BY <1>1, FirstWhole, WhatIsFound DEF Found, Inv, NameInv
  <1>3. FileOf[first] = FileOf[tgt]
    BY <1>2 DEF LinkOf, file
  <1>4. PICK t \in Name : t = tgt
    BY <1>2
  <1>5. Whole(t)'
    BY <1>1, <1>2, <1>3, <1>4 DEF Whole, Exists, Made
  <1>6. ASSUME NEW n \in Name, Settled(n)' PROVE Whole(n)'
    <2>1. CASE n = tgt
      BY <1>4, <1>5, <2>1
    <2>2. CASE n # tgt
      <3>1. Settled(n)
        BY <1>1, <1>6, <2>2, WhatIsFound
      <3>2. Whole(n)
        BY <1>1, <3>1, WhatIsFound DEF Filling, Making, Replacing
      <3> QED
        BY <1>1, <1>2, <2>2, <3>2, WholeStays
    <2> QED
      BY <2>1, <2>2
  <1>7. pc' = "creat" => tgt' = t
    BY <1>1, <1>4, SameTgt
  <1>8. FilledInv'
    BY <1>1, <1>5, <1>7 DEF FilledInv
  <1> QED
    BY <1>6, <1>8 DEF SettledInv

\* What is removed for a link was not yet extracted.
LEMMA SettledUnlink == ASSUME Found, UnlinkTarget PROVE SettledInv' /\ FilledInv'
  <1>1. /\ pc = "link" /\ pc' = "link" /\ dir[tgt] # dir[first] /\ dir' = [dir EXCEPT ![tgt] = 0]
        /\ UNCHANGED <<isl, ino, todo, own>>
    BY DEF UnlinkTarget, InLink, At, Goto, Unlink
  <1>2. ASSUME NEW n \in Name, Settled(n)' PROVE Whole(n)'
    <2>1. Settled(n)
      BY <1>1, <1>2, WhatIsFound DEF UnlinkTarget, NewFile, Filein, Inpone, At
    <2>2. n # tgt
      <3> SUFFICES ASSUME n = tgt PROVE FALSE
        OBVIOUS
      <3>1. PICK g \in DOMAIN isl : isl[g].name = tgt
        BY <2>1, WhatIsFound DEF Settled
      <3>2. g = FileOf[tgt]
        BY <3>1, SlotTypes, WhatIsFound, CpioAssumption DEF Found, Inv, NameInv, LinkOf, CpioAssumption
      <3> QED
        BY <1>1, <3>1, <3>2 DEF file, first
    <2>3. Whole(n)
      BY <1>1, <2>1, WhatIsFound DEF Filling, Making, Replacing
    <2>4. DOMAIN dir = Name \cup {Temp}
      BY <1>1 DEF Found, Inv, NameInv
    <2> QED
      BY <1>1, <2>2, <2>3, <2>4, WholeStays
  <1> QED
    BY <1>1, <1>2 DEF SettledInv, FilledInv

\* While the old file is put aside others stay.
LEMMA SettledKeeping == ASSUME Found, Keeping PROVE SettledInv' /\ FilledInv'
  <1>1. Mkstemp \/ SetOfile \/ SetTfile \/ RenameOld
    BY NoError DEF Keeping
  <1>2. /\ pc \in Making /\ pc' \in Filling /\ UNCHANGED <<todo, own>>
        /\ pc' \notin {"skip", "tunlink", "unlink", "restore", "write"}
        /\ pc' = "creat" => RenameOld
        /\ ~NewFile
    BY <1>1 DEF Mkstemp, SetOfile, SetTfile, RenameOld, Keep, At, Goto, Making, Filling, Replacing,
                NewFile, Filein, Inpone
  <1>3. tgt' = tgt /\ file' = file
    BY <1>2, SameTgt
  <1>4. dir \in [Name \cup {Temp} -> 0..Len(ino)] /\ Temp \notin Name /\ Len(ino) \in Nat
    BY <1>2, CpioAssumption DEF Found, Inv, TreeTypes, Making, CpioAssumption
  <1>5. ASSUME NEW n \in Name, n # tgt, Whole(n) PROVE Whole(n)'
    <2>1. dir[n] # 0 /\ dir[n] \in 1..Len(ino)
      BY <1>4, <1>5 DEF Whole, Exists
    <2>2. CASE Mkstemp
      <3>1. dir[Temp] = 0 /\ pc # "out"
        BY <2>2 DEF Found, Inv, TempInv, Mkstemp, Keep, At
      <3>2. Creat(Temp, Inode("empty", None, TRUE))
        BY <2>2 DEF Mkstemp
      <3>3. dir'[n] = dir[n] /\ ino'[dir[n]] = ino[dir[n]]
        BY <1>4, <2>1, <3>1, <3>2, CreatNew DEF Found
      <3> QED
        BY <1>5, <3>3, WholeStays
    <2>3. CASE SetOfile \/ SetTfile
      BY <1>5, <2>3, WholeStays DEF SetOfile, SetTfile, tree
    <2>4. CASE RenameOld
      <3>1. dir' = [dir EXCEPT ![Temp] = dir[tgt], ![tgt] = 0] /\ ino' = ino
        BY <2>4 DEF RenameOld, Rename
      <3>2. dir'[n] = dir[n]
        BY <1>4, <1>5, <3>1
      <3> QED
        BY <1>5, <3>1, <3>2, WholeStays
    <2> QED
      BY <1>1, <2>2, <2>3, <2>4
  <1>6. ASSUME NEW n \in Name, Settled(n)', n # tgt PROVE Whole(n)'
    <2>1. Settled(n)
      BY <1>2, <1>6, WhatIsFound
    <2>2. Whole(n)
      BY <1>2, <1>6, <2>1, WhatIsFound DEF Making
    <2> QED
      BY <1>5, <1>6, <2>2
  <1>7. RenameOld => dir'[tgt] = 0
    <2> HAVE RenameOld
    <2>1. dir' = [dir EXCEPT ![Temp] = dir[tgt], ![tgt] = 0]
      BY DEF RenameOld, Rename
    <2> QED
      BY <1>4, <2>1, WhatIsFound
  <1>8. FilledInv'
    BY <1>2, <1>3, <1>7 DEF FilledInv, Exists
  <1> QED
    BY <1>2, <1>3, <1>6, <1>8 DEF SettledInv

\* What creat() truncates is written again.
LEMMA SettledCreate == ASSUME Found, Create PROVE SettledInv' /\ FilledInv'
  <1>1. PICK t, i : t \in Name /\ t = tgt /\ i = Made(IF size THEN "part" ELSE "empty", tgt)
    BY WhatIsFound
  <1>2. /\ t \in Name /\ pc = "creat" /\ pc' = "write" /\ UNCHANGED <<todo, own, size>> /\ Creat(t, i) /\ ~NewFile
    BY <1>1 DEF Create, Keep, At, Goto, NewFile, Filein, Inpone
  <1>3. tgt' = t /\ file' = file /\ file = FileOf[t]
    BY <1>1, <1>2, SameTgt DEF file
  <1>4. i.of = file /\ (~size => i = Made("empty", t))
    BY <1>1, <1>3 DEF Made, Inode
  <1>5. dir'[t] # 0 /\ ino'[dir'[t]] = i
    <2>1. CASE dir[t] = 0
      <3>1. dir'[t] = Len(ino) + 1 /\ ino'[dir'[t]] = i
        BY <1>2, <2>1, CreatNew DEF Found
      <3>2. Len(ino) \in Nat
        BY DEF Found, Inv, TreeTypes
      <3> QED
        BY <3>1, <3>2
    <2>2. CASE dir[t] # 0
      BY <1>2, <2>2, CreatOld DEF Found
    <2> QED
      BY <2>1, <2>2
  <1>6. ~size => Whole(t)'
    <2> HAVE ~size
    <2>1. file \in Empty
      BY <1>2, WhatIsFound
    <2> QED
      BY <1>3, <1>4, <1>5, <2>1 DEF Whole, Exists, Made
  <1>7. FilledInv'
    BY <1>2, <1>3, <1>4, <1>5, <1>6 DEF FilledInv, Exists
  <1>8. ASSUME NEW n \in Name, Settled(n)', n # t PROVE Whole(n)' \/ (dir'[n] = dir'[t] /\ FileOf[n] = file)
    <2>1. Settled(n)
      BY <1>1, <1>2, <1>8, WhatIsFound
    <2>2. Whole(n)
      BY <1>1, <1>2, <1>8, <2>1, WhatIsFound
    <2>3. CASE dir[t] = 0
      <3>1. dir'[n] = dir[n] /\ (dir[n] = 0 \/ ino'[dir[n]] = ino[dir[n]])
        BY <1>2, <1>8, <2>3, CreatNew DEF Found
      <3> QED
        BY <2>2, <3>1, WholeStays DEF Whole, Exists
    <2>4. CASE dir[t] # 0 /\ dir[n] # dir[t]
      <3>1. dir'[n] = dir[n] /\ (dir[n] = 0 \/ ino'[dir[n]] = ino[dir[n]])
        BY <1>2, <1>8, <2>4, CreatOld DEF Found
      <3> QED
        BY <2>2, <3>1, WholeStays DEF Whole, Exists
    <2>5. CASE dir[t] # 0 /\ dir[n] = dir[t]
      <3>1. dir' = dir
        BY <1>2, <2>5, CreatOld DEF Found
      <3>2. Whole(t)
        BY <1>1, <1>2, <2>5, WhatIsFound DEF Found, FilledInv, Exists
      <3>3. ino[dir[t]].of = FileOf[t] /\ ino[dir[n]].of = FileOf[n]
        BY <2>2, <3>2 DEF Whole, Made, Inode
      <3> QED
        BY <1>3, <2>5, <3>1, <3>3
    <2> QED
      BY <2>3, <2>4, <2>5
  <1> QED
    BY <1>2, <1>3, <1>7, <1>8 DEF SettledInv, Filling, Making, Replacing

\* What is written is complete under all of its names.
LEMMA SettledWrite == ASSUME Found, Write PROVE SettledInv' /\ FilledInv'
  <1>1. PICK t \in Name : t = tgt
    BY WhatIsFound
  <1>2. /\ pc = "write" /\ pc' = "tunlink" /\ UNCHANGED <<todo, own>> /\ ~NewFile
        /\ IF size THEN Creat(t, Made("whole", t)) ELSE UNCHANGED tree
    BY <1>1 DEF Write, Keep, At, Goto, NewFile, Filein, Inpone
  <1>3. tgt' = t /\ file = FileOf[t]
    BY <1>1, <1>2, SameTgt DEF file
  <1>4. dir[t] # 0 /\ ino[dir[t]].of = FileOf[t] /\ (size \/ Whole(t))
    BY <1>1, <1>2, <1>3, WhatIsFound DEF Found, FilledInv, Exists
  <1>5. size => FileOf[t] \notin Empty
    BY <1>1, <1>2, TgtFilled DEF Filled, Found, Extracting
  <1>6. ASSUME NEW n \in Name, n = t \/ (dir[n] = dir[t] /\ FileOf[n] = file) PROVE Whole(n)'
    <2>1. dir[n] = dir[t] /\ FileOf[n] = FileOf[t]
      BY <1>3, <1>6
    <2>2. CASE size
      <3>1. dir' = dir /\ ino'[dir[t]] = Made("whole", t)
        BY <1>2, <1>4, <2>2, CreatOld DEF Found
      <3> QED
        BY <1>4, <1>5, <2>1, <2>2, <3>1 DEF Whole, Exists, Made
    <2>3. CASE ~size
      BY <1>2, <1>4, <2>1, <2>3 DEF Whole, Exists, Made, tree
    <2> QED
      BY <2>2, <2>3
  <1>7. ASSUME NEW n \in Name, Settled(n)' PROVE Whole(n)'
    <2>1. Settled(n)
      BY <1>2, <1>7, WhatIsFound
    <2>2. CASE n = t \/ (dir[n] = dir[t] /\ FileOf[n] = file)
      BY <1>6, <2>2
    <2>3. CASE ~(n = t \/ (dir[n] = dir[t] /\ FileOf[n] = file))
      <3>1. Whole(n)
        BY <1>1, <1>2, <2>1, <2>3, WhatIsFound
      <3>2. dir[n] # dir[t]
        <4>1. ino[dir[n]].of = FileOf[n]
          BY <3>1 DEF Whole, Made, Inode
        <4> QED
          BY <1>3, <1>4, <2>3, <4>1
      <3>3. dir'[n] = dir[n] /\ (dir[n] = 0 \/ ino'[dir[n]] = ino[dir[n]])
        <4>1. CASE size
          BY <1>2, <1>4, <3>2, <4>1, CreatOld DEF Found
        <4>2. CASE ~size
          BY <1>2, <4>2 DEF tree
        <4> QED
          BY <4>1, <4>2
      <3> QED
        BY <3>1, <3>3, WholeStays DEF Whole, Exists
    <2> QED
      BY <2>2, <2>3
  <1>8. FilledInv'
    BY <1>2, <1>3, <1>6 DEF FilledInv
  <1> QED
    BY <1>7, <1>8 DEF SettledInv

\* When filein() is done with a name it is complete.
LEMMA SettledEnding == ASSUME Found, Ending PROVE SettledInv' /\ FilledInv'
  <1>1. PICK t \in Name : t = tgt
    BY WhatIsFound
  <1>2. Forget \/ UnlinkTemp
    <2>1. pc # "restore"
      BY WhatIsFound DEF Found, FilledInv
    <2> QED
      BY <2>1 DEF Ending, Restore, RestoreFails, Keep, At
  <1>3. /\ pc \in {"tunlink", "unlink"} /\ ~NewFile /\ ino' = ino
        /\ pc' = "inpone" \/ (pc' = "unlink" /\ UNCHANGED <<todo, own>>)
        /\ dir' = dir \/ dir' = [dir EXCEPT ![Temp] = 0]
    BY <1>2 DEF Forget, UnlinkTemp, Keep, At, Goto, Leave, Over, Unlink, tree, NewFile, Filein, Inpone
  <1>4. DOMAIN dir = Name \cup {Temp} /\ Temp \notin Name
    BY <1>3, CpioAssumption DEF Found, Inv, NameInv, CpioAssumption
  <1>5. Whole(t)
    BY <1>1, <1>3, WhatIsFound DEF Found, FilledInv
  <1>6. ASSUME NEW n \in Name, Whole(n) PROVE Whole(n)'
    <2>1. dir'[n] = dir[n]
      BY <1>3, <1>4
    <2> QED
      BY <1>3, <1>6, <2>1, WholeStays
  <1>7. ASSUME NEW n \in Name, Settled(n)' PROVE Whole(n)'
    <2>1. CASE n = t
      BY <1>5, <1>6, <2>1
    <2>2. CASE n # t
      <3>1. Settled(n)
        BY <1>1, <1>7, <2>2, WhatIsFound
      <3>2. Whole(n)
        BY <1>1, <1>3, <2>2, <3>1, WhatIsFound
      <3> QED
        BY <1>6, <3>2
    <2> QED
      BY <2>1, <2>2
  <1>8. pc' = "unlink" => tgt' = t
    BY <1>1, <1>3, SameTgt
  <1>9. FilledInv'
    BY <1>3, <1>5, <1>6, <1>8 DEF FilledInv
  <1> QED
    BY <1>7, <1>9 DEF SettledInv

\* Nothing has been extracted when cpio -i begins.
LEMMA FillBegin ==
    ASSUME Inv, FirstInv, CopyOut \/ Start PROVE DataInv' /\ SettledInv' /\ FilledInv'
  <1>1. pc = "out" /\ pc' \in {"out", "next"} /\ UNCHANGED reader
    BY DEF CopyOut, Start, inVars
  <1>2. isl' = <<>> /\ pos' = 0 /\ todo' = <<>> /\ own' = None
    BY <1>1 DEF FirstInv, reader, Inv, NameInv
  <1>3. DataInv'
    BY <1>2 DEF DataInv, Busy, IsLink
  <1>4. ASSUME NEW n PROVE ~Settled(n)'
    BY <1>2 DEF Settled, Finished, Came
  <1> QED
    BY <1>1, <1>3, <1>4 DEF SettledInv, FilledInv

\* Every step leaves what has been extracted complete.
LEMMA FillStep ==
    ASSUME Inv, Own => CountInv, WaitInv, FirstInv, FillInv, [Next]_vars PROVE FillInv'
  <1>1. OldInv' /\ EndInv'
    BY OldStep, EndStep DEF FillInv
  <1>2. CASE UNCHANGED vars
    <2> USE <1>2 DEF vars, outVars, archive, inVars, given, reader, tree, cur
    <2>1. tgt' = tgt /\ file' = file
      BY SameTgt
    <2>2. DataInv'
      BY <2>1 DEF FillInv, DataInv, Clean, Own, Busy, IsLink, Shares, Named
    <2>3. \A n : (Whole(n)' <=> Whole(n)) /\ (Settled(n)' <=> Settled(n))
      BY DEF Whole, Exists, Made, Settled, Finished, Came, Waiting, Held
    <2>4. Clean' <=> Clean
      BY DEF Clean, Own
    <2>5. SettledInv'
      BY <2>1, <2>3, <2>4 DEF FillInv, SettledInv
    <2>6. FilledInv'
      <3>1. PICK t : t = tgt
        OBVIOUS
      <3>2. tgt' = t /\ (Whole(t)' <=> Whole(t))
        BY <2>1, <2>3, <3>1
      <3> QED
        BY <2>1, <2>4, <3>1, <3>2 DEF FillInv, FilledInv, Exists
    <2> QED
      BY <1>1, <2>2, <2>5, <2>6 DEF FillInv
  <1>3. CASE CopyOut \/ Start
    BY <1>1, <1>3, FillBegin DEF FillInv
  <1>4. CASE Next /\ ~CopyOut /\ ~Start
    <2>1. CASE ~Clean'
      BY <1>1, <2>1 DEF FillInv, DataInv, SettledInv, FilledInv
    <2>2. CASE Clean'
      <3>1. pc' # "exit"
        BY <2>2 DEF Clean
      <3>2. Doinp /\ ~Exit /\ ~TapeEnds
        BY <1>4, <3>1 DEF Next, Interrupt, Exit, TapeEnds
      <3>3. CASE Steps
        <4>1. pc # "out"
          BY <3>3 DEF Steps, Reading, ReadHeader, TakeFile, FlushLinks, StoreLink, FlushEmpty, Trailer, FlushRest, NodeDone
        <4>2. CountInv
          BY <1>4, <2>2, <4>1, StaysClean DEF Clean
        <4> QED
          BY <1>1, <1>4, <2>2, <3>3, <4>2, DataRead, SettledRead DEF FillInv
      <3>4. CASE Extracts
        <4>1. DataInv'
          BY <1>4, <2>2, <3>4, DataFile DEF FillInv
        <4>2. Found
          BY <1>4, <2>2, <3>4 DEF Found, FillInv
        <4>3. SettledInv' /\ FilledInv'
          BY <3>4, <4>2, NoError, SettledUnwanted, SettledChoice, SettledLink, SettledUnlink, SettledKeeping,
             SettledCreate, SettledWrite, SettledEnding DEF Extracts, Choosing, Linking, Writing
        <4> QED
          BY <1>1, <4>1, <4>3 DEF FillInv
      <3> QED
        BY <3>2, <3>3, <3>4, Kinds DEF Steps, Extracts
    <2> QED
      BY <2>1, <2>2
  <1> QED
    BY <1>2, <1>3, <1>4

\* In the archive there is each name as often as it was listed.
LEMMA TapeNames ==
    ASSUME Inv, CountInv, OutDone, NEW n \in Name \ failed
    PROVE  Num(NamesOf(tape), n) = Num(input, n) /\ Num(input, n) \in Nat /\ NamesOf(tape) \in Seq(Name)
           /\ Len(NamesOf(tape)) = Len(tape) /\ \A i \in 1..Len(tape) : NamesOf(tape)[i] = tape[i].name
  <1>1. tape \in Seq(Heads) /\ list = <<>> /\ input \in Seq(Name)
    BY DEF Inv, OutInv, OutDone
  <1>2. Pending(FileOf[n]) = <<>>
    BY DEF Pending, OutDone, Unfinished
  <1>3. Num(NamesOf(tape), n) + Num(list, n) + Num(Pending(FileOf[n]), n) = Num(input, n)
    BY DEF CountInv, CountedInv
  <1>4. Num(<<>>, n) = 0 /\ Num(NamesOf(tape), n) \in Nat /\ Num(input, n) \in Nat
    BY <1>1, NumEmpty, NumType, NamesType
  <1> QED
    BY <1>1, <1>2, <1>3, <1>4, NamesType

\* What is counted is there.
LEMMA NumThere ==
    ASSUME NEW s \in Seq(Name), NEW n, Num(s, n) # 0 PROVE \E i \in 1..Len(s) : s[i] = n
  <1>1. Spots(s, n) # {}
    BY FS_EmptySet DEF Num
  <1> QED
    BY <1>1 DEF Spots

\* At the end of cpio -i every name that the user wants has been extracted.
LEMMA AllFinished ==
    ASSUME Inv, CountInv, WaitInv, FillInv, Clean, Exit, NEW i \in DOMAIN input, input[i] \in wanted
    PROVE  Finished(input[i]) /\ input[i] \in Name
  <1>1. PICK n : n = input[i]
    OBVIOUS
  <1>2. n \in Name \ failed
    BY <1>1 DEF Inv, OutInv, Clean
  <1>3. pc = "rest" /\ OutDone /\ pos > Len(tape) /\ pos \in Nat /\ Len(tape) \in Nat
    BY DEF Exit, FillInv, EndInv, Inv, NameInv, OutInv
  <1>4. Num(input, n) # 0
    <2>1. i \in Spots(input, n)
      BY <1>1 DEF Spots
    <2>2. IsFiniteSet(Spots(input, n))
      BY NumType DEF Inv, OutInv
    <2> QED
      BY <2>1, <2>2, FS_EmptySet DEF Num
  <1>5. PICK j \in 1..Len(tape) : tape[j].name = n
    <2>1. Num(NamesOf(tape), n) # 0 /\ NamesOf(tape) \in Seq(Name) /\ Len(NamesOf(tape)) = Len(tape)
          /\ \A k \in 1..Len(tape) : NamesOf(tape)[k] = tape[k].name
      BY <1>2, <1>3, <1>4, TapeNames
    <2> QED
      BY <2>1, NumThere
  <1>6. Came(n)
    <2>1. j <= pos
      BY <1>3
    <2> QED
      BY <1>5, <2>1 DEF Came
  <1>7. ~Held(n)
    <2>1. CASE svr4
      BY <2>1 DEF Exit, Held
    <2>2. CASE ~svr4
      BY <2>2, AmongNone DEF FillInv, OldInv, Held
    <2> QED
      BY <2>1, <2>2
  <1>8. ~Among(n, todo) /\ own # n
    <2>1. todo = <<>> /\ own = None
      BY <1>3 DEF Inv, NameInv
    <2> QED
      BY <1>2, <2>1, AmongNone, CpioAssumption DEF CpioAssumption
  <1> QED
    BY <1>1, <1>2, <1>6, <1>7, <1>8 DEF Finished, Waiting

\* And it is complete.
LEMMA ExitTells ==
    ASSUME Inv, CountInv, WaitInv, FillInv, Clean, Exit, NEW i \in DOMAIN input, input[i] \in wanted
    PROVE  Whole(input[i])' /\ UNCHANGED <<input, tree>>
  <1>1. PICK n : n = input[i]
    OBVIOUS
  <1>2. Finished(n) /\ n \in Name
    BY <1>1, AllFinished
  <1>3. Whole(n)
    BY <1>2 DEF FillInv, SettledInv, Settled, Exit, Filling, Making, Replacing
  <1>4. UNCHANGED <<input, tree>>
    BY DEF Exit, outVars, archive
  <1>5. Whole(n)'
    BY <1>3, <1>4, WholeStays DEF tree
  <1>6. input'[i] = n
    BY <1>1, <1>4
  <1> QED
    BY <1>4, <1>5, <1>6

-----------------------------------------------------------------------------
(* Links to one file *)

\* The list had no name twice.
Once == Own /\ \A l \in DOMAIN input : Count(input[l]) = 1

\* f is in the archive; and its data comes with its last entry.
Taped(f) == \E i \in 1..Len(tape) : OfFile(i, f)
DataLast(f) == \A i, j \in 1..Len(tape) : i < j /\ OfFile(i, f) /\ OfFile(j, f) => ~tape[i].data

\* Of a file that is in the archive no link is held back or to come.
LastOf(f) == Taped(f) => DataLast(f) /\ Pending(f) = <<>> /\ \A i \in 1..Len(list) : FileOf[list[i]] # f

LastInv == Once /\ svr4 /\ failed = {} => \A f \in File : NLink[f] > 1 => LastOf(f)

\* A file has no more links than st_nlink says.
LEMMA FileLinks ==
    ASSUME NEW f \in File
    PROVE  /\ IsFiniteSet(LinkOf(f)) /\ Cardinality(LinkOf(f)) \in Nat /\ NLink[f] \in Nat \ {0}
           /\ Cardinality(LinkOf(f)) <= NLink[f]
  <1>1. IsFiniteSet(LinkOf(f)) /\ Cardinality(LinkOf(f)) <= NLink[f]
    BY NamesFit DEF NamesFit, LinkOf
  <1> QED
    BY <1>1, FS_CardinalityType, CpioOutAssumption DEF CpioOutAssumption

\* As many different links as st_nlink, and one more, are too many.
LEMMA TooManyLinks ==
    ASSUME NEW f \in File, NEW s \in Seq(LinkOf(f)), \A i, j \in 1..Len(s) : s[i] = s[j] => i = j,
           NEW n \in LinkOf(f), ~Among(n, s), Len(s) >= NLink[f]
    PROVE  FALSE
  <1> DEFINE S == {s[i] : i \in 1..Len(s)}
  <1>1. s \in Seq(Name) /\ Len(s) \in Nat
    <2>1. LinkOf(f) \subseteq Name
      BY DEF LinkOf
    <2> QED
      BY <2>1, SeqMonotonic
  <1>2. IsFiniteSet(S) /\ Cardinality(S) = Len(s)
    BY <1>1, DifferentNames
  <1>3. S \subseteq LinkOf(f) /\ n \notin S
    BY DEF Among
  <1> HIDE DEF S
  <1>4. Cardinality(S \cup {n}) = Len(s) + 1
    BY <1>2, <1>3, FS_AddElement
  <1>5. S \cup {n} \subseteq LinkOf(f)
    BY <1>3
  <1>6. Cardinality(S \cup {n}) <= Cardinality(LinkOf(f))
    BY <1>5, FileLinks, FS_Subset
  <1> QED
    BY <1>1, <1>4, <1>6, FileLinks

\* A name that was listed once is in one place only.
LEMMA OnceNum ==
    ASSUME Once, NEW n \in Name, NEW s \in Seq(Name), input \in Seq(Name), Num(s, n) <= Num(input, n)
    PROVE  Num(s, n) \in {0, 1}
  <1>1. Num(s, n) \in Nat /\ Num(input, n) \in Nat
    BY NumType
  <1>2. Num(input, n) # 0 => Num(input, n) = 1
    <2> SUFFICES ASSUME Num(input, n) # 0 PROVE Num(input, n) = 1
      OBVIOUS
    <2>1. PICK i \in 1..Len(input) : input[i] = n
      BY NumThere
    <2>2. i \in DOMAIN input
      BY <2>1
    <2>3. Count(n) = 1
      BY <2>1, <2>2 DEF Once
    <2> QED
      BY <2>3 DEF Count, Num, Spots
  <1> QED
    BY <1>1, <1>2

\* Of what is in a sequence once each place has another name.
LEMMA OnceDifferent ==
    ASSUME NEW s \in Seq(Name), \A n \in Name : Num(s, n) <= 1
    PROVE  \A i, j \in 1..Len(s) : s[i] = s[j] => i = j
  BY NumOnce

\* Where a name of the list is, it is only there.
LEMMA OnceCounted ==
    ASSUME OutInv, KeptInv, CountedInv, Once, failed = {}, NEW n \in Name
    PROVE  /\ Num(list, n) \in Nat /\ Num(Pending(FileOf[n]), n) \in Nat
           /\ Num(list, n) + Num(Pending(FileOf[n]), n) <= 1
  <1>1. Num(NamesOf(tape), n) + Num(list, n) + Num(Pending(FileOf[n]), n) = Num(input, n)
    BY DEF CountedInv
  <1>2. /\ Num(NamesOf(tape), n) \in Nat /\ Num(list, n) \in Nat /\ Num(Pending(FileOf[n]), n) \in Nat
        /\ Num(input, n) \in Nat
    BY NamesType, NumType, PendingType, CpioOutAssumption DEF OutInv
  <1>3. Num(input, n) \in {0, 1}
    BY <1>2, OnceNum DEF OutInv
  <1> QED
    BY <1>1, <1>2, <1>3

\* What addfile() adds is of one file; its data comes last.
LEMMA LastAdded ==
    ASSUME OutInv, NEW f \in File, NEW n \in LinkOf(f), NEW links \in Seq(LinkOf(f)),
           AddFile(links, n), failed = {}, failed' = {}
    PROVE  /\ \A g : g # f => (Taped(g)' => Taped(g)) /\ (DataLast(g) => DataLast(g)')
           /\ ~Taped(f) => DataLast(f)'
  <1>1. n \in Name /\ links \in Seq(Name) /\ tape \in Seq(Heads) /\ FileOf[n] = f
    <2>1. LinkOf(f) \subseteq Name /\ FileOf[n] = f
      BY DEF LinkOf
    <2> QED
      BY <2>1, SeqMonotonic DEF OutInv
  <1>2. PICK q \in {0, 1} :
            /\ Len(tape') = Len(tape) + Len(links) + q
            /\ \A i \in 1..Len(tape) : tape'[i] = tape[i]
            /\ \A i \in 1..Len(links) : tape'[Len(tape) + i] = Entry(links[i], TRUE)
            /\ q = 1 => tape'[Len(tape) + Len(links) + 1] = Entry(n, FALSE) /\ failed' = failed
            /\ q = 0 => failed' = failed \cup {n}
    BY <1>1, AddFileDoes
  <1>3. q = 1
    BY <1>2
  <1>4. Len(tape) \in Nat /\ Len(links) \in Nat /\ Len(tape') = Len(tape) + Len(links) + 1
    BY <1>1, <1>2, <1>3
  <1>5. \A i \in 1..Len(tape') :
            \/ i \in 1..Len(tape) /\ tape'[i] = tape[i]
            \/ i > Len(tape) /\ FileOf[tape'[i].name] = f /\ (tape'[i].data => i = Len(tape'))
    <2> SUFFICES ASSUME NEW i \in 1..Len(tape'), i \notin 1..Len(tape)
                 PROVE  i > Len(tape) /\ FileOf[tape'[i].name] = f /\ (tape'[i].data => i = Len(tape'))
      BY <1>2
    <2>1. i > Len(tape)
      BY <1>4
    <2>2. CASE i = Len(tape) + Len(links) + 1
      BY <1>1, <1>2, <1>3, <1>4, <2>1, <2>2 DEF Entry
    <2>3. CASE i # Len(tape) + Len(links) + 1
      <3>1. PICK k \in 1..Len(links) : i = Len(tape) + k
        <4>1. i - Len(tape) \in 1..Len(links) /\ i = Len(tape) + (i - Len(tape))
          BY <1>4, <2>1, <2>3
        <4> QED
          BY <4>1
      <3>2. links[k] \in LinkOf(f)
        OBVIOUS
      <3>3. tape'[i] = Entry(links[k], TRUE)
        BY <1>2, <3>1
      <3>4. tape'[i].name = links[k] /\ ~tape'[i].data
        <4>1. Entry(links[k], TRUE).name = links[k] /\ ~Entry(links[k], TRUE).data
          BY DEF Entry
        <4> QED
          BY <3>3, <4>1
      <3>5. FileOf[links[k]] = f
        BY <3>2 DEF LinkOf
      <3> QED
        BY <2>1, <3>4, <3>5
    <2> QED
      BY <2>2, <2>3
  <1>6. ASSUME NEW g, g # f
        PROVE  (Taped(g)' => Taped(g)) /\ (DataLast(g) => DataLast(g)')
    <2>1. \A i \in 1..Len(tape') : FileOf[tape'[i].name] = g => i \in 1..Len(tape) /\ tape'[i] = tape[i]
      BY <1>5, <1>6
    <2>2. Taped(g)' => Taped(g)
      BY <2>1 DEF Taped, OfFile
    <2>3. DataLast(g) => DataLast(g)'
      BY <2>1 DEF DataLast, OfFile
    <2> QED
      BY <2>2, <2>3
  <1>7. ASSUME ~Taped(f) PROVE DataLast(f)'
    <2>1. \A i \in 1..Len(tape') : FileOf[tape'[i].name] = f /\ tape'[i].data => i = Len(tape')
      BY <1>5, <1>7 DEF Taped, OfFile
    <2>2. \A i, j \in 1..Len(tape') : i < j => i # Len(tape')
      BY <1>4
    <2> QED
      BY <2>1, <2>2 DEF DataLast, OfFile
  <1> QED
    BY <1>6, <1>7

\* The list gets shorter.
LEMMA ListedRest ==
    ASSUME OutInv, Listed
    PROVE  /\ list # <<>> /\ list' = Tail(list) /\ UNCHANGED <<svr4, input>> /\ list \in Seq(Name)
           /\ Head(list) \in Name /\ list[1] = Head(list) /\ 1 \in 1..Len(list)
           /\ list' \in Seq(Name) /\ \A i \in 1..Len(list') : i + 1 \in 1..Len(list) /\ list'[i] = list[i + 1]
  <1>1. list # <<>> /\ list' = Tail(list) /\ UNCHANGED <<svr4, input>> /\ list \in Seq(Name)
    BY DEF OutInv, Listed
  <1> QED
    BY <1>1, HeadTailProperties

\* A file of which no slot changes, with a list that does not grow.
LEMMA LastSame ==
    ASSUME NEW g, LastOf(g), Taped(g)' => Taped(g), DataLast(g) => DataLast(g)', Pending(g)' = Pending(g),
           \A i \in 1..Len(list') : \E k \in 1..Len(list) : list'[i] = list[k]
    PROVE  LastOf(g)'
  BY DEF LastOf

\* A file that is in the archive already is not in the list.
LEMMA NotTaped ==
    ASSUME OutInv, Listed, LastOf(FileOf[Head(list)]) PROVE ~Taped(FileOf[Head(list)])
  BY ListedRest DEF LastOf

\* A file whose links need no care.
LEMMA LastOutFile ==
    ASSUME OutInv, svr4, OutFile, failed = {}, failed' = {}, NEW g \in File, NLink[g] > 1, LastOf(g)
    PROVE  LastOf(g)'
  <1>1. PICK n, f : n = Head(list) /\ f = FileOf[n]
    OBVIOUS
  <1>2. Listed /\ AddFile(<<>>, n) /\ kept' = kept /\ NLink[f] = 1
    BY <1>1 DEF OutFile
  <1>3. n \in LinkOf(f) /\ f \in File
    BY <1>1, <1>2, ListedRest, CpioOutAssumption DEF CpioOutAssumption, LinkOf
  <1>4. PICK links : links = <<>>
    OBVIOUS
  <1>5. links \in Seq(LinkOf(f)) /\ AddFile(links, n)
    BY <1>2, <1>4
  <1>6. g # f
    BY <1>2
  <1>7. (Taped(g)' => Taped(g)) /\ (DataLast(g) => DataLast(g)')
    BY <1>3, <1>5, <1>6, LastAdded
  <1>8. Pending(g)' = Pending(g)
    BY <1>2 DEF Pending
  <1> QED
    BY <1>2, <1>7, <1>8, LastSame, ListedRest

\* A link is held back only while the file is not in the archive.
LEMMA LastKeepLink ==
    ASSUME OutInv, KeepLink, NEW g \in File, NLink[g] > 1, LastOf(g)
    PROVE  LastOf(g)'
  <1>1. PICK n, f : n = Head(list) /\ f = FileOf[n]
    OBVIOUS
  <1>2. Listed /\ tape' = tape /\ \A h \in DOMAIN kept : h # f => h \in DOMAIN kept' /\ kept'[h] = kept[h]
    BY <1>1 DEF KeepLink, Linked, Put
  <1>3. (Taped(g)' <=> Taped(g)) /\ (DataLast(g)' <=> DataLast(g))
    BY <1>2 DEF Taped, DataLast, OfFile
  <1>4. CASE g = f
    BY <1>1, <1>2, <1>3, <1>4, NotTaped DEF LastOf
  <1>5. CASE g # f
    <2>1. g \in DOMAIN kept' => g \in DOMAIN kept
      BY <1>1, <1>5 DEF KeepLink, Put
    <2>2. Pending(g)' = Pending(g)
      BY <1>2, <1>5, <2>1 DEF Pending
    <2> QED
      BY <1>2, <1>3, <2>2, LastSame, ListedRest
  <1> QED
    BY <1>4, <1>5

\* The last link takes those held back with it; it was the last one of the list, too.
LEMMA LastLastLink ==
    ASSUME OutInv, KeptInv, CountedInv, Once, LastLink, failed = {}, failed' = {},
           NEW g \in File, NLink[g] > 1, LastOf(g)
    PROVE  LastOf(g)'
  <1>1. PICK n, f, s : n = Head(list) /\ f = FileOf[n] /\ s = Pending(f)
    OBVIOUS
  <1>2. Listed /\ AddFile(Slot(n).lnk, n) /\ Slot(n).nlk = 1 /\ kept' = Put(kept, f, [Slot(n) EXCEPT !.nlk = 0])
    BY <1>1 DEF LastLink, Linked
  <1>3. n \in Name /\ f \in File /\ n \in LinkOf(f)
    BY <1>1, <1>2, ListedRest, CpioOutAssumption DEF CpioOutAssumption, LinkOf
  <1>4. Slot(n).lnk = s /\ 1 + Len(s) = NLink[f] /\ s \in Seq(LinkOf(f)) /\ s \in Seq(Name) /\ NLink[f] \in Nat
    BY <1>1, <1>2, <1>3, SlotIs, PendingType, CpioOutAssumption
  <1>5. /\ DOMAIN kept' = DOMAIN kept \cup {f} /\ kept'[f].nlk = 0
        /\ \A h \in DOMAIN kept : h # f => kept'[h] = kept[h]
    <2>1. Slot(n) \in [nlk : 0..NLink[f], lnk : Seq(Name)]
      BY <1>1, <1>3, SlotType, CpioOutAssumption
    <2> QED
      BY <1>2, <2>1 DEF Put
  <1>6. Pending(f)' = <<>> /\ \A h : h # f => Pending(h)' = Pending(h)
    BY <1>5 DEF Pending
  <1>7. /\ \A h : h # f => (Taped(h)' => Taped(h)) /\ (DataLast(h) => DataLast(h)')
        /\ ~Taped(f) => DataLast(f)'
    BY <1>2, <1>3, <1>4, LastAdded
  <1>8. CASE g # f
    BY <1>2, <1>6, <1>7, <1>8, LastSame, ListedRest
  <1>9. CASE g = f
    <2>1. DataLast(f)'
      BY <1>1, <1>2, <1>7, <1>9, NotTaped
    <2>2. ASSUME NEW k \in 1..Len(list'), FileOf[list'[k]] = f PROVE FALSE
      <3>1. PICK x : x = list'[k]
        OBVIOUS
      <3>2. x \in LinkOf(f) /\ x \in Name /\ Among(x, list')
        <4>1. list' \in Seq(Name) /\ k \in 1..Len(list')
          BY <1>2, ListedRest
        <4>2. x \in Name
          BY <3>1, <4>1
        <4> QED
          BY <2>2, <3>1, <4>1, <4>2 DEF LinkOf, Among
      <3>3. \A m \in LinkOf(f) : /\ Num(list, m) \in Nat /\ Num(s, m) \in Nat /\ Num(list, m) + Num(s, m) <= 1
                                /\ Num(list', m) \in Nat
                                /\ Num(list, m) = (IF n = m THEN 1 ELSE 0) + Num(list', m)
        <4> SUFFICES ASSUME NEW m \in LinkOf(f)
                     PROVE  /\ Num(list, m) \in Nat /\ Num(s, m) \in Nat /\ Num(list, m) + Num(s, m) <= 1
                            /\ Num(list', m) \in Nat
                            /\ Num(list, m) = (IF n = m THEN 1 ELSE 0) + Num(list', m)
          OBVIOUS
        <4>1. m \in Name /\ FileOf[m] = f
          BY DEF LinkOf
        <4>2. list # <<>> /\ list' = Tail(list) /\ list \in Seq(Name)
          BY <1>2, ListedRest
        <4>3. Num(list, m) = (IF n = m THEN 1 ELSE 0) + Num(list', m) /\ Num(list', m) \in Nat
          BY <1>1, <4>2, NumTail, NumType
        <4> QED
          BY <1>1, <4>1, <4>3, OnceCounted
      <3>4. Num(list', x) # 0
        BY <1>2, <3>2, ListedRest, NumType DEF Among
      <3>5. n # x /\ Num(s, n) = 0 /\ Num(s, x) = 0
        <4>1. Num(list', n) \in Nat /\ Num(list, n) = 1 + Num(list', n) /\ Num(list, n) + Num(s, n) <= 1
              /\ Num(s, n) \in Nat
          BY <1>3, <3>3
        <4>2. Num(list', x) \in Nat /\ Num(list, x) + Num(s, x) <= 1 /\ Num(s, x) \in Nat
              /\ Num(list, x) \in Nat /\ Num(list, x) >= Num(list', x)
          BY <3>2, <3>3
        <4> QED
          BY <3>4, <4>1, <4>2
      <3>6. \A i, j \in 1..Len(s) : s[i] = s[j] => i = j
        <4>1. \A m \in LinkOf(f) : Num(s, m) <= 1
          BY <3>3
        <4>2. \A i \in 1..Len(s) : s[i] \in LinkOf(f)
          BY <1>4
        <4> QED
          BY <1>4, <4>1, <4>2, NumOnce
      <3>7. PICK t : t = Append(s, n)
        OBVIOUS
      <3>8. t \in Seq(LinkOf(f)) /\ Len(t) = Len(s) + 1 /\ t[Len(s) + 1] = n
            /\ \A i \in 1..Len(s) : t[i] = s[i]
        BY <1>3, <1>4, <3>7
      <3>9. ~Among(n, s) /\ ~Among(x, s)
        <4>1. \A m : Num(s, m) = 0 => ~Among(m, s)
          BY <1>4, NumType DEF Among
        <4> QED
          BY <3>5, <4>1
      <3>10. ~Among(x, t)
        BY <1>3, <1>4, <3>5, <3>7, <3>9, AmongAppend
      <3>11. \A i, j \in 1..Len(t) : t[i] = t[j] => i = j
        <4>1. Len(s) \in Nat
          BY <1>4
        <4>2. \A i \in 1..Len(t) : i = Len(s) + 1 \/ i \in 1..Len(s)
          BY <3>8, <4>1
        <4>3. \A i \in 1..Len(s) : t[i] # n
          BY <3>8, <3>9 DEF Among
        <4> QED
          BY <3>6, <3>8, <4>2, <4>3
      <3> QED
        BY <1>3, <1>4, <3>2, <3>8, <3>10, <3>11, TooManyLinks
    <2> QED
      BY <1>6, <1>9, <2>1, <2>2 DEF LastOf
  <1> QED
    BY <1>8, <1>9

\* What waits for links that nobody listed comes at last.
LEMMA LastLFlush ==
    ASSUME OutInv, KeptInv, NEW f \in File, LFlush(f), failed = {}, failed' = {},
           NEW g \in File, NLink[g] > 1, LastOf(g)
    PROVE  LastOf(g)'
  <1>1. /\ f \in DOMAIN kept /\ kept[f].nlk > 0 /\ kept[f].lnk # <<>>
        /\ kept[f] \in [nlk : 0..NLink[f], lnk : Seq(Name)] /\ kept[f].lnk \in Seq(LinkOf(f))
    BY DEF LFlush, Unfinished, OutInv, KeptInv
  <1>2. PICK s, t, n : s = kept[f].lnk /\ t = SubSeq(s, 1, Len(s) - 1) /\ n = s[Len(s)]
    OBVIOUS
  <1>3. t \in Seq(LinkOf(f)) /\ n \in LinkOf(f)
    BY <1>1, <1>2, BeginAndLast
  <1>4. AddFile(t, n) /\ kept' = [kept EXCEPT ![f].nlk = 0] /\ list' = list /\ list = <<>>
    BY <1>2 DEF LFlush
  <1>5. /\ DOMAIN kept' = DOMAIN kept /\ kept'[f].nlk = 0
        /\ \A h \in DOMAIN kept : h # f => kept'[h] = kept[h]
    BY <1>1, <1>4
  <1>6. Pending(f)' = <<>> /\ \A h : h # f => Pending(h)' = Pending(h)
    BY <1>5 DEF Pending
  <1>7. /\ \A h : h # f => (Taped(h)' => Taped(h)) /\ (DataLast(h) => DataLast(h)')
        /\ ~Taped(f) => DataLast(f)'
    BY <1>3, <1>4, LastAdded
  <1>8. CASE g # f
    BY <1>4, <1>6, <1>7, <1>8, LastSame
  <1>9. CASE g = f
    <2>1. ~Taped(f)
      BY <1>1, <1>9 DEF LastOf, Pending
    <2>2. \A i \in 1..Len(list') : FALSE
      BY <1>4
    <2> QED
      BY <1>6, <1>7, <1>9, <2>1, <2>2 DEF LastOf
  <1> QED
    BY <1>8, <1>9

\* At first nothing is in the archive.
LEMMA LastFirst == Init => LastInv
  <1> SUFFICES ASSUME Init, Once, NEW f PROVE LastOf(f)
    BY DEF LastInv
  <1>1. tape = <<>>
    BY DEF Init, OutInit, Once, Own
  <1> QED
    BY <1>1 DEF LastOf, Taped

\* Every step leaves the data with the last link.
LEMMA LastStep == Inv /\ (Own => CountInv) /\ LastInv /\ [Next]_vars => LastInv'
  <1> SUFFICES ASSUME Inv, Own => CountInv, LastInv, [Next]_vars, Once', svr4', failed' = {},
                      NEW g \in File, NLink[g] > 1
               PROVE  LastOf(g)'
    BY DEF LastInv
  <1>1. UNCHANGED archive \/ OutNext
    <2>1. UNCHANGED vars => UNCHANGED archive
      BY DEF vars, outVars
    <2> QED
      BY <2>1, Reads DEF Next, CopyOut
  <1>2. UNCHANGED <<svr4, input>>
    BY <1>1 DEF archive, OutNext, LstatFails, OutFile, KeepLink, LastLink, LFlush, Listed, Linked
  <1>3. failed = {} /\ ~LstatFails
    BY <1>1 DEF archive, OutNext, LstatFails, OutFile, KeepLink, LastLink, LFlush, AddFile
  <1>4. Once /\ OutInv /\ KeptInv /\ CountedInv /\ svr4
    <2>1. Once
      BY <1>2 DEF Once, Own, Count
    <2> QED
      BY <1>2, <2>1 DEF Once, Inv, CountInv
  <1>5. LastOf(g)
    BY <1>3, <1>4 DEF LastInv
  <1>6. CASE UNCHANGED archive
    BY <1>5, <1>6 DEF archive, LastOf, Taped, DataLast, OfFile, Pending
  <1> QED
    BY <1>1, <1>3, <1>4, <1>5, <1>6, LastOutFile, LastKeepLink, LastLastLink, LastLFlush DEF OutNext

\* No entry of f is left in the archive; and none of its links is waiting for another.
Closed(f) == \A i \in 1..Len(tape) : i > pos => ~OfFile(i, f)
Idle(f) == node = f \/ f \notin DOMAIN isl \/ isl[f].nlk = 0

\* storelink() has each link that was read once, until there are no more.
LinksRead(f) ==
    /\ f \in DOMAIN isl =>
          /\ \A i, j \in 1..Len(isl[f].lnk) : isl[f].lnk[i] = isl[f].lnk[j] => i = j
          /\ \A n \in LinkOf(f) : Among(n, isl[f].lnk) => Came(n)
    /\ IF Idle(f) THEN (\E n \in LinkOf(f) : Came(n)) => Closed(f)
       ELSE \A n \in LinkOf(f) : Came(n) => Among(n, isl[f].lnk)

ReadInv == Once /\ Clean /\ svr4 => \A f \in File : NLink[f] > 1 => LinksRead(f)

\* The archive has no name twice.
LEMMA OncePlace ==
    ASSUME Inv, CountInv, EndInv, Clean, Once,
           NEW i \in 1..Len(tape), NEW j \in 1..Len(tape), tape[i].name = tape[j].name
    PROVE  i = j
  <1>1. tape[i].name \in Name \ failed /\ OutDone /\ input \in Seq(Name)
    BY DEF Inv, OutInv, Heads, EndInv, Clean
  <1>2. PICK n \in Name \ failed : n = tape[i].name
    BY <1>1
  <1>3. PICK s : s = NamesOf(tape)
    OBVIOUS
  <1>4. /\ Num(s, n) = Num(input, n) /\ s \in Seq(Name) /\ Len(s) = Len(tape)
        /\ \A k \in 1..Len(tape) : s[k] = tape[k].name
    BY <1>1, <1>3, TapeNames
  <1>5. Num(s, n) <= 1
    <2>1. Num(s, n) \in Nat
      BY <1>4, NumType
    <2>2. Num(s, n) \in {0, 1}
      BY <1>1, <1>4, <2>1, OnceNum
    <2> QED
      BY <2>2
  <1> QED
    BY <1>2, <1>4, <1>5, NumOnce

\* So the name that is read is a new one.
LEMMA HeaderNew ==
    ASSUME Inv, CountInv, EndInv, Clean, Once, ReadHeader
    PROVE  ~Came(Header.name) /\ Header.name \in Name
  <1>1. pos + 1 \in 1..Len(tape) /\ pos \in Nat /\ pc = "next" /\ Header.name \in LinkOf(FileOf[Header.name])
    BY ReadOne DEF Inv, NameInv
  <1>2. ASSUME Came(Header.name) PROVE FALSE
    <2>1. PICK i \in 1..Len(tape) : i <= pos /\ tape[i].name = tape[pos + 1].name
      BY <1>2 DEF Came, Header
    <2>2. i = pos + 1
      BY <1>1, <2>1, OncePlace
    <2> QED
      BY <1>1, <2>1, <2>2
  <1> QED
    BY <1>1, <1>2 DEF LinkOf

\* A file of which nothing is read.
LEMMA LinksSame ==
    ASSUME NEW f, tape' = tape, node = f <=> node' = f,
           f \in DOMAIN isl => f \in DOMAIN isl' /\ isl'[f].nlk = isl[f].nlk /\ isl'[f].lnk = isl[f].lnk,
           f \in DOMAIN isl' /\ f \notin DOMAIN isl => isl'[f].nlk = 0 /\ isl'[f].lnk = <<>>,
           \A n \in LinkOf(f) : Came(n)' <=> Came(n), Closed(f) => Closed(f)', LinksRead(f)
    PROVE  LinksRead(f)'
  <1>1. Idle(f)' <=> Idle(f)
    BY DEF Idle
  <1>2. ASSUME f \in DOMAIN isl'
        PROVE  /\ \A i, j \in 1..Len(isl'[f].lnk) : isl'[f].lnk[i] = isl'[f].lnk[j] => i = j
               /\ \A n \in LinkOf(f) : Among(n, isl'[f].lnk) => Came(n)'
    <2>1. CASE f \in DOMAIN isl
      BY <2>1 DEF LinksRead
    <2>2. CASE f \notin DOMAIN isl
      <3>1. isl'[f].lnk = <<>>
        BY <1>2, <2>2
      <3> QED
        BY <3>1, AmongNone
    <2> QED
      BY <2>1, <2>2
  <1>3. ASSUME ~Idle(f)' PROVE \A n \in LinkOf(f) : Came(n)' => Among(n, isl'[f].lnk)
    <2>1. ~Idle(f) /\ f \in DOMAIN isl
      BY <1>1, <1>3 DEF Idle
    <2> QED
      BY <2>1 DEF LinksRead
  <1>4. ASSUME Idle(f)', NEW n \in LinkOf(f), Came(n)' PROVE Closed(f)'
    BY <1>1, <1>4 DEF LinksRead
  <1> QED
    BY <1>2, <1>3, <1>4 DEF LinksRead

\* What comes with a header changes nothing for other files.
LEMMA OtherRead ==
    ASSUME Inv, ReadHeader, NEW f, FileOf[Header.name] # f
    PROVE  (\A n \in LinkOf(f) : Came(n)' <=> Came(n)) /\ (Closed(f) => Closed(f)') /\ tape' = tape
  <1>1. \A n \in LinkOf(f) : n # Header.name
    BY DEF LinkOf
  <1>2. \A n : Came(n)' <=> Came(n) \/ n = Header.name
    BY CameNext
  <1>3. tape' = tape /\ pos' = pos + 1 /\ pos \in Nat
    BY DEF ReadHeader, outVars, archive, Inv, NameInv
  <1> QED
    BY <1>1, <1>2, <1>3 DEF Closed, OfFile

\* The begin of flushnode() at the last of the links.
LEMMA FlushRead ==
    ASSUME IslInv, svr4, SlotInv, pc \in {"next", "rest"}, NEW f \in File, NEW n \in LinkOf(f) \cup {None},
           FlushNode(f, n), svr4' = svr4, pc' # "exit"
    PROVE  /\ Closed(f)' => LinksRead(f)'
           /\ \A g \in File : g # f => /\ node = g <=> node' = g
                                       /\ g \in DOMAIN isl <=> g \in DOMAIN isl'
                                       /\ g \in DOMAIN isl => isl'[g] = isl[g]
  <1>1. /\ SlotInv' /\ DOMAIN isl' = DOMAIN isl /\ (\A g \in DOMAIN isl : g # f => isl'[g] = isl[g])
        /\ node' \in {f, None} /\ (f \in DOMAIN isl => node' = f) /\ node = None
    BY FlushSlots
  <1>2. None \notin File
    BY CpioAssumption DEF CpioAssumption
  <1>3. f \in DOMAIN isl' => isl'[f].lnk = <<>>
    BY <1>1, <1>2 DEF SlotInv, TodoSlot
  <1>4. Idle(f)'
    BY <1>1 DEF Idle
  <1>5. Closed(f)' => LinksRead(f)'
    BY <1>3, <1>4, AmongNone DEF LinksRead
  <1> QED
    BY <1>1, <1>2, <1>5

\* Where cpio -i is with an archive in which links wait and no name is twice.
Sharing ==
    /\ Inv /\ CountInv /\ WaitInv /\ FillInv /\ LastInv /\ ReadInv
    /\ Once /\ Clean /\ svr4 /\ Next /\ Clean'

\* The facts about a file with links, wherever cpio -i is.
LEMMA WhatIsRead ==
    ASSUME Sharing, NEW f \in File, NLink[f] > 1
    PROVE  /\ LinksRead(f) /\ SlotInv /\ FileSlot(f) /\ TodoSlot /\ EndInv /\ IslInv /\ LastOf(f)
           /\ UNCHANGED archive /\ pos \in 0..Len(tape) + 1 /\ Len(tape) \in Nat /\ svr4' = svr4
           /\ NLink[f] \in Nat \ {0} /\ pc' # "exit"
  <1>1. LinksRead(f) /\ LastOf(f) /\ SlotInv /\ EndInv /\ FileSlot(f) /\ TodoSlot /\ pc' # "exit"
    BY DEF Sharing, ReadInv, LastInv, Clean, WaitInv, SlotInv, FillInv
  <1>2. UNCHANGED archive
    BY StaysClean DEF Sharing, Clean
  <1>3. svr4' = svr4
    BY <1>2 DEF archive
  <1>4. pos \in 0..Len(tape) + 1 /\ Len(tape) \in Nat /\ IslInv
    BY DEF Sharing, Inv, NameInv, OutInv
  <1> QED
    BY <1>1, <1>2, <1>3, <1>4, FileLinks

\* A header of a file without links.
LEMMA ReadTakeFile ==
    ASSUME Sharing, TakeFile, NEW f \in File, NLink[f] > 1 PROVE LinksRead(f)'
  <1>1. FileOf[Header.name] # f /\ UNCHANGED <<isl, node>> /\ ReadHeader
    BY WhatIsRead DEF TakeFile, Waits, Sharing
  <1>2. (\A n \in LinkOf(f) : Came(n)' <=> Came(n)) /\ (Closed(f) => Closed(f)') /\ tape' = tape
    BY <1>1, OtherRead DEF Sharing
  <1> QED
    BY <1>1, <1>2, LinksSame, WhatIsRead

\* The header with the data is the last one of its file.
LEMMA ReadFlushLinks ==
    ASSUME Sharing, FlushLinks, NEW f \in File, NLink[f] > 1 PROVE LinksRead(f)'
  <1>1. PICK n, g : n = Header.name /\ g = FileOf[n]
    OBVIOUS
  <1>2. ReadHeader /\ Header.data /\ FlushNode(g, n) /\ pc = "next" /\ NLink[g] > 1
    BY <1>1 DEF FlushLinks, ReadHeader, Waits
  <1>3. g \in File /\ n \in LinkOf(g) /\ pos + 1 \in 1..Len(tape) /\ tape' = tape /\ pos' = pos + 1
    <2>1. pos' = pos + 1
      BY <1>2 DEF ReadHeader
    <2> QED
      BY <1>1, <1>2, <2>1, ReadOne DEF Sharing, archive
  <1>4. CASE f = g
    <2>1. OfFile(pos + 1, f) /\ tape[pos + 1].data
      BY <1>1, <1>2, <1>4 DEF OfFile, Header
    <2>2. DataLast(f)
      BY <1>3, <2>1, WhatIsRead DEF LastOf, Taped
    <2>3. Closed(f)'
      BY <1>3, <2>1, <2>2 DEF Closed, DataLast, OfFile
    <2> QED
      BY <1>2, <1>3, <1>4, <2>3, FlushRead, WhatIsRead DEF Sharing
  <1>5. CASE f # g
    <2>1. (\A m \in LinkOf(f) : Came(m)' <=> Came(m)) /\ (Closed(f) => Closed(f)') /\ tape' = tape
      BY <1>1, <1>2, <1>5, OtherRead DEF Sharing
    <2>2. /\ node = f <=> node' = f
          /\ f \in DOMAIN isl <=> f \in DOMAIN isl'
          /\ f \in DOMAIN isl => isl'[f] = isl[f]
      BY <1>2, <1>3, <1>5, FlushRead, WhatIsRead DEF Sharing
    <2> QED
      BY <2>1, <2>2, LinksSame, WhatIsRead
  <1> QED
    BY <1>4, <1>5

\* One less than m + 1 - k is no less than m - 1.
LEMMA Enough == \A c, m \in Nat, k \in 1..2 : k + c = m + 1 => c + 1 >= m
  OBVIOUS

\* So is the last one that storelink() counts.
LEMMA ReadFlushEmpty ==
    ASSUME Sharing, FlushEmpty, NEW f \in File, NLink[f] > 1 PROVE LinksRead(f)'
  <1>1. PICK n, g : n = Header.name /\ g = FileOf[n]
    OBVIOUS
  <1>2. /\ ReadHeader /\ FlushNode(g, n) /\ pc = "next" /\ NLink[g] > 1
        /\ g \in DOMAIN isl /\ isl[g].nlk \in 1..2
    BY <1>1 DEF FlushEmpty, ReadHeader, Waits
  <1>3. g \in File /\ n \in LinkOf(g) /\ pos + 1 \in 1..Len(tape) /\ tape' = tape /\ pos' = pos + 1
    <2>1. pos' = pos + 1
      BY <1>2 DEF ReadHeader
    <2> QED
      BY <1>1, <1>2, <2>1, ReadOne DEF Sharing, archive
  <1>4. CASE f = g
    <2>1. LinksRead(f) /\ SlotInv /\ FileSlot(f) /\ TodoSlot /\ IslInv /\ NLink[f] \in Nat
      BY WhatIsRead
    <2>2. PICK s : s = isl[f].lnk
      OBVIOUS
    <2>3. s \in Seq(LinkOf(f)) /\ Len(s) \in Nat
      BY <1>2, <1>4, <2>1, <2>2, SlotTypes
    <2>4. Len(s) + 1 >= NLink[f]
      <3>1. node = None
        BY <1>2, <2>1 DEF TodoSlot
      <3>2. node # f
        BY <3>1, CpioAssumption DEF CpioAssumption
      <3>3. isl[f].nlk + Len(s) = NLink[f] + 1
        BY <1>2, <1>4, <2>1, <2>2, <3>2, OneOrTwo DEF FileSlot
      <3> QED
        BY <1>2, <1>4, <2>1, <2>3, <3>3, Enough
    <2>5. ~Came(n) /\ \A m \in LinkOf(f) : Among(m, s) => Came(m)
      BY <1>1, <1>2, <1>4, <2>1, <2>2, HeaderNew DEF Sharing, FillInv, LinksRead
    <2>6. \A i, j \in 1..Len(s) : s[i] = s[j] => i = j
      BY <1>2, <1>4, <2>1, <2>2 DEF LinksRead
    <2>7. \A m \in LinkOf(f) : Came(m)'
      <3> SUFFICES ASSUME NEW m \in LinkOf(f), ~Came(m)' PROVE FALSE
        OBVIOUS
      <3>1. ~Came(m) /\ m # n
        BY <1>1, <1>2, CameNext DEF Sharing
      <3>2. PICK t : t = Append(s, n)
        OBVIOUS
      <3>3. t \in Seq(LinkOf(f)) /\ Len(t) = Len(s) + 1 /\ t[Len(s) + 1] = n /\ \A i \in 1..Len(s) : t[i] = s[i]
        BY <1>3, <1>4, <2>3, <3>2
      <3>4. ~Among(m, t)
        BY <1>3, <1>4, <2>3, <2>5, <3>1, <3>2, AmongAppend
      <3>5. \A i, j \in 1..Len(t) : t[i] = t[j] => i = j
        <4>1. \A i \in 1..Len(t) : i = Len(s) + 1 \/ i \in 1..Len(s)
          BY <2>3, <3>3
        <4>2. \A i \in 1..Len(s) : t[i] # n
          BY <1>3, <1>4, <2>5, <3>3 DEF Among
        <4> QED
          BY <2>6, <3>3, <4>1, <4>2
      <3> QED
        BY <2>4, <3>3, <3>4, <3>5, TooManyLinks
    <2>8. Closed(f)'
      <3> SUFFICES ASSUME NEW i \in 1..Len(tape), i > pos + 1, OfFile(i, f) PROVE FALSE
        BY <1>3 DEF Closed, OfFile
      <3>1. PICK m \in LinkOf(f) : m = tape[i].name
        BY DEF LinkOf, OfFile, Sharing, Inv, OutInv, Heads
      <3>2. Came(m)'
        BY <2>7
      <3>3. PICK j \in 1..Len(tape) : j <= pos + 1 /\ tape[j].name = tape[i].name
        BY <1>3, <3>1, <3>2 DEF Came
      <3>4. j = i
        BY <3>3, OncePlace DEF Sharing, FillInv
      <3> QED
        BY <1>3, <3>3, <3>4
    <2> QED
      BY <1>2, <1>3, <1>4, <2>8, FlushRead, WhatIsRead DEF Sharing
  <1>5. CASE f # g
    <2>1. (\A m \in LinkOf(f) : Came(m)' <=> Came(m)) /\ (Closed(f) => Closed(f)') /\ tape' = tape
      BY <1>1, <1>2, <1>5, OtherRead DEF Sharing
    <2>2. /\ node = f <=> node' = f
          /\ f \in DOMAIN isl <=> f \in DOMAIN isl'
          /\ f \in DOMAIN isl => isl'[f] = isl[f]
      BY <1>2, <1>3, <1>5, FlushRead, WhatIsRead DEF Sharing
    <2> QED
      BY <2>1, <2>2, LinksSame, WhatIsRead
  <1> QED
    BY <1>4, <1>5

\* One link more is held.
LEMMA ReadStoreLink ==
    ASSUME Sharing, StoreLink, NEW f \in File, NLink[f] > 1 PROVE LinksRead(f)'
  <1>1. PICK n, g : n = Header.name /\ g = FileOf[n]
    OBVIOUS
  <1>2. ReadHeader /\ pc = "next" /\ NLink[g] > 1 /\ node' = node
    BY <1>1 DEF StoreLink, ReadHeader, Waits
  <1>3. g \in File /\ n \in LinkOf(g) /\ pos + 1 \in 1..Len(tape) /\ tape' = tape /\ pos' = pos + 1
    <2>1. pos' = pos + 1
      BY <1>2 DEF ReadHeader
    <2> QED
      BY <1>1, <1>2, <2>1, ReadOne DEF Sharing, archive
  <1>4. /\ DOMAIN isl' = DOMAIN isl \cup {g} /\ (\A h \in DOMAIN isl : h # g => isl'[h] = isl[h])
        /\ isl'[g].nlk \in Nat /\ isl'[g].nlk > 0
    BY <1>1, StoredSlot DEF Sharing, WaitInv
  <1>5. CASE f = g
    <2>1. LinksRead(f) /\ FileSlot(f) /\ TodoSlot /\ IslInv
      BY WhatIsRead
    <2>2. PICK s : s = IF f \in DOMAIN isl THEN isl[f].lnk ELSE <<>>
      OBVIOUS
    <2>3. s \in Seq(LinkOf(f))
      BY <2>1, <2>2, SlotTypes
    <2>4. isl'[f].lnk = Append(s, n)
      <3>1. \A k, l, m : isl' = NewSlot(f, k, l, m) => isl'[f].lnk = l
        BY DEF NewSlot, Put
      <3>2. \/ f \notin DOMAIN isl /\ isl' = NewSlot(f, NLink[f], <<n>>, None)
            \/ f \in DOMAIN isl /\ isl' = NewSlot(f, NLink[f], Append(isl[f].lnk, n), None)
            \/ f \in DOMAIN isl /\ isl' = NewSlot(f, isl[f].nlk - 1, Append(isl[f].lnk, n), isl[f].name)
        BY <1>1, <1>5, Zenon DEF StoreLink
      <3>3. \/ f \notin DOMAIN isl /\ isl'[f].lnk = <<n>>
            \/ f \in DOMAIN isl /\ isl'[f].lnk = Append(isl[f].lnk, n)
        BY <3>1, <3>2, Zenon
      <3>4. CASE f \in DOMAIN isl
        BY <2>2, <3>3, <3>4, Zenon
      <3>5. CASE f \notin DOMAIN isl
        <4>1. <<n>> = Append(<<>>, n)
          OBVIOUS
        <4>2. s = <<>>
          BY <2>2, <3>5
        <4> QED
          BY <3>3, <3>5, <4>1, <4>2, Zenon
      <3> QED
        BY <3>4, <3>5
    <2>5. ~Came(n) /\ \A m \in LinkOf(f) : Among(m, s) => Came(m)
      <3>1. ~Came(n)
        BY <1>1, <1>2, HeaderNew DEF Sharing, FillInv
      <3> QED
        BY <2>1, <2>2, <3>1, AmongNone DEF LinksRead
    <2>6. \A i, j \in 1..Len(s) : s[i] = s[j] => i = j
      BY <2>1, <2>2 DEF LinksRead
    <2>7. PICK t : t = Append(s, n)
      OBVIOUS
    <2>8. /\ t \in Seq(LinkOf(f)) /\ Len(t) = Len(s) + 1 /\ Len(s) \in Nat /\ t[Len(s) + 1] = n
          /\ \A i \in 1..Len(s) : t[i] = s[i]
      BY <1>3, <1>5, <2>3, <2>7
    <2>9. \A m : Among(m, t) <=> m = n \/ Among(m, s)
      BY <1>3, <1>5, <2>3, <2>7, AmongAppend
    <2>10. \A i, j \in 1..Len(t) : t[i] = t[j] => i = j
      <3>1. \A i \in 1..Len(t) : i = Len(s) + 1 \/ i \in 1..Len(s)
        BY <2>8
      <3>2. \A i \in 1..Len(s) : t[i] # n
        BY <1>3, <1>5, <2>5, <2>8 DEF Among
      <3> QED
        BY <2>6, <2>8, <3>1, <3>2
    <2>11. \A m : Came(m)' <=> Came(m) \/ m = n
      BY <1>1, <1>2, CameNext DEF Sharing
    <2>12. ~Idle(f)'
      <3>1. node' = None
        BY <1>2, <2>1 DEF TodoSlot
      <3>2. node' # f
        BY <3>1, CpioAssumption DEF CpioAssumption
      <3> QED
        BY <1>4, <1>5, <3>2 DEF Idle
    <2>13. ASSUME NEW m \in LinkOf(f), Came(m)' PROVE Among(m, t)
      <3>1. CASE m = n
        BY <2>9, <3>1
      <3>2. CASE m # n
        <4>1. Came(m)
          BY <2>11, <2>13, <3>2
        <4>2. ~Closed(f)
          BY <1>1, <1>3, <1>5, WhatIsRead DEF Closed, OfFile, Header
        <4>3. f \in DOMAIN isl /\ Among(m, isl[f].lnk)
          BY <2>1, <4>1, <4>2 DEF LinksRead, Idle
        <4> QED
          BY <2>2, <2>9, <4>3
      <3> QED
        BY <3>1, <3>2
    <2>14. \A m \in LinkOf(f) : Among(m, t) => Came(m)'
      BY <2>5, <2>9, <2>11
    <2> QED
      BY <2>4, <2>7, <2>10, <2>12, <2>13, <2>14 DEF LinksRead
  <1>6. CASE f # g
    <2>1. (\A m \in LinkOf(f) : Came(m)' <=> Came(m)) /\ (Closed(f) => Closed(f)')
      BY <1>1, <1>2, <1>6, OtherRead DEF Sharing
    <2> QED
      BY <1>2, <1>3, <1>4, <1>6, <2>1, LinksSame, WhatIsRead
  <1> QED
    BY <1>5, <1>6

\* Behind the end of the archive there is no entry.
LEMMA ReadEnd ==
    ASSUME Sharing, Trailer \/ \E g \in File : FlushRest(g), NEW f \in File, NLink[f] > 1
    PROVE  LinksRead(f)'
  <1>1. tape' = tape /\ pos \in Nat /\ Len(tape) \in Nat /\ pos' \in {pos, pos + 1} /\ pos >= Len(tape)
    <2>1. EndInv /\ UNCHANGED archive /\ pos \in 0..Len(tape) + 1 /\ Len(tape) \in Nat
      BY WhatIsRead
    <2>2. (pc = "next" /\ pos = Len(tape) /\ pos' = pos + 1) \/ (pc = "rest" /\ pos' = pos)
      BY DEF Trailer, FlushRest
    <2>3. pc = "rest" => pos > Len(tape)
      BY <2>1 DEF EndInv
    <2>4. tape' = tape
      BY <2>1 DEF archive
    <2> QED
      BY <2>1, <2>2, <2>3, <2>4
  <1>2. \A n : Came(n)' <=> Came(n)
    <2>1. \A i \in 1..Len(tape) : i <= pos /\ i <= pos'
      BY <1>1
    <2> QED
      BY <1>1, <2>1 DEF Came
  <1>3. \A h : Closed(h)'
    <2>1. \A i \in 1..Len(tape) : ~(i > pos')
      BY <1>1
    <2> QED
      BY <1>1, <2>1 DEF Closed
  <1>4. CASE Trailer
    <2>1. UNCHANGED <<isl, node>>
      BY <1>4 DEF Trailer
    <2> QED
      BY <1>1, <1>2, <1>3, <2>1, LinksSame, WhatIsRead
  <1>5. ASSUME NEW g \in File, FlushRest(g) PROVE LinksRead(f)'
    <2>1. pc = "rest" /\ FlushNode(g, None)
      BY <1>5 DEF FlushRest
    <2>2. /\ Closed(g)' => LinksRead(g)'
          /\ \A h \in File : h # g => /\ node = h <=> node' = h
                                      /\ h \in DOMAIN isl <=> h \in DOMAIN isl'
                                      /\ h \in DOMAIN isl => isl'[h] = isl[h]
      BY <2>1, FlushRead, WhatIsRead DEF Sharing
    <2>3. CASE f = g
      BY <1>3, <2>2, <2>3
    <2>4. CASE f # g
      <3>1. /\ node = f <=> node' = f
            /\ f \in DOMAIN isl <=> f \in DOMAIN isl'
            /\ f \in DOMAIN isl => isl'[f] = isl[f]
        BY <2>2, <2>4
      <3> QED
        BY <1>1, <1>2, <1>3, <3>1, LinksSame, WhatIsRead
    <2> QED
      BY <2>3, <2>4
  <1> QED
    BY <1>4, <1>5

\* The end of flushnode() leaves no link held.
LEMMA ReadNodeDone ==
    ASSUME Sharing, NodeDone, NEW f \in File, NLink[f] > 1 PROVE LinksRead(f)'
  <1>1. /\ tape' = tape /\ UNCHANGED pos /\ node' = None
        /\ isl' = IF node = None THEN isl
                  ELSE [isl EXCEPT ![node].nlk = 0, ![node].name = IF isl[node].nlk > 2 THEN @ ELSE None]
    BY DEF NodeDone, outVars, archive
  <1>2. (\A n : Came(n)' <=> Came(n)) /\ \A g : Closed(g)' <=> Closed(g)
    BY <1>1 DEF Came, Closed, OfFile
  <1>3. LinksRead(f) /\ TodoSlot /\ IslInv
    BY WhatIsRead
  <1>4. f # None
    BY CpioAssumption DEF CpioAssumption
  <1>5. CASE node = f
    <2>1. f \in DOMAIN isl /\ isl[f].lnk = <<>>
      BY <1>3, <1>4, <1>5 DEF TodoSlot
    <2>2. f \in DOMAIN isl' /\ isl'[f].lnk = <<>> /\ isl'[f].nlk = 0
      BY <1>1, <1>3, <1>4, <1>5, <2>1 DEF IslInv
    <2>3. (\E n \in LinkOf(f) : Came(n)') => Closed(f)'
      BY <1>2, <1>3, <1>5 DEF LinksRead, Idle
    <2> QED
      BY <2>2, <2>3, AmongNone DEF LinksRead, Idle
  <1>6. CASE node # f
    <2>1. /\ f \in DOMAIN isl <=> f \in DOMAIN isl'
          /\ f \in DOMAIN isl => isl'[f] = isl[f]
      BY <1>1, <1>6
    <2>2. node = f <=> node' = f
      BY <1>1, <1>4, <1>6
    <2> QED
      BY <1>1, <1>2, <1>3, <2>1, <2>2, LinksSame
  <1> QED
    BY <1>5, <1>6

\* filein() reads no header.
LEMMA ReadExtracts ==
    ASSUME Sharing, Extracts, NEW f \in File, NLink[f] > 1 PROVE LinksRead(f)'
  <1>1. UNCHANGED <<archive, given, pos, node, sig>> /\ (NewFile \/ (MakeLink /\ ~svr4) \/ isl' = isl)
    BY FileSteps
  <1>2. SameSlots
    <2>1. svr4 /\ Inv /\ WaitInv
      BY DEF Sharing
    <2>2. CASE NewFile
      BY <2>1, <2>2, NewFileSlots
    <2>3. CASE isl' = isl
      BY <2>3 DEF SameSlots
    <2> QED
      BY <1>1, <2>1, <2>2, <2>3
  <1>3. (\A n : Came(n)' <=> Came(n)) /\ (Closed(f)' <=> Closed(f)) /\ tape' = tape /\ node' = node
    BY <1>1 DEF Came, Closed, OfFile, archive
  <1>4. /\ f \in DOMAIN isl => f \in DOMAIN isl' /\ isl'[f].nlk = isl[f].nlk /\ isl'[f].lnk = isl[f].lnk
        /\ f \in DOMAIN isl' /\ f \notin DOMAIN isl => isl'[f].nlk = 0 /\ isl'[f].lnk = <<>>
    BY <1>2 DEF SameSlots
  <1> QED
    BY <1>3, <1>4, LinksSame, WhatIsRead

\* At the begin of cpio -i nothing has been read.
LEMMA ReadBegin ==
    ASSUME Inv, WaitInv, CopyOut \/ Start PROVE ReadInv'
  <1> SUFFICES ASSUME Clean', svr4', NEW f \in File PROVE LinksRead(f)'
    BY DEF ReadInv
  <1>1. Start
    BY DEF CopyOut, inVars, Clean
  <1>2. pc = "out" /\ UNCHANGED <<archive, reader>>
    BY <1>1 DEF Start, outVars
  <1>3. isl = <<>> /\ pos = 0
    BY <1>2 DEF WaitInv, SlotInv, archive
  <1>4. DOMAIN isl' = {} /\ pos' = 0
    BY <1>2, <1>3 DEF reader
  <1>5. \A n : ~Came(n)'
    BY <1>4 DEF Came
  <1> QED
    BY <1>4, <1>5 DEF LinksRead, Idle

\* Every step leaves the links where they belong.
LEMMA ReadStep ==
    ASSUME Inv, Own => CountInv, WaitInv, FillInv, LastInv, ReadInv, [Next]_vars PROVE ReadInv'
  <1>1. CASE UNCHANGED vars
    <2>1. UNCHANGED <<archive, given, inVars>>
      BY <1>1 DEF vars, outVars, inVars
    <2>2. UNCHANGED <<svr4, input, tape, failed, isl, node, pos, pc, errcnt>>
      BY <2>1 DEF archive, inVars, reader
    <2>3. Once' = Once /\ Clean' = Clean
      BY <2>2 DEF Once, Own, Count, Clean
    <2>4. \A f : LinksRead(f) => LinksRead(f)'
      BY <2>2 DEF LinksRead, Idle, Closed, Came, OfFile
    <2> QED
      BY <2>2, <2>3, <2>4 DEF ReadInv
  <1>2. CASE Next /\ pc = "out"
    BY <1>2, Phases, ReadBegin DEF Places
  <1>3. CASE Next /\ pc # "out"
    <2> SUFFICES ASSUME Once', Clean', svr4', NEW f \in File, NLink[f] > 1 PROVE LinksRead(f)'
      BY DEF ReadInv
    <2>1. Clean /\ UNCHANGED archive
      BY <1>3, StaysClean
    <2>2. Once /\ svr4
      BY <2>1 DEF archive, Once, Own, Count
    <2>3. Sharing
      BY <1>3, <2>1, <2>2 DEF Sharing, Once
    <2>4. Doinp /\ ~Exit /\ ~TapeEnds
      BY <1>3, Phases DEF Places, Clean, Interrupt, Exit, TapeEnds
    <2>5. CASE Reading
      BY <2>3, <2>4, <2>5, ReadTakeFile, ReadFlushLinks, ReadFlushEmpty, ReadStoreLink, ReadEnd,
         ReadNodeDone DEF Reading
    <2>6. CASE Extracts
      BY <2>3, <2>6, ReadExtracts
    <2> QED
      BY <2>4, <2>5, <2>6, Kinds DEF Extracts
  <1> QED
    BY <1>1, <1>2, <1>3

\* canlink() says that names of f are linked to the first of them.
Joins(f) == NLink[f] > 1 /\ (svr4 => Shares(f))

\* What has been extracted of f is that first one, or a link to it.
HomeInv ==
    \A n \in Name : Finished(n) /\ Joins(FileOf[n]) =>
        Named(FileOf[n]) /\ dir[n] = dir[isl[FileOf[n]].name]

\* tgt becomes the first one, or is a link to it already.
TgtHome ==
    pc \in Filling /\ Joins(file) =>
        /\ Named(file)
        /\ \/ isl[file].name = tgt
           \/ /\ pc \in {"creat", "write", "tunlink", "unlink"}
              /\ dir[isl[file].name] = dir[tgt] /\ Exists(tgt)

\* When there is a name of the file already tgt is made a link.
TgtJoin == Busy => \A n \in Name : Finished(n) /\ FileOf[n] = file => Joins(file) /\ pc \notin Making

\* The names of one file are links to one inode.
Joined == \A n, m \in Name : Finished(n) /\ Finished(m) /\ FileOf[n] = FileOf[m] => dir[n] = dir[m]

\* The old formats count down the links, and so never beyond those that are still to come.
ToCome(f) == {n \in LinkOf(f) : ~Came(n)}
Choice(f) == IF pc = "inpone" /\ own # None /\ FileOf[own] = f THEN 1 ELSE 0
OldLinks ==
    ~svr4 => /\ own # None => Came(own)
             /\ \A f \in DOMAIN isl : isl[f].nlk > Cardinality(ToCome(f)) + Choice(f)

JoinInv == Once /\ Clean => HomeInv /\ TgtHome /\ TgtJoin /\ Joined /\ OldLinks

\* Where cpio -i is with an archive in which no name is twice.
Telling ==
    /\ Inv /\ CountInv /\ WaitInv /\ FillInv /\ LastInv /\ ReadInv
    /\ HomeInv /\ TgtHome /\ TgtJoin /\ Joined /\ OldLinks
    /\ Once /\ Clean /\ Next /\ Clean'

\* The facts that every step of cpio -i needs.
LEMMA TellingSame ==
    ASSUME Telling
    PROVE  /\ UNCHANGED <<svr4, input, list, kept, tape, failed, wanted>> /\ (svr4 => Sharing) /\ svr4 \in BOOLEAN
           /\ pos \in 0..Len(tape) + 1 /\ Len(tape) \in Nat /\ pc # "out" /\ pc' # "exit" /\ None \notin Name
           /\ IslInv /\ OldInv /\ EndInv /\ (svr4 => TodoSlot) /\ None \notin File
           /\ todo \in Seq(Name) /\ (pc \in {"next", "rest"} => todo = <<>> /\ own = None)
  <1>1. UNCHANGED archive /\ UNCHANGED given
    BY StaysClean DEF Telling, Clean
  <1>2. svr4 => Sharing
    BY DEF Telling, Sharing
  <1>3. pos \in 0..Len(tape) + 1 /\ Len(tape) \in Nat /\ IslInv /\ svr4 \in BOOLEAN
        /\ (pc \in {"next", "rest"} => todo = <<>> /\ own = None) /\ todo \in Seq(Filled)
    BY DEF Telling, Inv, NameInv, OutInv
  <1>4. OldInv /\ EndInv /\ (svr4 => TodoSlot) /\ pc # "out" /\ pc' # "exit"
    BY DEF Telling, FillInv, WaitInv, SlotInv, Clean
  <1>5. todo \in Seq(Name)
    <2>1. Filled \subseteq Name
      BY DEF Filled
    <2> QED
      BY <1>3, <2>1, SeqMonotonic
  <1> QED
    BY <1>1, <1>2, <1>3, <1>4, <1>5, CpioAssumption DEF CpioAssumption, archive, given

\* A file with two names has more than one link.
LEMMA TwoLinks ==
    ASSUME NEW f \in File, NEW n \in LinkOf(f), NEW m \in LinkOf(f), n # m PROVE NLink[f] > 1
  <1> SUFFICES ASSUME ~(NLink[f] > 1) PROVE FALSE
    OBVIOUS
  <1>1. NLink[f] = 1
    BY FileLinks
  <1>2. PICK s : s = <<n>>
    OBVIOUS
  <1>3. s \in Seq(LinkOf(f)) /\ Len(s) = 1 /\ s[1] = n
    BY <1>2
  <1>4. ~Among(m, s)
    BY <1>3 DEF Among
  <1>5. \A i, j \in 1..Len(s) : s[i] = s[j] => i = j
    BY <1>3
  <1>6. Len(s) >= NLink[f]
    BY <1>1, <1>3
  <1> QED
    BY <1>3, <1>4, <1>5, <1>6, TooManyLinks, Zenon

\* Between the files none is finished that still has links waiting or to come.
LEMMA FinishedClosed ==
    ASSUME Telling, svr4, NEW n \in Name, Finished(n), NEW f \in File, NLink[f] > 1, FileOf[n] = f
    PROVE  Idle(f) /\ Closed(f)
  <1>1. LinksRead(f) /\ n \in LinkOf(f)
    BY TellingSame, WhatIsRead DEF LinkOf
  <1>2. Came(n) /\ ~Held(n)
    BY DEF Finished, Waiting
  <1>3. Idle(f)
    <2> SUFFICES ASSUME ~Idle(f) PROVE FALSE
      OBVIOUS
    <2>1. f \in DOMAIN isl /\ isl[f].nlk # 0 /\ Among(n, isl[f].lnk)
      BY <1>1, <1>2 DEF LinksRead, Idle
    <2>2. isl[f].nlk > 0
      BY <2>1, TellingSame, SlotTypes
    <2> QED
      BY <1>2, <2>1, <2>2 DEF Held
  <1> QED
    BY <1>1, <1>2, <1>3 DEF LinksRead

\* So flushnode() begins with a file of which there is nothing.
LEMMA FlushAlone ==
    ASSUME Telling, svr4, NEW n \in Name, Finished(n), NEW f \in File, NLink[f] > 1, FileOf[n] = f
    PROVE  ~(ReadHeader /\ FileOf[Header.name] = f) /\ ~FlushRest(f)
  <1>1. Idle(f) /\ Closed(f)
    BY FinishedClosed
  <1>2. ASSUME ReadHeader, FileOf[Header.name] = f PROVE FALSE
    <2>1. pos + 1 \in 1..Len(tape) /\ pos \in Nat
      BY <1>2, ReadOne, TellingSame DEF Telling
    <2> QED
      BY <1>1, <1>2, <2>1 DEF Closed, OfFile, Header
  <1>3. ASSUME FlushRest(f) PROVE FALSE
    <2>1. pc = "rest" /\ f \in DOMAIN isl /\ isl[f].nlk > 0
      BY <1>3 DEF FlushRest
    <2>2. node # f
      BY <2>1, TellingSame DEF TodoSlot
    <2>3. isl[f].nlk # 0
      BY <2>1, TellingSame, SlotTypes
    <2> QED
      BY <1>1, <2>1, <2>2, <2>3 DEF Idle
  <1> QED
    BY <1>2, <1>3

\* Nothing is extracted before filein().
LEMMA StepsSettle ==
    ASSUME Telling, Steps, NEW n \in Name, Finished(n)'
    PROVE  Finished(n) /\ dir' = dir /\ pc' \in {"next", "rest", "inpone"}
  <1>1. Finished(n)
    BY ReadSettles DEF Telling, FillInv
  <1>2. dir' = dir /\ pc' \in {"next", "rest", "inpone"}
    BY DEF Steps, Reading, TakeFile, FlushLinks, StoreLink, FlushEmpty, Trailer, NodeDone, FlushRest,
       FlushNode, ReadHeader, tree
  <1> QED
    BY <1>1, <1>2

\* flushnode() begins with f.
Begins(f) ==
    /\ f \in File /\ NLink[f] > 1 /\ node' \in {f, None} /\ (Busy' => file' = f)
    /\ (ReadHeader /\ FileOf[Header.name] = f) \/ FlushRest(f)

\* What a step of doinp() is.
LEMMA StepKinds ==
    ASSUME Telling, svr4, Steps
    PROVE  \/ TakeFile /\ node' = None /\ NLink[FileOf[Header.name]] = 1
           \/ node' = None /\ ~Busy'
           \/ \E f : Begins(f)
  <1>1. Sharing /\ IslInv /\ (pc \in {"next", "rest"} => todo = <<>> /\ own = None) /\ TodoSlot /\ SlotInv
    BY TellingSame DEF Telling, WaitInv
  <1>2. CASE TakeFile
    <2>1. ReadHeader /\ node' = node /\ ~Waits(Header.name) /\ pc = "next"
      BY <1>2 DEF TakeFile, ReadHeader
    <2>2. FileOf[Header.name] \in File
      BY <2>1, ReadOne DEF Telling
    <2>3. NLink[FileOf[Header.name]] = 1
      BY <2>1, <2>2, FileLinks DEF Waits
    <2> QED
      BY <1>1, <1>2, <2>1, <2>3 DEF TodoSlot
  <1>3. CASE StoreLink
    <2>1. node' = node /\ todo' = todo /\ own' = own /\ pc = "next"
      BY <1>3 DEF StoreLink, ReadHeader
    <2> QED
      BY <1>1, <2>1 DEF Busy, IsLink, TodoSlot
  <1>4. CASE Trailer
    <2>1. node' = node /\ todo' = todo /\ own' = own /\ pc = "next"
      BY <1>4 DEF Trailer
    <2> QED
      BY <1>1, <2>1 DEF Busy, IsLink, TodoSlot
  <1>5. CASE NodeDone
    <2>1. node' = None /\ todo' = todo /\ own' = own /\ todo = <<>> /\ own = None
      BY <1>5 DEF NodeDone
    <2> QED
      BY <2>1 DEF Busy, IsLink
  <1>6. CASE FlushLinks \/ FlushEmpty
    <2>1. PICK n, f : n = Header.name /\ f = FileOf[n]
      OBVIOUS
    <2>2. ReadHeader /\ NLink[f] > 1 /\ FlushNode(f, n)
      BY <1>6, <2>1 DEF FlushLinks, FlushEmpty, Waits
    <2>3. f \in File /\ n \in LinkOf(f)
      BY <2>1, <2>2, ReadOne DEF Telling
    <2>4. node' \in {f, None}
      BY <2>2 DEF FlushNode
    <2>5. Busy' => file' = f
      BY <1>1, <2>2, <2>3, FlushFile
    <2> QED
      BY <2>1, <2>2, <2>3, <2>4, <2>5 DEF Begins
  <1>7. ASSUME NEW f \in File, FlushRest(f) PROVE Begins(f)
    <2>1. FlushNode(f, None) /\ f \in DOMAIN isl
      BY <1>7 DEF FlushRest
    <2>2. NLink[f] > 1
      BY <2>1 DEF Telling, WaitInv, SlotInv, FileSlot, Clean
    <2>3. node' \in {f, None}
      BY <2>1 DEF FlushNode
    <2>4. Busy' => file' = f
      BY <1>1, <2>1, FlushFile
    <2> QED
      BY <1>7, <2>2, <2>3, <2>4 DEF Begins
  <1> QED
    BY <1>2, <1>3, <1>4, <1>5, <1>6, <1>7 DEF Steps, Reading

\* A name that has been extracted is none of the file that flushnode() begins with.
LEMMA BeginsNew ==
    ASSUME Telling, svr4, NEW f, Begins(f), NEW n \in Name, Finished(n) PROVE FileOf[n] # f
  BY FlushAlone DEF Begins

\* Nor of that of a header that is read.
LEMMA TakesNew ==
    ASSUME Telling, TakeFile, NEW n \in Name, Finished(n)
    PROVE  n # Header.name /\ Header.name \in Name /\ FileOf[Header.name] \in File
           /\ tgt' = Header.name /\ own' = Header.name
           /\ (FileOf[n] = FileOf[Header.name] => NLink[FileOf[n]] > 1)
  <1>1. ReadHeader /\ own' = Header.name /\ todo' = todo /\ pc = "next"
    BY DEF TakeFile, ReadHeader
  <1>2. ~Came(Header.name) /\ Header.name \in Name /\ FileOf[Header.name] \in File
    BY <1>1, HeaderNew, ReadOne DEF Telling, FillInv
  <1>3. n # Header.name
    BY <1>2 DEF Finished
  <1>4. tgt' = Header.name
    BY <1>1, TellingSame DEF tgt, IsLink
  <1>5. FileOf[n] = FileOf[Header.name] => NLink[FileOf[n]] > 1
    BY <1>2, <1>3, TwoLinks DEF LinkOf
  <1> QED
    BY <1>1, <1>2, <1>3, <1>4, <1>5

\* With the old formats doinp() leaves the slots alone.
LEMMA OldSteps ==
    ASSUME Telling, ~svr4, Steps
    PROVE  /\ UNCHANGED <<isl, node, svr4>> /\ (TakeFile \/ Trailer \/ NodeDone) /\ node = None
           /\ todo = <<>> /\ (TakeFile \/ ~Busy')
  <1>1. ~FlushLinks /\ ~StoreLink /\ ~FlushEmpty /\ ~\E f \in File : FlushRest(f)
    BY DEF FlushLinks, StoreLink, FlushEmpty, Waits, FlushRest
  <1>2. node = None /\ todo = <<>> /\ svr4' = svr4 /\ (pc \in {"next", "rest"} => own = None)
    BY TellingSame DEF OldInv
  <1>3. TakeFile \/ Trailer \/ NodeDone
    BY <1>1 DEF Steps, Reading
  <1>4. UNCHANGED <<isl, node>>
    BY <1>2, <1>3 DEF TakeFile, Trailer, NodeDone
  <1>5. Trailer \/ NodeDone => ~Busy'
    BY <1>2 DEF Trailer, NodeDone, Busy, IsLink
  <1> QED
    BY <1>2, <1>3, <1>4, <1>5

\* What is read changes nothing about what has been extracted.
LEMMA HomeSteps == ASSUME Telling, Steps PROVE HomeInv' /\ TgtHome' /\ Joined'
  <1>1. pc' \notin Filling
    BY DEF Steps, Reading, TakeFile, FlushLinks, StoreLink, FlushEmpty, Trailer, NodeDone, FlushRest,
       FlushNode, ReadHeader, Filling, Making, Replacing
  <1>2. Joined'
    <2> SUFFICES ASSUME NEW n \in Name, NEW m \in Name, Finished(n)', Finished(m)', FileOf[n] = FileOf[m]
                 PROVE  dir'[n] = dir'[m]
      BY DEF Joined
    <2> QED
      BY StepsSettle DEF Telling, Joined
  <1>3. HomeInv'
    <2> SUFFICES ASSUME NEW n \in Name, Finished(n)', Joins(FileOf[n])'
                 PROVE  Named(FileOf[n])' /\ dir'[n] = dir'[isl'[FileOf[n]].name]
      BY DEF HomeInv
    <2>1. Finished(n) /\ dir' = dir /\ FileOf[n] \in File
      BY StepsSettle, CpioOutAssumption DEF CpioOutAssumption
    <2>2. CASE svr4
      <3>1. node' = FileOf[n] /\ node' # None
        BY <2>1, <2>2, TellingSame DEF Joins, Shares
      <3>2. PICK f : Begins(f)
        BY <2>2, <3>1, StepKinds
      <3>3. FileOf[n] = f
        BY <3>1, <3>2 DEF Begins
      <3> QED
        BY <2>1, <2>2, <3>2, <3>3, BeginsNew
    <2>3. CASE ~svr4
      <3>1. UNCHANGED <<isl, node, svr4>>
        BY <2>3, OldSteps
      <3>2. Joins(FileOf[n])
        BY <2>3, <3>1 DEF Joins
      <3>3. Named(FileOf[n]) /\ dir[n] = dir[isl[FileOf[n]].name]
        BY <2>1, <3>2 DEF Telling, HomeInv
      <3> QED
        BY <2>1, <3>1, <3>3 DEF Named
    <2> QED
      BY <2>2, <2>3
  <1> QED
    BY <1>1, <1>2, <1>3 DEF TgtHome

\* With the old formats a name that is read may be one more link.
LEMMA TgtSteps == ASSUME Telling, Steps PROVE TgtJoin'
  <1> SUFFICES ASSUME Busy', NEW n \in Name, Finished(n)', FileOf[n] = file' PROVE Joins(file)' /\ pc' \notin Making
    BY DEF TgtJoin
  <1>1. Finished(n) /\ pc' \notin Making
    BY StepsSettle DEF Making
  <1>2. CASE svr4
    <2>1. CASE TakeFile /\ NLink[FileOf[Header.name]] = 1
      <3>1. file' = FileOf[Header.name]
        BY <1>1, <2>1, TakesNew DEF file
      <3> QED
        BY <1>1, <2>1, <3>1, TakesNew
    <2>2. ASSUME NEW f, Begins(f) PROVE FALSE
      <3>1. file' = f
        BY <2>2 DEF Begins
      <3> QED
        BY <1>1, <1>2, <2>2, <3>1, BeginsNew
    <2> QED
      BY <1>2, <2>1, <2>2, StepKinds
  <1>3. CASE ~svr4
    <2>1. TakeFile /\ svr4' = svr4
      BY <1>3, OldSteps
    <2>2. file' = FileOf[Header.name]
      BY <1>1, <2>1, TakesNew DEF file
    <2>3. NLink[file'] > 1
      BY <1>1, <2>1, <2>2, TakesNew
    <2> QED
      BY <1>1, <1>3, <2>1, <2>3 DEF Joins
  <1> QED
    BY <1>2, <1>3

\* A link that is read is still counted.
LEMMA OldRead == ASSUME Telling, Steps PROVE OldLinks'
  <1> SUFFICES ASSUME ~svr4
      PROVE  (own' # None => Came(own)') /\ \A f \in DOMAIN isl' : isl'[f].nlk > Cardinality(ToCome(f)') + Choice(f)'
    BY TellingSame DEF OldLinks
  <1>1. /\ UNCHANGED <<isl, node, svr4>> /\ (TakeFile \/ Trailer \/ NodeDone) /\ node = None
        /\ todo = <<>> /\ (TakeFile \/ ~Busy')
    BY OldSteps
  <1>2. /\ own # None => Came(own)
        /\ \A f \in DOMAIN isl : isl[f].nlk > Cardinality(ToCome(f)) + Choice(f)
    BY DEF Telling, OldLinks
  <1>3. \A f \in File : IsFiniteSet(ToCome(f)) /\ Cardinality(ToCome(f)) \in Nat
    BY FileLinks, FS_Subset, FS_CardinalityType DEF ToCome
  <1>4. CASE TakeFile
    <2>1. PICK n : n = Header.name
      OBVIOUS
    <2>2. ReadHeader /\ own' = n /\ pc' = "inpone" /\ pc = "next"
      BY <1>4, <2>1 DEF TakeFile, ReadHeader
    <2>3. (\A m : Came(m)' <=> Came(m) \/ m = n) /\ ~Came(n) /\ n \in Name /\ n \in LinkOf(FileOf[n])
      BY <2>1, <2>2, CameNext, HeaderNew, ReadOne DEF Telling, FillInv
    <2>4. ASSUME NEW f \in DOMAIN isl
          PROVE  isl[f].nlk > Cardinality(ToCome(f)') + Choice(f)'
      <3>1. f \in File /\ isl[f].nlk \in Nat
        BY TellingSame, SlotTypes
      <3>2. Choice(f) = 0
        BY <2>2 DEF Choice
      <3>3. isl[f].nlk > Cardinality(ToCome(f)) /\ Cardinality(ToCome(f)) \in Nat /\ IsFiniteSet(ToCome(f))
        BY <1>2, <1>3, <3>1, <3>2
      <3>4. CASE FileOf[n] = f
        <4>1. ToCome(f)' = ToCome(f) \ {n} /\ n \in ToCome(f)
          BY <2>3, <3>4 DEF ToCome
        <4>2. Cardinality(ToCome(f) \ {n}) = Cardinality(ToCome(f)) - 1
          BY <3>3, <4>1, FS_RemoveElement
        <4>3. Choice(f)' \in {0, 1}
          BY DEF Choice
        <4> QED
          BY <3>1, <3>3, <4>1, <4>2, <4>3
      <3>5. CASE FileOf[n] # f
        <4>1. ToCome(f)' = ToCome(f)
          BY <2>3, <3>5 DEF ToCome, LinkOf
        <4>2. Choice(f)' = 0
          BY <2>2, <3>5 DEF Choice
        <4> QED
          BY <3>1, <3>3, <4>1, <4>2
      <3> QED
        BY <3>4, <3>5
    <2>5. Came(own)'
      BY <2>2, <2>3 DEF Came
    <2> QED
      BY <1>1, <2>4, <2>5
  <1>5. CASE Trailer \/ NodeDone
    <2>1. own' = own /\ own' = None /\ tape' = tape /\ pos \in Nat /\ Len(tape) \in Nat
          /\ (pos' = pos \/ (pos' = pos + 1 /\ pos = Len(tape)))
      BY <1>5, TellingSame DEF Trailer, NodeDone
    <2>2. \A m : Came(m)' <=> Came(m)
      <3>1. \A i \in 1..Len(tape) : i <= pos' <=> i <= pos
        BY <2>1
      <3> QED
        BY <2>1, <3>1 DEF Came
    <2>3. \A f : ToCome(f)' = ToCome(f) /\ Choice(f)' = 0 /\ Choice(f) = 0
      BY <2>1, <2>2 DEF ToCome, Choice
    <2> QED
      BY <1>1, <1>2, <2>1, <2>3
  <1> QED
    BY <1>1, <1>4, <1>5

\* What filein() finds of it.
Joining == Telling /\ Extracts

\* The facts about tgt.
LEMMA WhatIsJoined ==
    ASSUME Joining
    PROVE  /\ Found /\ Busy /\ tgt \in Name /\ ~Finished(tgt) /\ file \in File /\ NLink[file] \in Nat \ {0}
           /\ UNCHANGED <<svr4, tape, pos, node, wanted>>
           /\ (NewFile \/ (MakeLink /\ ~svr4) \/ isl' = isl)
           /\ \A n \in Name : Finished(n)' => Finished(n) \/ (n = tgt /\ ~UNCHANGED <<todo, own>>)
           /\ Temp \notin Name
  <1>1. Found
    BY DEF Joining, Telling, Found, FillInv
  <1>2. /\ Busy /\ tgt \in Name /\ ~Finished(tgt) /\ UNCHANGED <<pos, node>>
        /\ \A n \in Name : Finished(n)' => Finished(n) \/ (n = tgt /\ ~UNCHANGED <<todo, own>>)
    BY <1>1, WhatIsFound
  <1>3. UNCHANGED <<svr4, tape, wanted>>
    BY TellingSame DEF Joining
  <1>4. NewFile \/ (MakeLink /\ ~svr4) \/ isl' = isl
    BY FileSteps DEF Joining
  <1>5. file \in File
    BY <1>2, CpioOutAssumption DEF file, CpioOutAssumption
  <1> QED
    BY <1>1, <1>2, <1>3, <1>4, <1>5, FileLinks, CpioAssumption DEF CpioAssumption

\* Names other than tgt are left alone.
LEMMA OtherNames ==
    ASSUME Joining, NEW n \in Name, n # tgt PROVE dir'[n] = dir[n]
  <1>1. n # Temp /\ Found /\ pc # "restore"
    BY WhatIsJoined DEF Joining, Telling, FillInv, FilledInv
  <1>2. /\ ~RenameFails /\ ~Restore /\ ~RestoreFails
        /\ ~CloseFails /\ ~PutEmpty /\ ~PutEmptyFails
    BY <1>1, NoError DEF Restore, Keep, At
  <1>3. n \in DOMAIN dir /\ \A m, v : m # n => [dir EXCEPT ![m] = v][n] = dir[n]
    <2>1. n \in DOMAIN dir
      BY TellingSame DEF Joining, Telling, Inv, TreeTypes
    <2> QED
      BY <2>1
  <1>4. ASSUME NEW m, NEW i, m # n, Creat(m, i) PROVE dir'[n] = dir[n]
    <2>1. UNCHANGED dir \/ dir' = [dir EXCEPT ![m] = Len(ino) + 1]
      BY <1>4 DEF Creat
    <2> QED
      BY <1>3, <1>4, <2>1
  <1>5. CASE Choosing \/ Forget \/ MkstempFails \/ SetOfile \/ SetTfile \/ CreateFails \/ WriteFails \/ LinkFails
    BY <1>5 DEF Choosing, Unwanted, SkipNewer, NoDirectory, NewFile, MakeLink, Forget,
                MkstempFails, CloseFails, PutEmpty, PutEmptyFails, SetOfile,
       SetTfile, CreateFails, WriteFails, LinkFails, tree
  <1>6. CASE Link \/ UnlinkTarget
    BY <1>3, <1>6 DEF Link, UnlinkTarget, Unlink
  <1>7. CASE Mkstemp \/ Create
    BY <1>1, <1>4, <1>7 DEF Mkstemp, Create
  <1>8. CASE Write
    BY <1>1, <1>4, <1>8 DEF Write, tree
  <1>9. CASE RenameOld
    <2>1. dir' = [dir EXCEPT ![Temp] = dir[tgt], ![tgt] = 0]
      BY <1>9 DEF RenameOld, Rename
    <2> QED
      BY <1>1, <1>3, <2>1
  <1>10. CASE UnlinkTemp
    BY <1>1, <1>3, <1>10 DEF UnlinkTemp, Unlink
  <1>11. \/ Choosing \/ Forget \/ MkstempFails \/ SetOfile \/ SetTfile \/ CreateFails \/ WriteFails \/ LinkFails
         \/ Link \/ UnlinkTarget \/ Mkstemp \/ Create \/ Write \/ RenameOld \/ UnlinkTemp
    BY <1>2 DEF Joining, Extracts, Linking, Keeping, Writing, Ending
  <1> QED
    BY <1>5, <1>6, <1>7, <1>8, <1>9, <1>10, <1>11

\* And slots, but for the one of a new file.
LEMMA OtherSlots ==
    ASSUME Joining, NEW g \in File, ~(NewFile /\ g = file)
    PROVE  /\ Joins(g)' <=> Joins(g)
           /\ Named(g)' <=> Named(g)
           /\ Named(g) => isl'[g].name = isl[g].name
  <1>1. UNCHANGED <<svr4, node>> /\ (NewFile \/ (MakeLink /\ ~svr4) \/ isl' = isl) /\ Inv
    BY WhatIsJoined DEF Joining, Telling
  <1>2. CASE NewFile
    <2>1. (g \in DOMAIN isl <=> g \in DOMAIN isl') /\ (g \in DOMAIN isl => isl'[g] = isl[g])
      BY <1>1, <1>2, NewFileNames
    <2> QED
      BY <1>1, <2>1 DEF Joins, Shares, Named
  <1>3. CASE MakeLink /\ ~svr4
    <2>1. DOMAIN isl' = DOMAIN isl /\ \A h \in DOMAIN isl : isl'[h].name = isl[h].name
      BY <1>1, <1>3, MakeLinkSlots
    <2> QED
      BY <1>1, <1>3, <2>1 DEF Joins, Named
  <1>4. CASE isl' = isl
    BY <1>1, <1>4 DEF Joins, Shares, Named
  <1> QED
    BY <1>1, <1>2, <1>3, <1>4

\* A slot has names of its file.
LEMMA SlotName ==
    ASSUME IslInv, NEW g, Named(g) PROVE isl[g].name \in LinkOf(g) /\ isl[g].name \in Name /\ FileOf[isl[g].name] = g
  BY DEF IslInv, Named, LinkOf

\* A new file is made where there is no name of it.
LEMMA NewFileAlone ==
    ASSUME Joining, NewFile
    PROVE  /\ \A n \in Name : Finished(n) => FileOf[n] # file
           /\ Joins(file)' => Named(file)' /\ isl'[file].name = tgt
  <1>1. /\ svr4' = svr4 /\ node' = node /\ file \in File /\ NLink[file] \in Nat \ {0} /\ Busy /\ Inv /\ tgt \in Name
        /\ IslInv /\ OldInv /\ None \notin Name
    BY WhatIsJoined, TellingSame DEF Joining, Telling
  <1>2. ~Links /\ pc = "inpone"
    BY DEF NewFile, Filein, Inpone, At
  <1>3. ASSUME NEW n \in Name, Finished(n), FileOf[n] = file PROVE FALSE
    <2>1. Joins(file) /\ Named(file)
      BY <1>1, <1>3 DEF Joining, Telling, TgtJoin, HomeInv
    <2>2. NLink[file] > 1 /\ Known
      BY <2>1 DEF Joins, Named, Known
    <2>3. CASE svr4
      BY <1>2, <2>1, <2>2, <2>3 DEF Links, Joins, Shares
    <2>4. CASE ~svr4
      <3>1. own # None /\ FileOf[own] = file
        BY <1>1, <2>4 DEF OldInv, Busy, IsLink, file, tgt
      <3>2. Choice(file) = 1
        BY <1>2, <3>1 DEF Choice
      <3>3. file \in DOMAIN isl /\ isl[file].nlk > Cardinality(ToCome(file)) + 1
        BY <2>1, <2>4, <3>2 DEF Joining, Telling, OldLinks, Named
      <3>4. Cardinality(ToCome(file)) \in Nat /\ isl[file].nlk \in Nat
        BY <1>1, <3>3, SlotTypes, FileLinks, FS_Subset, FS_CardinalityType DEF ToCome
      <3>5. isl[file].nlk > 1
        BY <3>3, <3>4
      <3> QED
        BY <1>2, <2>2, <2>4, <3>5 DEF Links
    <2> QED
      BY <2>3, <2>4
  <1>4. ASSUME Joins(file)' PROVE Named(file)' /\ isl'[file].name = tgt
    <2>1. PICK g \in File : g = file
      BY <1>1
    <2>2. todo' = todo /\ own' = own
      BY DEF NewFile, Goto
    <2>3. file' = file
      BY <2>2, SameTgt
    <2>4. NLink[g] > 1
      BY <1>4, <2>1, <2>3 DEF Joins
    <2>5. /\ isl' = isl \/ ~(svr4 /\ Known)
          /\ ~(svr4 /\ Known) => file \in DOMAIN isl' /\ isl'[file].name = tgt
      BY <1>1, <2>1, <2>4, NewFileNames
    <2>6. ~(svr4 /\ Known)
      <3> SUFFICES ASSUME svr4, Known PROVE FALSE
        OBVIOUS
      <3>1. isl' = isl
        BY <2>5
      <3>2. isl[file].nlk > 0
        BY <1>1, <1>4, <2>3, <3>1 DEF Joins, Shares
      <3> QED
        BY <1>2, <2>1, <2>4, <3>2 DEF Links
    <2> QED
      BY <1>1, <2>3, <2>5, <2>6 DEF Named
  <1> QED
    BY <1>3, <1>4

\* A first link that is there is left where it is, but when it is put aside.
LEMMA FirstStays ==
    ASSUME Joining, pc \notin Making, Exists(tgt), Named(file), isl[file].name = tgt
    PROVE  dir'[tgt] = dir[tgt]
  <1>1. Found /\ tgt \in Name /\ tgt # Temp /\ tgt \in DOMAIN dir /\ pc # "restore"
    BY WhatIsJoined, TellingSame DEF Joining, Telling, Inv, TreeTypes, FillInv, FilledInv
  <1>2. PICK t \in Name : t = tgt
    BY <1>1
  <1>3. CASE Choosing \/ Forget
    BY <1>3 DEF Choosing, Unwanted, SkipNewer, NoDirectory, NewFile, MakeLink, Forget, tree
  <1>4. CASE Link
    <2>1. dir' = [dir EXCEPT ![t] = dir[t]]
      BY <1>2, <1>4 DEF Link, first
    <2> QED
      BY <1>1, <1>2, <2>1
  <1>5. CASE UnlinkTarget
    BY <1>5 DEF UnlinkTarget, first, Exists
  <1>6. CASE Create
    BY <1>6 DEF Create, Creat
  <1>7. CASE Write
    BY <1>7 DEF Write, Creat, tree
  <1>8. CASE UnlinkTemp
    <2>1. dir' = [dir EXCEPT ![Temp] = 0]
      BY <1>8 DEF UnlinkTemp, Unlink
    <2> QED
      BY <1>1, <2>1
  <1>9. ~Keeping
    BY DEF Keeping, Mkstemp, MkstempFails, CloseFails, PutEmpty, PutEmptyFails, SetOfile, SetTfile,
           RenameOld, RenameFails, Keep, At, Making
  <1> QED
    BY <1>1, <1>3, <1>4, <1>5, <1>6, <1>7, <1>8, <1>9, NoError
       DEF Joining, Extracts, Linking, Writing, Ending, Restore, Keep, At

\* What has been extracted stays linked to the first one.
LEMMA HomeOthers ==
    ASSUME Joining, NEW n \in Name, n # tgt, Finished(n), Joins(FileOf[n])'
    PROVE  Named(FileOf[n])' /\ dir'[n] = dir'[isl'[FileOf[n]].name]
  <1>1. PICK f \in File : f = FileOf[n]
    BY CpioOutAssumption DEF CpioOutAssumption
  <1>2. dir'[n] = dir[n]
    BY OtherNames
  <1>3. ~(NewFile /\ f = file)
    BY <1>1, NewFileAlone
  <1>4. Joins(f)
    BY <1>1, <1>3, OtherSlots
  <1>5. Named(f) /\ dir[n] = dir[isl[f].name]
    BY <1>1, <1>4 DEF Joining, Telling, HomeInv
  <1>6. Named(f)' /\ isl'[f].name = isl[f].name
    BY <1>3, <1>5, OtherSlots
  <1>7. PICK h \in LinkOf(f) : h = isl[f].name
    BY <1>5, TellingSame, SlotName DEF Joining
  <1>8. CASE h # tgt
    <2>1. dir'[h] = dir[h]
      BY <1>8, OtherNames DEF LinkOf
    <2> QED
      BY <1>1, <1>2, <1>5, <1>6, <1>7, <2>1
  <1>9. CASE h = tgt
    <2>1. file = f /\ Found /\ Busy
      BY <1>9, WhatIsJoined DEF LinkOf, file
    <2>2. pc \notin Making
      BY <1>1, <2>1 DEF Joining, Telling, TgtJoin
    <2>3. Exists(tgt)
      <3>1. Settled(n)
        BY DEF Settled
      <3>2. Whole(n) \/ pc = "write"
        BY <2>1, <3>1, WhatIsFound
      <3>3. CASE Whole(n)
        BY <1>5, <1>7, <1>9, <3>3 DEF Whole, Exists
      <3>4. CASE pc = "write"
        BY <3>4 DEF Joining, Telling, FillInv, FilledInv
      <3> QED
        BY <3>2, <3>3, <3>4
    <2>4. dir'[tgt] = dir[tgt]
      BY <1>5, <1>7, <1>9, <2>1, <2>2, <2>3, FirstStays
    <2> QED
      BY <1>1, <1>2, <1>5, <1>6, <1>7, <1>9, <2>4
  <1> QED
    BY <1>8, <1>9

\* So is tgt when filein() is done with it.
LEMMA HomeTgt ==
    ASSUME Joining, NEW t, t = tgt, Finished(t)', Joins(FileOf[t])'
    PROVE  Named(FileOf[t])' /\ dir'[t] = dir'[isl'[FileOf[t]].name]
  <1>1. /\ Found /\ t \in Name /\ ~Finished(t) /\ FileOf[t] \in File /\ FileOf[t] = file /\ Temp \notin Name
        /\ ~UNCHANGED <<todo, own>> /\ wanted' = wanted /\ IslInv /\ t \in DOMAIN dir /\ pc # "restore"
    BY WhatIsJoined, TellingSame DEF file, Joining, Telling, FillInv, FilledInv, Inv, TreeTypes
  <1>2. ~Unwanted
    BY <1>1 DEF Unwanted, Finished
  <1>3. ~NewFile /\ ~MakeLink /\ ~UnlinkTarget /\ ~Mkstemp /\ ~SetOfile /\ ~SetTfile /\ ~RenameOld /\ ~Create /\ ~Write
    BY <1>1 DEF NewFile, MakeLink, UnlinkTarget, Mkstemp, SetOfile, SetTfile, RenameOld, Create, Write, Goto
  <1>4. Link \/ Forget \/ UnlinkTemp
    BY <1>1, <1>2, <1>3, NoError
       DEF Joining, Extracts, Choosing, Linking, Keeping, Writing, Ending, Restore, Keep, At
  <1>5. PICK f \in File : f = file
    BY <1>1
  <1>6. Joins(f)
    BY <1>1, <1>3, <1>5, OtherSlots
  <1>7. CASE Link
    <2>1. Named(f) /\ isl' = isl
      BY <1>5, <1>7, TellingSame DEF Link, InLink, At, Named, Joining, Telling, Inv, NameInv, first
    <2>2. PICK h \in Name : h = isl[f].name
      BY <1>1, <2>1, SlotName
    <2>3. dir' = [dir EXCEPT ![t] = dir[h]]
      BY <1>5, <1>7, <2>2 DEF Link, first
    <2>4. dir'[t] = dir[h]
      BY <1>1, <2>3
    <2>5. dir'[h] = dir[h]
      BY <1>1, <2>2, <2>4, OtherNames
    <2> QED
      BY <1>1, <1>5, <2>1, <2>2, <2>4, <2>5 DEF Named
  <1>8. CASE Forget \/ UnlinkTemp
    <2>1. pc \in {"tunlink", "unlink"} /\ isl' = isl
      BY <1>8 DEF Forget, UnlinkTemp, Keep, At
    <2>2. Named(f) /\ (isl[f].name = t \/ dir[isl[f].name] = dir[t])
      BY <1>1, <1>5, <1>6, <2>1 DEF Joining, Telling, TgtHome, Filling, Replacing
    <2>3. PICK h \in Name : h = isl[f].name
      BY <1>1, <2>2, SlotName
    <2>4. \A n \in Name : dir'[n] = dir[n]
      <3>1. \A n \in Name : n \in DOMAIN dir /\ n # Temp
        BY <1>1, TellingSame DEF Joining, Telling, Inv, TreeTypes
      <3>2. CASE Forget
        BY <3>2 DEF Forget, tree
      <3>3. CASE UnlinkTemp
        <4>1. dir' = [dir EXCEPT ![Temp] = 0]
          BY <3>3 DEF UnlinkTemp, Unlink
        <4> QED
          BY <3>1, <4>1
      <3> QED
        BY <1>8, <3>2, <3>3
    <2>5. dir'[t] = dir[t] /\ dir'[h] = dir[h] /\ dir[h] = dir[t]
      BY <1>1, <2>2, <2>3, <2>4
    <2> QED
      BY <1>1, <1>5, <2>1, <2>2, <2>3, <2>5 DEF Named
  <1> QED
    BY <1>4, <1>7, <1>8

\* So filein() leaves all of them linked.
LEMMA HomeFile == ASSUME Joining PROVE HomeInv'
  <1> SUFFICES ASSUME NEW n \in Name, Finished(n)', Joins(FileOf[n])'
               PROVE  Named(FileOf[n])' /\ dir'[n] = dir'[isl'[FileOf[n]].name]
    BY DEF HomeInv
  <1>1. CASE n # tgt
    BY <1>1, HomeOthers, WhatIsJoined
  <1>2. CASE n = tgt
    BY <1>2, HomeTgt
  <1> QED
    BY <1>1, <1>2

\* What filein() makes is the first link, or a link to it, from step to step.
LEMMA TgtHomeFile == ASSUME Joining PROVE TgtHome'
  <1> SUFFICES ASSUME pc' \in Filling, Joins(file)'
               PROVE  /\ Named(file)'
                      /\ \/ isl'[file'].name = tgt'
                         \/ /\ pc' \in {"creat", "write", "tunlink", "unlink"}
                            /\ dir'[isl'[file'].name] = dir'[tgt'] /\ Exists(tgt)'
    BY DEF TgtHome
  <1>1. UNCHANGED <<todo, own>>
    <2>1. pc' # "inpone"
      BY DEF Filling, Making, Replacing
    <2> QED
      BY <2>1 DEF Joining, Extracts, Choosing, Unwanted, SkipNewer, NoDirectory, NewFile, MakeLink, Linking,
         Link, UnlinkTarget, LinkFails, Keeping, Mkstemp, MkstempFails, CloseFails, PutEmpty,
         PutEmptyFails, SetOfile, SetTfile, RenameOld,
         RenameFails, Writing, Create, CreateFails, Write, WriteFails, Ending, Restore, RestoreFails,
         Forget, UnlinkTemp, Goto, Leave, Over
  <1>2. PICK t \in Name, f \in File : t = tgt /\ f = file
    BY WhatIsJoined
  <1>3. tgt' = t /\ file' = f /\ t \in DOMAIN dir /\ Temp \notin Name /\ Found /\ IslInv
    BY <1>1, <1>2, SameTgt, WhatIsJoined, TellingSame DEF Joining, Telling, Inv, TreeTypes
  <1>4. CASE NewFile
    BY <1>2, <1>3, <1>4, NewFileAlone
  <1>5. CASE ~NewFile
    <2>1. Joins(f) /\ (Named(f)' <=> Named(f)) /\ (Named(f) => isl'[f].name = isl[f].name)
      <3>1. Joins(f)'
        BY <1>3 DEF Joins, Shares
      <3> QED
        BY <1>5, <3>1, OtherSlots
    <2>2. pc \in Filling => /\ Named(f)
                            /\ \/ isl[f].name = t
                               \/ /\ pc \in {"creat", "write", "tunlink", "unlink"}
                                  /\ dir[isl[f].name] = dir[t] /\ dir[t] # 0
      BY <1>2, <2>1 DEF Joining, Telling, TgtHome, Exists
    <2>3. ASSUME Named(f),
                 \/ isl[f].name = t
                 \/ pc' \in {"creat", "write", "tunlink", "unlink"} /\ dir'[isl[f].name] = dir'[t] /\ dir'[t] # 0
          PROVE  /\ Named(file)'
                 /\ \/ isl'[file'].name = tgt'
                    \/ /\ pc' \in {"creat", "write", "tunlink", "unlink"}
                       /\ dir'[isl'[file'].name] = dir'[tgt'] /\ Exists(tgt)'
      BY <1>3, <2>1, <2>3 DEF Named, Exists
    <2>4. CASE Link
      <3>1. Named(f) /\ pc' = "creat" /\ dir[first] # 0
        <4>1. pc' # "inpone"
          BY DEF Filling, Making, Replacing
        <4>2. Named(f)
          BY <1>2, <2>4, TellingSame DEF Link, InLink, At, Named, Joining, Telling, Inv, NameInv, first
        <4> QED
          BY <2>4, <4>1, <4>2 DEF Link, Leave, Over, Goto, Exists
      <3>2. PICK h \in Name : h = isl[f].name
        BY <1>3, <3>1, SlotName
      <3>3. dir' = [dir EXCEPT ![t] = dir[h]] /\ dir[h] # 0
        BY <1>2, <2>4, <3>1, <3>2 DEF Link, first
      <3>4. dir'[t] = dir[h]
        BY <1>3, <3>3
      <3>5. dir'[h] = dir[h]
        BY <1>2, <3>2, <3>4, OtherNames
      <3> QED
        BY <2>3, <3>1, <3>2, <3>3, <3>4, <3>5
    <2>5. CASE Mkstemp \/ SetOfile \/ SetTfile \/ RenameOld
      <3>1. pc \in Filling /\ pc \notin {"creat", "write", "tunlink", "unlink"}
        BY <2>5 DEF Mkstemp, SetOfile, SetTfile, RenameOld, Keep, At, Filling, Making
      <3> QED
        BY <2>2, <2>3, <3>1
    <2>6. CASE Create \/ Write \/ Forget
      <3>1. pc \in Filling /\ pc' \in {"write", "tunlink", "unlink"}
        <4>1. pc' # "inpone"
          BY DEF Filling, Making, Replacing
        <4> QED
          BY <2>6, <4>1 DEF Create, Write, Forget, Keep, At, Goto, Leave, Over, Filling, Replacing
      <3>2. Named(f) /\ (isl[f].name = t \/ (dir[isl[f].name] = dir[t] /\ dir[t] # 0))
        BY <2>2, <3>1
      <3>3. dir[t] # 0 => dir' = dir
        BY <1>2, <2>6 DEF Create, Write, Forget, Creat, Exists, tree
      <3> QED
        BY <2>3, <3>1, <3>2, <3>3
    <2>7. ~Unwanted /\ ~MakeLink /\ ~UnlinkTarget /\ ~UnlinkTemp /\ ~Restore
      <3>1. pc' \notin {"inpone", "link"} /\ pc # "restore"
        BY DEF Filling, Making, Replacing, Joining, Telling, FillInv, FilledInv
      <3> QED
        BY <3>1 DEF Unwanted, MakeLink, UnlinkTarget, UnlinkTemp, Restore, Goto, Leave, Over, Keep, At
    <2> QED
      BY <1>3, <1>5, <2>4, <2>5, <2>6, <2>7, NoError
         DEF Joining, Extracts, Choosing, Linking, Keeping, Writing, Ending
  <1> QED
    BY <1>4, <1>5

\* A name of a file that has been extracted already will be a link.
LEMMA TgtJoinFile == ASSUME Joining PROVE TgtJoin'
  <1> SUFFICES ASSUME Busy', NEW n \in Name, Finished(n)', FileOf[n] = file' PROVE Joins(file)' /\ pc' \notin Making
    BY DEF TgtJoin
  <1>1. /\ Finished(n) \/ (n = tgt /\ ~UNCHANGED <<todo, own>>)
        /\ file \in File /\ Inv /\ WaitInv /\ OldInv
        /\ Busy /\ node' = node /\ svr4' = svr4
    BY WhatIsJoined, TellingSame DEF Joining, Telling
  <1>2. CASE UNCHANGED <<todo, own>>
    <2>1. file' = file /\ Finished(n)
      BY <1>1, <1>2, SameTgt
    <2>2. Joins(file) /\ pc \notin Making /\ ~NewFile
      BY <1>1, <2>1, NewFileAlone DEF Joining, Telling, TgtJoin
    <2>3. PICK f \in File : f = file
      BY <1>1
    <2>4. Joins(f)'
      BY <2>2, <2>3, OtherSlots
    <2>5. pc' \notin Making
      BY <2>2 DEF Joining, Extracts, Choosing, Unwanted, SkipNewer, NoDirectory, NewFile, MakeLink, Linking,
         Link, UnlinkTarget, LinkFails, Keeping, Mkstemp, MkstempFails, CloseFails, PutEmpty,
         PutEmptyFails, SetOfile, SetTfile, RenameOld,
         RenameFails, Writing, Create, CreateFails, Write, WriteFails, Ending, Restore, RestoreFails,
         Forget, UnlinkTemp, Goto, Leave, Over, Making, Keep, At
    <2> QED
      BY <2>1, <2>3, <2>4, <2>5 DEF Joins, Shares
  <1>3. CASE ~UNCHANGED <<todo, own>>
    <2>1. svr4 /\ file' = file /\ isl' = isl /\ Shares(file)'
      BY <1>1, <1>3, NextFile DEF Joining
    <2>2. NLink[file] > 1
      <3>1. file \in DOMAIN isl
        BY <2>1 DEF Shares
      <3> QED
        BY <1>1, <2>1, <3>1 DEF WaitInv, SlotInv, FileSlot, Joining, Telling, Clean
    <2>3. pc' \notin Making
      <3>1. pc' = "inpone"
        BY <1>3 DEF Joining, Extracts, Choosing, Unwanted, SkipNewer, NoDirectory, NewFile, MakeLink, Linking,
           Link, UnlinkTarget, LinkFails, Keeping, Mkstemp, MkstempFails, CloseFails, PutEmpty,
           PutEmptyFails, SetOfile, SetTfile, RenameOld,
           RenameFails, Writing, Create, CreateFails, Write, WriteFails, Ending, Restore, RestoreFails,
           Forget, UnlinkTemp, Goto, Leave, Over
      <3> QED
        BY <3>1 DEF Making
    <2> QED
      BY <1>1, <2>1, <2>2, <2>3 DEF Joins
  <1> QED
    BY <1>2, <1>3

\* So all names of a file are links to one inode.
LEMMA JoinedFile == ASSUME Joining PROVE Joined'
  <1>1. HomeInv' /\ Busy
    BY HomeFile, WhatIsJoined
  <1>2. ASSUME NEW n \in Name, NEW m \in Name, n = tgt, m # tgt, Finished(n)', Finished(m)', FileOf[n] = FileOf[m]
        PROVE  dir'[n] = dir'[m]
    <2>1. Finished(m) /\ ~UNCHANGED <<todo, own>> /\ ~Finished(n)
      BY <1>2, WhatIsJoined
    <2>2. PICK f \in File : f = file /\ FileOf[m] = f /\ FileOf[n] = f
      BY <1>2, WhatIsJoined DEF file
    <2>3. Joins(f)
      BY <1>1, <2>1, <2>2 DEF Joining, Telling, TgtJoin
    <2>4. ~NewFile
      BY <2>1 DEF NewFile, Goto
    <2>5. Joins(f)'
      BY <2>3, <2>4, OtherSlots
    <2>6. PICK h : h = isl'[f].name
      OBVIOUS
    <2>7. \A x \in Name : Finished(x)' /\ Joins(FileOf[x])' => dir'[x] = dir'[isl'[FileOf[x]].name]
      BY <1>1 DEF HomeInv
    <2> QED
      BY <1>2, <2>2, <2>5, <2>7
  <1>3. ASSUME NEW n \in Name, NEW m \in Name, n # tgt, m # tgt, Finished(n)', Finished(m)', FileOf[n] = FileOf[m]
        PROVE  dir'[n] = dir'[m]
    <2>1. Finished(m) /\ Finished(n)
      BY <1>3, WhatIsJoined
    <2>2. dir'[n] = dir[n] /\ dir'[m] = dir[m]
      BY <1>3, OtherNames
    <2> QED
      BY <1>3, <2>1, <2>2 DEF Joining, Telling, Joined
  <1> SUFFICES ASSUME NEW n \in Name, NEW m \in Name, Finished(n)', Finished(m)', FileOf[n] = FileOf[m]
               PROVE  dir'[n] = dir'[m]
    BY DEF Joined
  <1> QED
    BY <1>2, <1>3

\* inpone() counts down when it makes a link.
LEMMA OldFile == ASSUME Joining PROVE OldLinks'
  <1> SUFFICES ASSUME ~svr4
      PROVE  (own' # None => Came(own)') /\ \A f \in DOMAIN isl' : isl'[f].nlk > Cardinality(ToCome(f)') + Choice(f)'
    BY WhatIsJoined DEF OldLinks
  <1>1. /\ UNCHANGED <<svr4, tape, pos, node>> /\ (NewFile \/ (MakeLink /\ ~svr4) \/ isl' = isl)
        /\ todo = <<>> /\ Busy /\ tgt \in Name /\ file \in File /\ NLink[file] \in Nat \ {0} /\ Inv /\ IslInv
    BY WhatIsJoined, TellingSame DEF OldInv, Joining, Telling
  <1>2. own # None /\ tgt = own /\ Came(own)
    BY <1>1 DEF Busy, IsLink, tgt, Joining, Telling, OldLinks
  <1>3. \A m : Came(m)' <=> Came(m)
    BY <1>1 DEF Came
  <1>4. (own' = own \/ own' = None) /\ (pc' = "inpone" => own' = None)
    BY <1>1 DEF Joining, Extracts, Choosing, Unwanted, SkipNewer, NoDirectory, NewFile, MakeLink, Linking,
       Link, UnlinkTarget, LinkFails, Keeping, Mkstemp, MkstempFails, CloseFails, PutEmpty,
       PutEmptyFails, SetOfile, SetTfile, RenameOld,
       RenameFails, Writing, Create, CreateFails, Write, WriteFails, Ending, Restore, RestoreFails,
       Forget, UnlinkTemp, Goto, Leave, Over, IsLink
  <1>5. own' # None => Came(own)'
    BY <1>1, <1>2, <1>4 DEF Came
  <1>6. \A f : Choice(f)' = 0 /\ ToCome(f)' = ToCome(f)
    BY <1>3, <1>4 DEF Choice, ToCome
  <1>7. \A f \in File : Cardinality(ToCome(f)) \in Nat
    BY FileLinks, FS_Subset, FS_CardinalityType DEF ToCome
  <1>8. \A f \in DOMAIN isl : f \in File /\ isl[f].nlk \in Nat /\ isl[f].nlk > Cardinality(ToCome(f)) + Choice(f)
    BY <1>1, SlotTypes DEF Joining, Telling, OldLinks
  <1>9. \A f \in DOMAIN isl : isl[f].nlk > Cardinality(ToCome(f))
    <2>1. \A f : Choice(f) \in {0, 1}
      BY DEF Choice
    <2> QED
      BY <1>7, <1>8, <2>1
  <1>10. CASE isl' = isl
    BY <1>5, <1>6, <1>7, <1>9, <1>8, <1>10
  <1>11. CASE MakeLink
    <2>1. /\ file \in DOMAIN isl /\ DOMAIN isl' = DOMAIN isl /\ isl'[file].nlk = isl[file].nlk - 1
          /\ \A g \in DOMAIN isl : g # file => isl'[g] = isl[g]
      BY <1>1, <1>11, MakeLinkSlots
    <2>2. Choice(file) = 1
      BY <1>2, <1>11 DEF Choice, MakeLink, Filein, Inpone, At, file
    <2>3. isl'[file].nlk > Cardinality(ToCome(file))
      BY <1>1, <1>7, <1>8, <2>1, <2>2
    <2>4. \A f \in DOMAIN isl' : isl'[f].nlk > Cardinality(ToCome(f))
      BY <1>9, <2>1, <2>3
    <2> QED
      BY <1>5, <1>6, <1>7, <1>8, <2>1, <2>4
  <1>12. CASE NewFile
    <2>1. CASE NLink[file] = 1
      BY <1>5, <1>10, <1>12, <2>1 DEF NewFile, Recorded
    <2>2. CASE NLink[file] # 1
      <3>1. /\ isl'[file].nlk = NLink[file]
            /\ \A g \in DOMAIN isl' : g # file => g \in DOMAIN isl /\ isl'[g] = isl[g]
        BY <1>1, <1>12, <2>2, NewFileNames
      <3>2. Cardinality(ToCome(file)) < NLink[file]
        <4>1. PICK f \in File : f = file
          BY <1>1
        <4>2. IsFiniteSet(LinkOf(f)) /\ Cardinality(LinkOf(f)) \in Nat /\ Cardinality(LinkOf(f)) <= NLink[f] /\ NLink[f] \in Nat
          BY FileLinks
        <4>3. tgt \in LinkOf(f) /\ tgt \notin ToCome(f) /\ ToCome(f) \subseteq LinkOf(f) \ {tgt}
          BY <1>1, <1>2, <4>1 DEF LinkOf, ToCome, file
        <4>4. Cardinality(LinkOf(f) \ {tgt}) = Cardinality(LinkOf(f)) - 1 /\ IsFiniteSet(LinkOf(f) \ {tgt})
          BY <4>2, <4>3, FS_RemoveElement
        <4>5. Cardinality(ToCome(f)) <= Cardinality(LinkOf(f) \ {tgt})
          BY <4>3, <4>4, FS_Subset
        <4> QED
          BY <1>7, <4>1, <4>2, <4>4, <4>5
      <3>3. \A f \in DOMAIN isl' : isl'[f].nlk > Cardinality(ToCome(f))
        <4>1. isl'[file].nlk > Cardinality(ToCome(file))
          BY <1>1, <1>7, <3>1, <3>2
        <4> QED
          BY <1>9, <3>1, <4>1
      <3>4. \A f \in DOMAIN isl' : f \in File
        BY <1>1, <1>8, <3>1
      <3> QED
        BY <1>5, <1>6, <1>7, <3>3, <3>4
    <2> QED
      BY <2>1, <2>2
  <1> QED
    BY <1>1, <1>10, <1>11, <1>12

\* At the begin of cpio -i no name has been extracted.
LEMMA JoinBegin == ASSUME Inv, WaitInv, FirstInv, CopyOut \/ Start PROVE JoinInv'
  <1> SUFFICES ASSUME Clean' PROVE HomeInv' /\ TgtHome' /\ TgtJoin' /\ Joined' /\ OldLinks'
    BY DEF JoinInv
  <1>1. Start
    BY DEF CopyOut, inVars, Clean
  <1>2. pc = "out" /\ UNCHANGED <<archive, reader>> /\ pc' = "next"
    BY <1>1 DEF Start, outVars
  <1>3. isl' = <<>> /\ pos' = 0 /\ own' = None
    BY <1>2 DEF FirstInv, reader, Inv, NameInv
  <1>4. \A n : ~Finished(n)'
    BY <1>3 DEF Finished, Came
  <1> QED
    BY <1>2, <1>3, <1>4 DEF HomeInv, TgtHome, TgtJoin, Joined, OldLinks, Filling, Making, Replacing

\* And every step leaves the names of a file linked to each other.
LEMMA JoinStep ==
    ASSUME Inv, Own => CountInv, WaitInv, FirstInv, FillInv, LastInv, ReadInv, JoinInv, [Next]_vars PROVE JoinInv'
  <1>1. CASE UNCHANGED vars
    <2> USE <1>1 DEF vars, outVars, archive, inVars, given, reader, tree, cur
    <2>1. Once' = Once /\ Clean' = Clean
      BY DEF Once, Own, Count, Clean
    <2>2. tgt' = tgt /\ file' = file
      BY SameTgt
    <2>3. \A f : Finished(f)' = Finished(f) /\ Joins(f)' = Joins(f) /\ Named(f)' = Named(f)
      BY DEF Finished, Came, Waiting, Held, Joins, Shares, Named
    <2>4. HomeInv => HomeInv'
      BY <2>3 DEF HomeInv
    <2>5. TgtHome => TgtHome'
      BY <2>2 DEF TgtHome, Exists, Joins, Shares, Named
    <2>6. TgtJoin => TgtJoin'
      <3>1. Joins(file)' = Joins(file)
        BY <2>2 DEF Joins, Shares
      <3> QED
        BY <2>2, <2>3, <3>1 DEF TgtJoin, Busy, IsLink
    <2>7. Joined => Joined'
      BY <2>3 DEF Joined
    <2>8. OldLinks => OldLinks'
      BY DEF OldLinks, Came, ToCome, Choice
    <2> QED
      BY <2>1, <2>4, <2>5, <2>6, <2>7, <2>8 DEF JoinInv
  <1>2. CASE Next /\ pc = "out"
    BY <1>2, Phases, JoinBegin DEF Places
  <1>3. CASE Next /\ pc # "out"
    <2> SUFFICES ASSUME Once', Clean' PROVE HomeInv' /\ TgtHome' /\ TgtJoin' /\ Joined' /\ OldLinks'
      BY DEF JoinInv
    <2>1. Clean /\ UNCHANGED archive
      BY <1>3, StaysClean
    <2>2. Once
      BY <2>1 DEF archive, Once, Own, Count
    <2>3. Telling
      BY <1>3, <2>1, <2>2 DEF Telling, Once, JoinInv
    <2>4. Doinp /\ ~Exit /\ ~TapeEnds
      BY <1>3, Phases DEF Places, Clean, Interrupt, Exit, TapeEnds
    <2>5. CASE Steps
      BY <2>3, <2>5, HomeSteps, TgtSteps, OldRead
    <2>6. CASE Extracts
      BY <2>3, <2>6, HomeFile, TgtHomeFile, TgtJoinFile, JoinedFile, OldFile DEF Joining
    <2> QED
      BY <2>4, <2>5, <2>6, Kinds DEF Extracts, Steps
  <1> QED
    BY <1>1, <1>2, <1>3

\* All that has to do with what the exit status tells.
TellInv == WaitInv /\ FirstInv /\ LossInv /\ FillInv /\ LastInv /\ ReadInv /\ JoinInv /\ StatusTells

\* At first nothing is told of.
LEMMA TellFirst == Init => TellInv
  <1> SUFFICES ASSUME Init PROVE TellInv
    OBVIOUS
  <1>1. pc = "out" /\ isl = <<>> /\ todo = <<>> /\ node = None
    BY DEF Init
  <1>2. LossInv /\ FirstInv
    BY LossFirst
  <1>3. FillInv
    BY <1>1 DEF FillInv, EndInv, OldInv, DataInv, SettledInv, FilledInv, Clean
  <1>4. ReadInv /\ JoinInv /\ StatusTells
    BY <1>1 DEF ReadInv, JoinInv, StatusTells, Clean
  <1> QED
    BY <1>2, <1>3, <1>4, WaitFirst, LastFirst DEF TellInv

\* cpio -i ends without an error only when all is done.
LEMMA StatusStep ==
    ASSUME Inv, Own => CountInv, TellInv, Next PROVE StatusTells'
  <1> SUFFICES ASSUME pc' = "exit", sig' = None, ~errcnt', failed' = {}, Own' PROVE StatusTells'
    BY DEF StatusTells
  <1>1. pc \in Places /\ (Doinp \/ Interrupt)
    BY Phases DEF CopyOut, inVars, Inv, NameInv, Start
  <1>2. ~Interrupt
    BY <1>1, CpioAssumption DEF Interrupt, CpioAssumption
  <1>3. ~TapeEnds
    BY DEF TapeEnds, Error
  <1>4. Exit
    <2>1. ~Extracts
      BY FileSteps DEF Extracting
    <2>2. ~Steps
      BY DEF Steps, Reading, TakeFile, FlushLinks, StoreLink, FlushEmpty, Trailer, NodeDone, FlushRest,
         FlushNode, ReadHeader
    <2> QED
      BY <1>1, <1>2, <1>3, <2>1, <2>2, Kinds DEF Steps, Extracts
  <1>5. UNCHANGED <<input, failed, errcnt, tree, wanted>> /\ pc = "rest"
    BY <1>4 DEF Exit, outVars, archive, given
  <1>6. Clean
    BY <1>5 DEF Clean, Own
  <1>7. CountInv /\ WaitInv /\ FillInv
    BY <1>6 DEF Clean, TellInv
  <1>8. ASSUME NEW i \in DOMAIN input, NEW j \in DOMAIN input, input[i] \in wanted, input[j] \in wanted,
               FileOf[input[i]] = FileOf[input[j]], \A l \in DOMAIN input : Count(input[l]) = 1
        PROVE  dir[input[i]] = dir[input[j]]
    <2>1. Once
      BY <1>6, <1>8 DEF Once, Clean
    <2>2. Joined
      BY <1>6, <2>1 DEF TellInv, JoinInv
    <2>3. /\ Finished(input[i]) /\ input[i] \in Name
          /\ Finished(input[j]) /\ input[j] \in Name
      BY <1>4, <1>6, <1>7, <1>8, AllFinished
    <2> QED
      BY <1>8, <2>2, <2>3 DEF Joined
  <1>9. ASSUME NEW i \in DOMAIN input, input[i] \in wanted PROVE Whole(input[i])'
    BY <1>4, <1>6, <1>7, <1>9, ExitTells
  <1>10. \A n : Count(n)' = Count(n)
    BY <1>5 DEF Count
  <1> QED
    <2> SUFFICES ASSUME NEW i \in DOMAIN input, NEW j \in DOMAIN input, input[i] \in wanted, input[j] \in wanted
                 PROVE  /\ Whole(input[i])'
                        /\ FileOf[input[i]] = FileOf[input[j]] /\ (\A l \in DOMAIN input : Count(input[l])' = 1)
                           => dir'[input[i]] = dir'[input[j]]
      BY <1>5 DEF StatusTells, Whole, Exists, Count
    <2>1. Whole(input[i])'
      BY <1>9
    <2> QED
      BY <1>5, <1>8, <1>10, <2>1 DEF tree

\* And every step leaves the exit status true.
LEMMA TellStep == Inv /\ Inv' /\ (Own => CountInv) /\ TellInv /\ [Next]_vars => TellInv'
  <1> SUFFICES ASSUME Inv, Inv', Own => CountInv, TellInv, [Next]_vars PROVE TellInv'
    OBVIOUS
  <1>1. WaitInv' /\ LossInv' /\ FirstInv' /\ FillInv' /\ LastInv' /\ ReadInv' /\ JoinInv'
    BY WaitStep, LossNext, FillStep, LastStep, ReadStep, JoinStep DEF TellInv
  <1>2. CASE UNCHANGED vars
    <2>1. StatusTells
      BY DEF TellInv
    <2>2. UNCHANGED <<pc, sig, errcnt, failed, input, wanted, dir, ino>>
      BY <1>2 DEF vars, outVars, archive, inVars, given, tree
    <2>3. \A n : Count(n)' = Count(n)
      BY <2>2 DEF Count
    <2>4. \A n : Whole(n)' = Whole(n)
      BY <2>2 DEF Whole, Exists, Made
    <2>5. StatusTells'
      BY <2>1, <2>2, <2>3, <2>4 DEF StatusTells, Own
    <2> QED
      BY <1>1, <2>5 DEF TellInv
  <1>3. CASE Next
    BY <1>1, <1>3, StatusStep DEF TellInv
  <1> QED
    BY <1>2, <1>3

\* When cpio -i ends and has told of no error, every name that was listed and that the user wants
\* is there with all of its data, and is a link to the others of its file unless the list had a
\* name twice: for any list, any links, any target and any failures (doinp(), flushnode(),
\* inpone(), filein(), linkunlink()).
THEOREM CpioTells == Spec => []StatusTells
  <1>1. TellInv => StatusTells
    BY DEF TellInv
  <1> QED
    BY InvInit, InvStep, CountFirst, CountStep, TellFirst, TellStep, <1>1, PTL DEF Spec
=============================================================================
