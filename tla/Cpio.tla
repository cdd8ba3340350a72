-------------------------------- MODULE Cpio --------------------------------
(***************************************************************************)
(* cpio/cpio.c: what -o wrote (CpioOut), or another implementation,        *)
(* is extracted with -i.  An existing file is renamed to a temporary name  *)
(* until the new one is complete; SIGINT puts it back.  With the -c format *)
(* the links without data wait in i_lnk until the data comes, which goes   *)
(* to the first of them that the user wants; the others are linked to it.  *)
(*                                                                         *)
(* Any call may fail, the archive may end early, and SIGINT may come at    *)
(* any time.                                                               *)
(*                                                                         *)
(* Left out: -p, -t, -d, -m and the attributes, checksums, -k, interactive *)
(* renaming and multiple volumes.                                          *)
(***************************************************************************)
EXTENDS CpioOut, FiniteSets

CONSTANTS
    Foreign,    \* bound: archives of other implementations
    Targets,    \* bound: what is in the target at first: [dir, ino]
    Wanted,     \* bound: the names that the patterns select
    None,       \* no name
    Temp        \* the name that mkstemp() makes of a target

\* Where cpio -i is: at a header, at the rest of i_lnk, or in a step of filein().
Places == {"next", "rest", "inpone", "link", "mkstemp", "skip", "ofile", "tfile", "rename",
           "creat", "write", "restore", "tunlink", "unlink"}

ASSUME CpioAssumption ==
    /\ None \notin Name \cup File /\ Temp \notin Name /\ None \notin Places
    /\ Foreign \subseteq Seq({h \in [name : Name, data : BOOLEAN] : h.data => FileOf[h.name] \notin Empty})
    /\ Wanted \subseteq SUBSET Name
    /\ \A t \in Targets :
          /\ t.ino \in Seq([what : {"old"}, of : Name, fresh : BOOLEAN])
          /\ t.dir \in [Name -> 0..Len(t.ino)]

\* st_nlink counts the directory entries of a file.
ASSUME NamesFit ==
    \A f \in File : LET links == {n \in Name : FileOf[n] = f}
                   IN IsFiniteSet(links) /\ Cardinality(links) <= NLink[f]

VARIABLES
    pc,
    uflag, wanted, was, \* -u, what the patterns select, the target before; never change
    pos,        \* the number of headers that have been read
    size,       \* f_st.st_size: whether the data of the last header is still to be written
    isl,        \* for the inodes seen: i_nlk, i_lnk and i_name
    node,       \* the inode that flushnode() has a slot of, or None
    todo, own,  \* the links that flushnode() is about to extract, and the name in the header
    dir,        \* the target: for a name the number of its inode, or 0
    ino,        \* the inodes made so far
    ofile,      \* cur_ofile: "null", or where it points to, and the name there
    tfile,      \* cur_tfile: whether it is set
    errcnt,     \* whether it is above 0
    sig,        \* history: the pc when SIGINT came, or None
    atRisk      \* history: the names whose old file was given up while it was needed

given == <<uflag, wanted, was>>
reader == <<pos, size, isl, node, todo, own>>
tree == <<dir, ino>>
cur == <<ofile, tfile>>
inVars == <<pc, given, reader, tree, cur, errcnt, sig>>
vars == <<outVars, inVars, atRisk>>

-----------------------------------------------------------------------------
(* The target *)

Inode(what, n, fresh) == [what |-> what, of |-> n, fresh |-> fresh]
Exists(n) == dir[n] # 0

\* What was extracted is not older than the archive.
Made(what, n) == Inode(what, FileOf[n], TRUE)

\* n is a link to a complete copy of its file.
Whole(n) ==
    Exists(n) /\ ino[dir[n]] = Made(IF FileOf[n] \in Empty THEN "empty" ELSE "whole", n)

\* creat(): an existing file is truncated under all of its names.
Creat(n, i) ==
    IF Exists(n) THEN ino' = [ino EXCEPT ![dir[n]] = i] /\ UNCHANGED dir
    ELSE ino' = Append(ino, i) /\ dir' = [dir EXCEPT ![n] = Len(ino) + 1]

Rename(n, m) == dir' = [dir EXCEPT ![m] = dir[n], ![n] = 0]
Unlink(n) == dir' = [dir EXCEPT ![n] = 0]

Init ==
    /\ \/ OutInit
       \/ /\ svr4 \in BOOLEAN /\ tape \in Foreign
          /\ input = <<>> /\ list = <<>> /\ kept = <<>> /\ failed = {} /\ left = Failures
    /\ pc = "out"
    /\ uflag = FALSE /\ wanted = {} /\ was = <<>>
    /\ pos = 0 /\ size = FALSE /\ isl = <<>> /\ node = None /\ todo = <<>> /\ own = None
    /\ dir = <<>> /\ ino = <<>>
    /\ ofile = [at |-> "null", name |-> None] /\ tfile = FALSE
    /\ errcnt = FALSE /\ sig = None /\ atRisk = {}

CopyOut == pc = "out" /\ OutNext /\ UNCHANGED inVars

\* main() and the begin of doinp(), on a target of any past.
Start ==
    /\ pc = "out" /\ OutDone
    /\ uflag' \in BOOLEAN /\ wanted' \in Wanted
    /\ \E t \in Targets :
          /\ dir' = [n \in Name \cup {Temp} |-> IF n = Temp THEN 0 ELSE t.dir[n]]
          /\ ino' = t.ino /\ was' = dir'
    /\ pc' = "next"
    /\ UNCHANGED <<outVars, reader, cur, errcnt, sig>>

-----------------------------------------------------------------------------
(* doinp(): the headers, and the links that wait *)

\* readhdr() has put the name into its buffer, to which cur_ofile may still point, or
\* has taken a larger one.
Reread(n) ==
    /\ \/ ofile' = IF ofile.at = "header" THEN [ofile EXCEPT !.name = n] ELSE ofile
       \/ ofile.at = "header" /\ ofile' = [ofile EXCEPT !.at = "freed"]
    /\ UNCHANGED tfile

Header == tape[pos + 1]

ReadHeader ==
    /\ pc = "next" /\ pos < Len(tape)
    /\ pos' = pos + 1 /\ size' = Header.data
    /\ Reread(Header.name)
    /\ UNCHANGED <<outVars, given, tree, errcnt, sig>>

Waits(n) == svr4 /\ NLink[FileOf[n]] > 1

\* No link to wait for.
TakeFile ==
    /\ ReadHeader
    /\ ~Waits(Header.name)
    /\ pc' = "inpone" /\ own' = Header.name
    /\ UNCHANGED <<isl, node, todo>>

\* Mutant: flushnode() takes f for a link, whether or not it has a name.
SlipFlushNode(f, n) ==
    /\ pc' = "inpone" /\ own' = None
    /\ node' = IF f \in DOMAIN isl THEN f ELSE None
    /\ todo' = Append(IF f \in DOMAIN isl THEN isl[f].lnk ELSE <<>>, n)
    /\ isl' = IF f \in DOMAIN isl THEN [isl EXCEPT ![f].lnk = <<>>] ELSE isl

\* The begin of flushnode(): the links stored so far, then the header's own.
FlushNode(f, n) ==
    LET some == f \in DOMAIN isl /\ isl[f].nlk > 0 IN
    /\ pc' = "inpone" /\ own' = n
    /\ node' = IF f \in DOMAIN isl THEN f ELSE None
    /\ todo' = IF some THEN isl[f].lnk ELSE <<>>
    /\ isl' = IF some THEN [isl EXCEPT ![f].lnk = <<>>] ELSE isl

FlushLinks ==
    /\ ReadHeader
    /\ Waits(Header.name) /\ Header.data
    /\ FlushNode(FileOf[Header.name], Header.name)

NewSlot(f, nlk, lnk, n) == Put(isl, f, [nlk |-> nlk, lnk |-> lnk, name |-> n])

\* storelink(): more links than st_nlink are taken for a new inode.
StoreLink ==
    LET n == Header.name  f == FileOf[n] IN
    /\ ReadHeader
    /\ Waits(n) /\ ~Header.data
    /\ \/ f \notin DOMAIN isl /\ isl' = NewSlot(f, NLink[f], <<n>>, None)
       \/ /\ f \in DOMAIN isl /\ isl[f].nlk = 0
          /\ isl' = NewSlot(f, NLink[f], Append(isl[f].lnk, n), None)
       \/ /\ f \in DOMAIN isl /\ isl[f].nlk > 2
          /\ isl' = NewSlot(f, isl[f].nlk - 1, Append(isl[f].lnk, n), isl[f].name)
    /\ UNCHANGED <<pc, node, todo, own>>

\* storelink() of the last link of a file without data.
FlushEmpty ==
    LET f == FileOf[Header.name] IN
    /\ ReadHeader
    /\ Waits(Header.name) /\ ~Header.data
    /\ f \in DOMAIN isl /\ isl[f].nlk \in 1..2
    /\ FlushNode(f, Header.name)

Trailer ==
    /\ pc = "next" /\ pos = Len(tape)
    /\ pc' = "rest" /\ pos' = pos + 1
    /\ Reread(None)
    /\ UNCHANGED <<outVars, given, size, isl, node, todo, own, tree, errcnt, sig>>

FlushRest(f) ==
    /\ pc = "rest" /\ svr4
    /\ f \in DOMAIN isl /\ isl[f].nlk > 0
    /\ FlushNode(f, None)
    /\ size' = FALSE
    /\ UNCHANGED <<outVars, given, pos, tree, cur, errcnt, sig>>

Exit ==
    /\ pc = "rest" /\ ~(svr4 /\ \E f \in DOMAIN isl : isl[f].nlk > 0)
    /\ pc' = "exit"
    /\ UNCHANGED <<outVars, given, reader, tree, cur, errcnt, sig>>

\* Mutant: i_nlk stays what it was.
SlipNodeDone ==
    /\ pc = "inpone" /\ todo = <<>> /\ own = None
    /\ pc' = IF pos > Len(tape) THEN "rest" ELSE "next"
    /\ node' = None
    /\ isl' = IF node = None THEN isl ELSE [isl EXCEPT ![node].name = None]
    /\ UNCHANGED <<outVars, given, pos, size, todo, own, tree, cur, errcnt, sig>>

\* The end of flushnode(), or of what doinp() does for a header: i_name is not used for
\* another inode.
NodeDone ==
    /\ pc = "inpone" /\ todo = <<>> /\ own = None
    /\ pc' = IF pos > Len(tape) THEN "rest" ELSE "next"
    /\ node' = None
    /\ isl' = IF node = None THEN isl
              ELSE [isl EXCEPT ![node].nlk = 0,
                               ![node].name = IF isl[node].nlk > 2 THEN @ ELSE None]
    /\ UNCHANGED <<outVars, given, pos, size, todo, own, tree, cur, errcnt, sig>>

-----------------------------------------------------------------------------
(* inpone() and filein() for the link that is first, or the name in the header *)

IsLink == todo # <<>>
tgt == IF IsLink THEN Head(todo) ELSE own
file == FileOf[tgt]
AtTgt == [at |-> IF IsLink THEN "link" ELSE "header", name |-> tgt]
Null == [at |-> "null", name |-> None]

At(p) == pc = p /\ UNCHANGED <<archive, given, pos, node, sig>>
Goto(p) == pc' = p /\ UNCHANGED <<size, todo, own>>
Fine == UNCHANGED <<left, errcnt>>
Error == Fails /\ errcnt' = TRUE

\* On to the next name.  That of a link is freed, whether or not cur_ofile is it.
Over(o) ==
    /\ pc' = "inpone"
    /\ IF IsLink THEN todo' = Tail(todo) /\ UNCHANGED own ELSE own' = None /\ UNCHANGED todo
    /\ ofile' = IF IsLink /\ o.at = "link" THEN [o EXCEPT !.at = "freed"] ELSE o

\* Back from filein(): the data has been read, whatever came of it.
Leave(o) == Over(o) /\ size' = FALSE

Inpone == At("inpone") /\ (IsLink \/ own # None)

\* Mutant: the data of a link is skipped, too.
SlipUnwanted ==
    /\ Inpone /\ tgt \notin wanted
    /\ Leave(ofile)
    /\ Fine /\ UNCHANGED <<isl, tree, tfile>>

\* The data of a link that the user does not want is left to the next.
Unwanted ==
    /\ Inpone /\ tgt \notin wanted
    /\ Over(ofile) /\ size' = (size /\ IsLink)
    /\ Fine /\ UNCHANGED <<isl, tree, tfile>>

Filein == Inpone /\ tgt \in wanted

Newer == Exists(tgt) /\ ~uflag /\ ino[dir[tgt]].fresh

SkipNewer ==
    /\ Filein /\ Newer
    /\ Leave(ofile) /\ errcnt' = TRUE
    /\ UNCHANGED <<isl, tree, tfile, left>>

NoDirectory ==
    /\ Filein /\ ~Exists(tgt)
    /\ Leave(ofile) /\ Error
    /\ UNCHANGED <<isl, tree, tfile>>

\* canlink(): the file has been created under another name, and has links left.
Known == file \in DOMAIN isl /\ isl[file].name # None
Links == NLink[file] > 1 /\ Known /\ isl[file].nlk > (IF svr4 THEN 0 ELSE 1)

Recorded ==
    IF NLink[file] = 1 \/ (svr4 /\ Known) THEN isl
    ELSE NewSlot(file,
                 IF ~svr4 THEN NLink[file] ELSE IF file \in DOMAIN isl THEN isl[file].nlk ELSE 0,
                 <<>>, tgt)

NewFile ==
    /\ Filein /\ ~Newer /\ ~Links
    /\ isl' = Recorded
    /\ Goto(IF Exists(tgt) THEN "mkstemp" ELSE "creat")
    /\ Fine /\ UNCHANGED <<tree, cur>>

MakeLink ==
    /\ Filein /\ ~Newer /\ Links
    /\ isl' = IF svr4 THEN isl ELSE [isl EXCEPT ![file].nlk = @ - 1]
    /\ Goto("link")
    /\ Fine /\ UNCHANGED <<tree, cur>>

-----------------------------------------------------------------------------
(* linkunlink() *)

first == isl[file].name
InLink == At("link") /\ UNCHANGED <<isl, tfile>>

\* Data that comes with a link is written over that of the first.
Link ==
    /\ InLink /\ Exists(first)
    /\ dir[tgt] \in {0, dir[first]}
    /\ dir' = [dir EXCEPT ![tgt] = dir[first]]
    /\ IF svr4 /\ ~size THEN Leave(ofile) ELSE Goto("creat") /\ UNCHANGED ofile
    /\ Fine /\ UNCHANGED ino

UnlinkTarget ==
    /\ InLink /\ Exists(first)
    /\ dir[tgt] \notin {0, dir[first]}
    /\ Unlink(tgt)
    /\ Goto("link") /\ Fine /\ UNCHANGED <<ino, ofile>>

LinkFails ==
    /\ InLink
    /\ \/ ~Exists(first) /\ errcnt' = TRUE /\ UNCHANGED left
       \/ Error
    /\ Leave(ofile) /\ UNCHANGED tree

-----------------------------------------------------------------------------
(* filein(): the existing file is kept until the new one is complete *)

Keep(p) == At(p) /\ UNCHANGED isl

Mkstemp ==
    /\ Keep("mkstemp")
    /\ Creat(Temp, Inode("empty", None, TRUE))
    /\ Goto("ofile") /\ Fine /\ UNCHANGED cur

MkstempFails ==
    /\ Keep("mkstemp")
    /\ Leave(ofile) /\ Error /\ UNCHANGED <<tree, tfile>>

\* The temporary file is there, but close() fails: on to skip, with temp set.
CloseFails ==
    /\ Keep("mkstemp")
    /\ Creat(Temp, Inode("empty", None, TRUE))
    /\ Goto("skip") /\ Error /\ UNCHANGED cur

\* From there to restore: the empty file takes the place of the old one, which nothing had
\* happened to.
PutEmpty ==
    /\ Keep("skip")
    /\ Rename(Temp, tgt) /\ tfile' = FALSE
    /\ Leave(Null) /\ Fine /\ UNCHANGED ino

PutEmptyFails ==
    /\ Keep("skip")
    /\ Unlink(Temp) /\ tfile' = FALSE
    /\ Leave(Null) /\ Error /\ UNCHANGED ino

\* cur_ofile is set before cur_tfile, and both before rename().
SetOfile ==
    /\ Keep("ofile")
    /\ ofile' = AtTgt
    /\ Goto("tfile") /\ Fine /\ UNCHANGED <<tree, tfile>>

SetTfile ==
    /\ Keep("tfile")
    /\ tfile' = TRUE
    /\ Goto("rename") /\ Fine /\ UNCHANGED <<tree, ofile>>

RenameOld ==
    /\ Keep("rename")
    /\ Rename(tgt, Temp)
    /\ Goto("creat") /\ Fine /\ UNCHANGED <<ino, cur>>

\* Mutant: the temporary file stays.
SlipRenameFails ==
    /\ Keep("rename")
    /\ tfile' = FALSE
    /\ Leave(Null) /\ Error /\ UNCHANGED tree

RenameFails ==
    /\ Keep("rename")
    /\ Unlink(Temp) /\ tfile' = FALSE
    /\ Leave(Null) /\ Error /\ UNCHANGED ino

\* Mutant: cur_ofile is set for an existing file only.
SlipCreate ==
    /\ Keep("creat")
    /\ Creat(tgt, Made(IF size THEN "part" ELSE "empty", tgt))
    /\ Goto("write") /\ Fine /\ UNCHANGED cur

Create ==
    /\ Keep("creat")
    /\ Creat(tgt, Made(IF size THEN "part" ELSE "empty", tgt))
    /\ ofile' = AtTgt
    /\ Goto("write") /\ Fine /\ UNCHANGED tfile

\* creat() fails, or later write() or close().
CreateFails ==
    /\ Keep("creat")
    /\ ofile' = AtTgt
    /\ Goto("restore") /\ Error /\ UNCHANGED <<tree, tfile>>

Write ==
    /\ Keep("write")
    /\ IF size THEN Creat(tgt, Made("whole", tgt)) ELSE UNCHANGED tree
    /\ Goto("tunlink") /\ Fine /\ UNCHANGED cur

WriteFails ==
    /\ Keep("write") /\ size
    /\ Goto("restore") /\ Error /\ UNCHANGED <<tree, cur>>

\* Without a temporary file cur_ofile stays what it is.
Restore ==
    /\ Keep("restore")
    /\ IF tfile THEN Rename(Temp, tgt) /\ Leave(Null) ELSE UNCHANGED dir /\ Leave(ofile)
    /\ tfile' = FALSE
    /\ Fine /\ UNCHANGED ino

RestoreFails ==
    /\ Keep("restore") /\ tfile
    /\ Unlink(Temp) /\ tfile' = FALSE
    /\ Leave(Null) /\ Error /\ UNCHANGED ino

\* tunlink() forgets the names before it removes the temporary file.
Forget ==
    /\ Keep("tunlink")
    /\ tfile' = FALSE
    /\ IF tfile THEN Goto("unlink") /\ ofile' = Null ELSE Leave(Null)
    /\ Fine /\ UNCHANGED tree

UnlinkTemp ==
    /\ Keep("unlink")
    /\ Unlink(Temp)
    /\ Leave(ofile) /\ Fine /\ UNCHANGED <<ino, tfile>>

-----------------------------------------------------------------------------
\* The data is being read: by filein(), or, when a call has failed or the name is not to be
\* extracted, by skipdata() or skipfile().
InData ==
    /\ size
    /\ \/ pc \in {"link", "mkstemp", "skip", "write", "restore"}
       \/ pc = "inpone" /\ tgt \in wanted /\ (Newer \/ ~Exists(tgt))
       \/ pc = "inpone" /\ own # None /\ ~IsLink /\ tgt \notin wanted

\* unexeoa(): the archive ends in a header or in the data.
TapeEnds ==
    /\ pc = "next" \/ InData
    /\ pc' = "exit" /\ Error
    /\ UNCHANGED <<archive, given, reader, tree, cur, sig>>

\* onint().  What cur_ofile points to may have been freed.
Onint ==
    \/ ofile.at = "null" /\ UNCHANGED dir
    \/ ofile.at # "null" /\ tfile /\ Rename(Temp, ofile.name)
    \/ ofile.at # "null" /\ ~tfile /\ ofile.name # None /\ Unlink(ofile.name)
    \/ ofile.at # "null" /\ ~tfile /\ ofile.name = None /\ UNCHANGED dir
    \/ ofile.at = "freed" /\ (UNCHANGED dir \/ \E n \in Name : Unlink(n))

Interrupt ==
    /\ pc \in Places
    /\ Onint
    /\ pc' = "exit" /\ sig' = pc
    /\ UNCHANGED <<outVars, given, reader, ino, cur, errcnt>>

Doinp ==
    \/ TakeFile \/ FlushLinks \/ StoreLink \/ FlushEmpty \/ Trailer
    \/ \E f \in File : FlushRest(f)
    \/ NodeDone \/ Exit
    \/ Unwanted \/ SkipNewer \/ NoDirectory \/ NewFile \/ MakeLink
    \/ Link \/ UnlinkTarget \/ LinkFails
    \/ Mkstemp \/ MkstempFails \/ CloseFails \/ PutEmpty \/ PutEmptyFails
    \/ SetOfile \/ SetTfile \/ RenameOld \/ RenameFails
    \/ Create \/ CreateFails \/ Write \/ WriteFails \/ Restore \/ RestoreFails
    \/ Forget \/ UnlinkTemp
    \/ TapeEnds

\* cur_ofile points to what filein() is about to create or is writing.
Current == ofile = AtTgt /\ pc \in {"rename", "creat", "write", "restore", "tunlink"}

\* Where the code lets go of a file that it has nothing better for yet:
GivenUp(n) ==
    \/ pc = "link" /\ n = tgt /\ dir'[n] = 0                            \* linkunlink()
    \/ pc = "link" /\ n = tgt /\ isl[file].name \in atRisk              \* to a link without its data
    \/ pc = "creat" /\ Exists(n) /\ dir[n] = dir[tgt]                   \* creat() through a link
    \/ pc = "creat" /\ pc' = "write" /\ n = tgt /\ ~size                \* the data went to a link
       /\ file \notin Empty                                             \* that was skipped
    \/ pc = "skip" /\ n = tgt /\ dir'[n] # dir[n]                       \* filein(): close() failed
    \/ pc = "restore" /\ pc' = "inpone" /\ n = tgt /\ left' # left      \* filein(): tunlink()
    \/ sig' # sig /\ pc \in {"tfile", "rename"} /\ n = tgt              \* onint(): it has not been
                                                                        \* renamed yet
    \/ sig' # sig /\ ~Current /\ dir'[n] # dir[n]                       \* an old cur_ofile

Next ==
    /\ CopyOut \/ Start \/ Doinp \/ Interrupt
    /\ atRisk' = atRisk \cup {n \in Name : pc # "out" /\ GivenUp(n)}

Spec == Init /\ [][Next]_vars

-----------------------------------------------------------------------------
TypeOK ==
    /\ OutType
    /\ pc \in Places \cup {"out", "exit"}
    /\ uflag \in BOOLEAN /\ wanted \subseteq Name
    /\ pos \in 0..Len(tape) + 1 /\ size \in BOOLEAN
    /\ DOMAIN isl \subseteq File
    /\ \A f \in DOMAIN isl :
          isl[f].nlk \in 0..NLink[f] /\ isl[f].lnk \in Seq(Name) /\ isl[f].name \in Name \cup {None}
    /\ node \in File \cup {None} /\ todo \in Seq(Name) /\ own \in Name \cup {None}
    /\ pc # "out" => dir \in [Name \cup {Temp} -> 0..Len(ino)]
    /\ ofile.at \in {"null", "header", "link", "freed"} /\ ofile.name \in Name \cup {None}
    /\ tfile \in BOOLEAN /\ errcnt \in BOOLEAN /\ atRisk \subseteq Name

-----------------------------------------------------------------------------
(* Properties *)

Own == input # <<>>     \* the archive comes from cpio -o, and not from another implementation
Count(n) == Cardinality({i \in DOMAIN input : input[i] = n})
Sound(f) == \A n \in failed : FileOf[n] # f

\* What -o could read is in the archive once for each time it was listed, and the data of a
\* file with links comes with the last of them, so that no link waits in vain (outfile(), lflush()).
OnTape ==
    pc = "out" /\ OutDone /\ Own =>
        /\ \A n \in Name \ failed : Cardinality({i \in DOMAIN tape : tape[i].name = n}) = Count(n)
        /\ svr4 => \A i \in DOMAIN tape :
              LET f == FileOf[tape[i].name] IN
              f \notin Empty /\ Sound(f) =>
                  \E j \in DOMAIN tape : j >= i /\ FileOf[tape[j].name] = f /\ tape[j].data

\* The writer and the reader count alike: storelink() takes the links for all there are, and
\* gives up waiting for data, only where there is none to come.
DataAwaited == [][FlushEmpty /\ Own /\ failed = {} => FileOf[own'] \in Empty]_vars

\* When -i has no error to tell of, each name that the user wants is there with all of its
\* data, and is a link to the others of its file, unless the list had a name twice.
StatusTells ==
    pc = "exit" /\ sig = None /\ ~errcnt /\ failed = {} /\ Own =>
        \A i, j \in DOMAIN input :
           LET n == input[i]  m == input[j] IN
           {n, m} \subseteq wanted =>
              /\ Whole(n)
              /\ FileOf[n] = FileOf[m] /\ (\A l \in DOMAIN input : Count(input[l]) = 1) =>
                     dir[n] = dir[m]

\* Whatever fails and whenever SIGINT comes, a name is the file it was, unharmed, or has all
\* of its new data; where the archive ends early, the old file has the temporary name, and a
\* name that was not there may have less than its data only with an error (filein(), onint()).
\* GivenUp has the ways in which the code breaks this: links, a rename() back that fails,
\* SIGINT before or after its time, and a close() after mkstemp() that fails, when the empty
\* temporary file takes the place of the old one.
NothingLost ==
    pc = "exit" => \A n \in Name :
        \/ dir[n] = was[n] /\ (Exists(n) => ino[dir[n]].what = "old")
        \/ Whole(n)
        \/ sig = None /\ tfile /\ n = tgt /\ dir[Temp] # 0
        \/ was[n] = 0 /\ errcnt
        \/ n \in atRisk

\* No temporary file stays, unless SIGINT came before cur_tfile was set (at "skip", after a
\* failing close(), it never is) or when tunlink() had just unset it, or the archive ended in
\* the data of a file that there was.
NoTempLeft ==
    pc = "exit" /\ dir[Temp] # 0 =>
        sig \in {"skip", "ofile", "tfile", "unlink"} \/ (sig = None /\ size)

\* What flushnode() says: the data is written with the first link that the user wants, so
\* that no other is left without it.
LinkHasData ==
    pc = "exit" /\ sig = None /\ failed = {} /\ Own =>
        \A n \in wanted : Exists(n) /\ FileOf[n] \notin Empty => ino[dir[n]] # Made("empty", n)
=============================================================================
