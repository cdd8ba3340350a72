--------------------------------- MODULE Mv ---------------------------------
(***************************************************************************)
(* cp/cp.c as mv: operands are moved to a directory, those of its own file *)
(* system by rename(), the others by copying all of them and removing what *)
(* was copied.  Any call may fail, others add files to the source and take *)
(* files from it, and mv may be killed and started again.                  *)
(*                                                                         *)
(* A name in the source is a node of a forest; what is made of it has the  *)
(* same name in the target.                                                *)
(*                                                                         *)
(* Left out: modes and owners, devices and sockets, operands of the same   *)
(* name, a target that is the operand itself, and others at the target.    *)
(***************************************************************************)
EXTENDS Integers, Sequences

CONSTANTS
    Node,       \* names in the source
    Up,         \* the directory that a name is in; None for an operand
    Above,      \* the name itself, the directory it is in, and so on
    Kind,       \* "dir", "file" or "symlink"
    Ino,        \* what a name is a link to
    Operands,   \* a sequence of nodes
    Starts,     \* bound: what is there at first
    Bound,      \* bound: failing calls, steps of others, runs after the first
    None

ASSUME TreeAssumption ==
    /\ None \notin Node
    /\ Up \in [Node -> Node \cup {None}]
    /\ Above \in [Node -> SUBSET Node]
    /\ \A p \in Node :
          /\ Above[p] = {p} \cup (IF Up[p] = None THEN {} ELSE Above[Up[p]])
          /\ Up[p] # None => p \notin Above[Up[p]]
          /\ \A q \in Above[p] : Above[q] \subseteq Above[p]
          /\ \A q \in Above[p] \ {p} : \E c \in Above[p] : Up[c] = q
          /\ \A q, r \in Above[p] : q \in Above[r] \/ r \in Above[q]

ASSUME MvAssumption ==
    /\ Kind \in [Node -> {"dir", "file", "symlink"}]
    /\ \A p \in Node : Up[p] # None => Kind[Up[p]] = "dir"
    /\ \A p, q \in Node : Ino[p] = Ino[q] => p = q \/ (Kind[p] = Kind[q] /\ Kind[p] # "dir")
    /\ Operands \in Seq(Node) /\ Operands # <<>>
    /\ \A i \in 1..Len(Operands) : Up[Operands[i]] = None
    /\ \A S \in Starts : S \subseteq Node /\ \A p \in S : Above[p] \subseteq S
    /\ Bound \in [fail : Nat, other : Nat, run : Nat]

VARIABLES
    near,       \* the operands in the file system of the target; never changes
    pc,
    k,          \* the number of the operand
    cur,        \* what is being copied or removed
    dir, todo,  \* the directory that is being read, or None; for each, the names not read yet
    there,      \* the names in the source
    here,       \* the names in the target that mv has made: the name each was first linked to
    whole,      \* those of them with all their data
    old,        \* what was at the target of each operand: "none", "file", "empty", "full"
    slots,      \* canlink(): for an inode, the name in the target that was copied from it
    errcnt, saverrs,
    left,       \* bound: what is left of Bound
    excused,    \* history: what failed without a trace in errcnt; "joined": others linked a new
                \* name to a file that had been copied already
    yet, late, unread, taken    \* history: as in MoveStore

vars == <<near, pc, k, cur, dir, todo, there, here, whole, old, slots, errcnt, saverrs, left, excused,
          yet, late, unread, taken>>

given == <<near, k>>
reading == <<dir, todo>>
target == <<here, whole, old>>
source == <<there, yet, late, unread, taken>>
status == <<errcnt, saverrs, excused>>

top == Operands[k]
Roots == {Operands[i] : i \in 1..Len(Operands)}
Tree(r) == {p \in Node : r \in Above[p]}
Kids(d) == {p \in there : Up[p] = d}
Open == IF dir = None THEN {} ELSE Above[dir]

Fails == left.fail > 0 /\ left' = [left EXCEPT !.fail = @ - 1]

\* A call on a name that is not there, or that fails for another reason.
FailsOn(p) == (p \notin there /\ UNCHANGED left) \/ Fails

TypeOK ==
    /\ pc \in {"operand", "rename", "deltgt", "copy", "fill", "walk", "check", "remove", "prune",
               "done", "exit"}
    /\ k \in 1..Len(Operands) + 1
    /\ cur \in Node \cup {None}
    /\ dir \in Node \cup {None} /\ todo \in [Node -> SUBSET Node]
    /\ \A d \in Node : todo[d] # {} => d \in Open
    /\ there \subseteq Node /\ whole \subseteq DOMAIN here
    /\ DOMAIN here \subseteq Node /\ \A p \in DOMAIN here : here[p] \in Node
    /\ \A i \in DOMAIN slots : slots[i] \in Node
    /\ old \in [Roots -> {"none", "file", "empty", "full"}]
    /\ errcnt \in {0, 1} /\ saverrs \in {0, 1}
    /\ excused \subseteq {"refused", "rmdir", "link", "joined"}
    /\ yet \subseteq Node /\ late \subseteq Node /\ unread \subseteq Node /\ taken \subseteq Node

Init ==
    /\ near \in SUBSET Roots /\ there \in Starts
    /\ old \in [Roots -> {"none", "file", "empty", "full"}]
    /\ pc = "operand" /\ k = 1 /\ cur = None /\ dir = None /\ todo = [p \in Node |-> {}]
    /\ here = <<>> /\ whole = {} /\ slots = <<>>
    /\ errcnt = 0 /\ saverrs = 0 /\ left = Bound /\ excused = {}
    /\ yet = Node \ there /\ late = {} /\ unread = {} /\ taken = {}

\* What statfn() finds at the target of the operand.
Dst == IF top \notin DOMAIN here THEN old[top]
       ELSE IF Kind[top] # "dir" THEN "file"
       ELSE IF \E p \in DOMAIN here : Up[p] = top THEN "full" ELSE "empty"

Ext(f, x, y) == [z \in DOMAIN f \cup {x} |-> IF z = x THEN y ELSE f[z]]

-----------------------------------------------------------------------------
(* cpmv() at level 0: commoncheck() and tryrename() *)

Lstat ==
    /\ pc = "operand" /\ top \in there
    /\ pc' = "rename"
    /\ UNCHANGED <<given, cur, reading, source, target, slots, status, left>>

LstatFails ==
    /\ pc = "operand" /\ FailsOn(top)
    /\ pc' = "done" /\ errcnt' = 1
    /\ UNCHANGED <<given, cur, reading, source, target, slots, saverrs, excused>>

\* The user does not answer y: neither an error nor a move.
Refuse ==
    /\ pc = "rename" /\ Dst # "none"
    /\ pc' = "done" /\ excused' = excused \cup {"refused"}
    /\ UNCHANGED <<given, cur, reading, source, target, slots, errcnt, saverrs, left>>

\* A directory takes the place of a directory only, and of an empty one.
Agree == Dst = "none" \/ (Kind[top] = "dir") = (Dst \in {"empty", "full"})

Rename ==
    /\ pc = "rename" /\ top \in there \cap near
    /\ Agree /\ Dst # "full"
    /\ LET moved == Tree(top) \cap there
           link(p) == CHOOSE q \in Tree(top) : Ino[q] = Ino[p]
       IN /\ there' = there \ moved
          /\ whole' = whole \cup moved
          /\ here' = [p \in DOMAIN here \cup moved |-> IF p \in moved THEN link(p) ELSE here[p]]
    /\ old' = [old EXCEPT ![top] = "none"]
    /\ pc' = "done"
    /\ UNCHANGED <<given, cur, reading, yet, late, unread, taken, slots, status, left>>

\* With one of the other file system, this is what becomes of it when rename() gives EXDEV.
RenameFails ==
    /\ pc = "rename"
    /\ \/ FailsOn(top)
       \/ (~Agree \/ (top \in near /\ Dst = "full")) /\ UNCHANGED left
    /\ pc' = "done" /\ errcnt' = 1
    /\ UNCHANGED <<given, cur, reading, source, target, slots, saverrs, excused>>

\* trydelete(tgt, 0): what is at the target goes, before anything is copied.
MakeRoom ==
    /\ pc = "rename" /\ top \in there \ near
    /\ Agree /\ Dst # "full"
    /\ old' = [old EXCEPT ![top] = "none"]
    /\ here' = [p \in DOMAIN here \ {top} |-> here[p]] /\ whole' = whole \ {top}
    /\ pc' = "copy" /\ cur' = top
    /\ UNCHANGED <<given, reading, source, slots, status, left>>

\* The failure of rmdir() is not counted.
NoRoom ==
    /\ pc = "rename" /\ top \in there \ near
    /\ Agree /\ \/ Dst = "full" /\ UNCHANGED left
                \/ Dst = "empty" /\ Fails
    /\ pc' = "done" /\ excused' = excused \cup {"rmdir"}
    /\ UNCHANGED <<given, cur, reading, source, target, slots, errcnt, saverrs>>

-----------------------------------------------------------------------------
(* cpmv(): copying *)

Onward == IF dir = None THEN "check" ELSE "walk"

\* mkdir() and opendir().
CopyDir ==
    /\ pc = "copy" /\ cur \in there /\ Kind[cur] = "dir"
    /\ here' = Ext(here, cur, cur) /\ whole' = whole \cup {cur}
    /\ dir' = cur /\ todo' = [todo EXCEPT ![cur] = Kids(cur)]
    /\ pc' = "walk"
    /\ UNCHANGED <<given, cur, source, old, slots, status, left>>

\* st_nlink > 1
Linked == \E q \in there \ {cur} : Ino[q] = Ino[cur]

\* The inode was seen, and its copy can be linked to.
CanLink == Linked /\ Ino[cur] \in DOMAIN slots /\ slots[Ino[cur]] \in DOMAIN here

\* iput() is not called.
SlipRecorded == slots

Recorded == IF Linked /\ Ino[cur] \notin DOMAIN slots THEN Ext(slots, Ino[cur], cur) ELSE slots

CopyLink ==
    /\ pc = "copy" /\ cur \in there /\ Kind[cur] # "dir" /\ CanLink
    /\ LET first == slots[Ino[cur]]
       IN /\ here' = Ext(here, cur, here[first])
          /\ whole' = IF first \in whole THEN whole \cup {cur} ELSE whole \ {cur}
    /\ pc' = Onward
    /\ UNCHANGED <<given, cur, reading, source, old, slots, status, left>>

\* The first name of an inode; or link() fails, and there are two files.
Copied ==
    \/ ~CanLink /\ UNCHANGED <<excused, left>>
    \/ CanLink /\ Fails /\ excused' = excused \cup {"link"}

\* filecopy() creates the file and then fills it; symlink() does both.
CopyNew ==
    /\ pc = "copy" /\ cur \in there /\ Kind[cur] # "dir" /\ Copied
    /\ here' = Ext(here, cur, cur) /\ slots' = Recorded
    /\ IF Kind[cur] = "file" THEN pc' = "fill" /\ whole' = whole \ {cur}
                             ELSE pc' = Onward /\ whole' = whole \cup {cur}
    /\ UNCHANGED <<given, cur, reading, source, old, errcnt, saverrs>>

Fill ==
    /\ pc = "fill" /\ pc' = Onward
    /\ whole' = whole \cup {cur}
    /\ UNCHANGED <<given, cur, reading, source, here, old, slots, status, left>>

\* An error of write() is reported and forgotten.
SlipCounted == errcnt

Counted == 1

FillFails ==
    /\ pc = "fill" /\ Fails /\ pc' = Onward
    /\ errcnt' = Counted
    /\ UNCHANGED <<given, cur, reading, source, target, slots, saverrs, excused>>

\* lstat(), mkdir(), open(), creat() or symlink() fails; or opendir(), after mkdir(); the inode
\* may have been recorded.
CopyFails ==
    /\ pc = "copy" /\ FailsOn(cur) /\ pc' = Onward
    /\ errcnt' = 1
    /\ \/ UNCHANGED <<here, slots>>
       \/ cur \in there /\ Kind[cur] = "dir" /\ here' = Ext(here, cur, cur) /\ UNCHANGED slots
       \/ cur \in there /\ Kind[cur] # "dir" /\ slots' = Recorded /\ UNCHANGED here
    /\ UNCHANGED <<given, cur, reading, source, whole, old, saverrs, excused>>

\* The directory is read from its beginning again.
SlipRest(e) == todo[dir]

Rest(e) == todo[dir] \ {e}

\* readdir(), in cpmv() or trydelete(); the order of the names is the file system's.
Readdir ==
    /\ pc \in {"walk", "prune"} /\ pc' = IF pc = "walk" THEN "copy" ELSE "remove"
    /\ \E e \in todo[dir] : cur' = e /\ todo' = [todo EXCEPT ![dir] = Rest(e)]
    /\ UNCHANGED <<given, dir, source, target, slots, status, left>>

\* The end of one directory is taken for the end of all.
SlipParent == None

Parent == Up[dir]

\* No name is left; or readdir() fails, which passes for that.
AtEnd == \/ todo[dir] = {} /\ UNCHANGED left
         \/ todo[dir] # {} /\ Fails

Shut == todo' = [todo EXCEPT ![dir] = {}]

\* The names that readdir() has not given, with all below them, are not copied.
Closedir ==
    /\ pc = "walk" /\ AtEnd /\ Shut
    /\ unread' = unread \cup {p \in Node : Above[p] \cap todo[dir] # {}}
    /\ dir' = Parent /\ pc' = IF dir' = None THEN "check" ELSE "walk"
    /\ UNCHANGED <<given, cur, there, yet, late, taken, target, slots, status>>

-----------------------------------------------------------------------------
(* cpmv(): trydelete(src, 1) *)

\* Whatever has happened.
SlipMoving == TRUE

Moving == errcnt = 0

Check ==
    /\ pc = "check" /\ slots' = <<>>
    /\ IF Moving THEN pc' = "remove" /\ cur' = top ELSE pc' = "done" /\ UNCHANGED cur
    /\ UNCHANGED <<given, reading, source, target, status, left>>

Unlink ==
    /\ pc = "remove" /\ cur \in there /\ Kind[cur] # "dir"
    /\ there' = there \ {cur}
    /\ pc' = IF dir = None THEN "done" ELSE "prune"
    /\ UNCHANGED <<given, cur, reading, yet, late, unread, taken, target, slots, status, left>>

Opendir ==
    /\ pc = "remove" /\ cur \in there /\ Kind[cur] = "dir"
    /\ dir' = cur /\ todo' = [todo EXCEPT ![cur] = Kids(cur)]
    /\ pc' = "prune"
    /\ UNCHANGED <<given, cur, source, target, slots, status, left>>

Rmdir ==
    /\ pc = "prune" /\ AtEnd /\ Shut /\ Kids(dir) = {}
    /\ there' = there \ {dir}
    /\ dir' = Up[dir] /\ pc' = IF dir' = None THEN "done" ELSE "prune"
    /\ UNCHANGED <<given, cur, yet, late, unread, taken, target, slots, status>>

\* The first failure ends all the removal.
Stop == pc' = "done" /\ dir' = None /\ todo' = [p \in Node |-> {}]

RemoveFails ==
    /\ pc = "remove" /\ FailsOn(cur)
    /\ Stop /\ errcnt' = 1
    /\ UNCHANGED <<given, cur, source, target, slots, saverrs, excused>>

\* rmdir() fails, which is not counted: something has come since the directory was read, or
\* is left since readdir() failed, or for another reason.
RmdirFails ==
    /\ pc = "prune"
    /\ (todo[dir] = {} /\ Kids(dir) # {} /\ UNCHANGED left) \/ Fails
    /\ Stop /\ excused' = excused \cup {"rmdir"}
    /\ UNCHANGED <<given, cur, source, target, slots, errcnt, saverrs>>

-----------------------------------------------------------------------------
(* main() *)

\* The last operand's errors only.
SlipSummed == errcnt

Summed == IF errcnt = 1 THEN 1 ELSE saverrs

Done ==
    /\ pc = "done"
    /\ saverrs' = Summed /\ errcnt' = 0
    /\ k' = k + 1 /\ pc' = IF k = Len(Operands) THEN "exit" ELSE "operand"
    /\ UNCHANGED <<near, cur, reading, source, target, slots, excused, left>>

-----------------------------------------------------------------------------
(* The world *)

Kill ==
    /\ pc # "exit" /\ pc' = "exit" /\ saverrs' = 1 /\ errcnt' = 0
    /\ dir' = None /\ todo' = [p \in Node |-> {}] /\ slots' = <<>>
    /\ UNCHANGED <<given, cur, source, target, excused, left>>

Again ==
    /\ pc = "exit" /\ left.run > 0 /\ left' = [left EXCEPT !.run = @ - 1]
    /\ pc' = "operand" /\ k' = 1 /\ saverrs' = 0
    /\ excused' = excused \cap {"link", "joined"} /\ late' = late \ there
    /\ unread' = unread \ (there \cup yet)
    /\ UNCHANGED <<near, cur, reading, there, yet, taken, target, slots, errcnt>>

Other == left.other > 0 /\ left' = [left EXCEPT !.other = @ - 1]

\* A file comes to a directory.  One that is being read may give the new name or not; one that
\* has been read does not.
Come(p) ==
    /\ p \in yet /\ Up[p] \in there /\ Kind[p] # "dir" /\ Other
    /\ there' = there \cup {p} /\ yet' = yet \ {p}
    /\ \/ Up[p] \in Open
          /\ todo' = [todo EXCEPT ![Up[p]] = @ \cup {p}]
          /\ late' = IF pc = "prune" \/ pc = "remove" THEN late \cup {p} ELSE late
       \/ late' = (IF Up[p] \in DOMAIN here THEN late \cup {p} ELSE late)
          /\ UNCHANGED todo
    /\ excused' = IF \E q \in DOMAIN here : Ino[q] = Ino[p] THEN excused \cup {"joined"} ELSE excused
    /\ UNCHANGED <<given, pc, cur, dir, unread, taken, target, slots, errcnt, saverrs>>

Take(p) ==
    /\ p \in there /\ Kind[p] # "dir" /\ Other
    /\ there' = there \ {p} /\ taken' = taken \cup {p}
    /\ UNCHANGED <<given, pc, cur, reading, yet, late, unread, target, slots, status>>

-----------------------------------------------------------------------------

Program == \/ Lstat \/ LstatFails \/ Refuse \/ Rename \/ RenameFails \/ MakeRoom \/ NoRoom
           \/ CopyDir \/ CopyLink \/ CopyNew \/ Fill \/ FillFails \/ CopyFails
           \/ Readdir \/ Closedir
           \/ Check \/ Unlink \/ Opendir \/ Rmdir \/ RemoveFails \/ RmdirFails \/ Done

Next == Program \/ Kill \/ Again \/ \E p \in Node : Come(p) \/ Take(p)

\* mv waits for nobody but the user who is asked.
Fairness == WF_vars(Program)

Spec == Init /\ [][Next]_vars /\ Fairness

-----------------------------------------------------------------------------
(* Properties *)

\* Whatever call fails, whenever mv is killed and however often it is started again: what was
\* in the source is there, or whole in the target, or was taken by others, but for two kinds of
\* names that trydelete() removes and nobody copied: those that came to a directory that cpmv()
\* had read already, and those that a failing readdir() kept from cpmv(), against mv.1: "mv must
\* copy the file and delete the original".
DataSafe == Node \subseteq there \cup whole \cup yet \cup late \cup unread \cup taken

Store == INSTANCE MoveStore WITH Name <- Node, Trees <- {Tree(r) : r \in Roots}

\* Nothing of an operand is removed before all of it that readdir() gave has arrived in the
\* target (cpmv() with trydelete() keep to MoveStore).
ImplementsMove == Store!Spec

\* An exit status of 0 says that all operands were moved, unless the user refused or rmdir()
\* failed, which main() cannot know; nor can it know of names that a failing readdir() kept
\* from being copied: of these it says only that they are gone.
StatusTells ==
    pc = "exit" /\ saverrs = 0 /\ excused \cap {"refused", "rmdir"} = {} =>
        \A r \in Roots : Tree(r) \cap there = {} /\ Tree(r) \subseteq whole \cup late \cup unread \cup taken \cup yet

\* What was one file under two names within an operand is one file in the target after the
\* move, as long as link() works and nobody makes another name for a file that was copied
\* already; what were two are two (canlink()).
LinksKept ==
    \A r \in Roots : \A p, q \in Tree(r) \cap DOMAIN here :
        /\ here[p] = here[q] => Ino[p] = Ino[q]
        /\ Ino[p] = Ino[q] /\ excused \cap {"link", "joined"} = {} /\ {p, q} \cap (there \cup taken \cup late) = {}
           => here[p] = here[q]

\* mv comes to its end.
Ends == <>(pc = "exit")

=============================================================================
