------------------------------ MODULE MvProofs ------------------------------
(***************************************************************************)
(* Proofs about Mv: that it keeps to MoveStore, so that no failure, no     *)
(* signal and no other process makes it lose what it was given.            *)
(***************************************************************************)
EXTENDS Mv, TLAPS

Copying == {"copy", "fill", "walk", "check"}
Removing == {"remove", "prune"}

\* The name is still to be copied, alone or with a directory above it.
Pending(p) ==
    \/ pc \in {"copy", "fill"} /\ cur \in Above[p]
    \/ \E d \in Node : \E e \in todo[d] : e \in Above[p]

\* Where mv is in the tree of the operand.
PlaceInv ==
    /\ pc # "exit" => k \in 1..Len(Operands)
    /\ pc \in {"operand", "rename", "check", "done", "exit"} => dir = None
    /\ pc \in {"copy", "fill", "remove"} => cur \in Tree(top) /\ Up[cur] = dir
    /\ pc \in {"walk", "prune"} => dir \in Tree(top)
    /\ pc = "fill" => cur \in DOMAIN here /\ Kind[cur] = "file"
    /\ \A d \in Node : \A e \in todo[d] : Up[e] = d
    /\ pc \notin Copying => DOMAIN slots = {}

\* What others may have done meanwhile.
WorldInv ==
    /\ \A p \in there : Above[p] \subseteq there
    /\ \A p \in late : Kind[p] # "dir"
    /\ pc = "fill" => cur \in there \cup taken
    /\ \A p \in Node : Up[p] \in there \cap unread => p \in unread

\* As long as nothing failed that was counted, what is there was copied, is yet to be copied,
\* came too late or was not read.
CopyInv ==
    pc \in Copying /\ errcnt = 0 =>
        /\ \A p \in Tree(top) \cap there : p \in whole \cup late \cup unread \/ Pending(p)
        /\ \A i \in DOMAIN slots : slots[i] \in whole \/ (pc = "fill" /\ slots[i] = cur)

RemoveInv == pc \in Removing => Tree(top) \cap there \subseteq whole \cup late \cup unread

Inv == TypeOK /\ PlaceInv /\ WorldInv /\ CopyInv /\ RemoveInv

\* Nothing failed that the status does not tell.
Told == excused \cap {"refused", "rmdir"} = {}

\* As far as the status says so, the operands up to here are gone from the source.
StatusInv ==
    /\ saverrs = 0 /\ Told => \A i \in 1..(k - 1) : Operands[i] \notin there
    /\ pc = "done" /\ errcnt = 0 /\ Told => top \notin there
    /\ pc = "exit" /\ saverrs = 0 => k = Len(Operands) + 1

\* A name that has not come yet was neither seen nor made.
YetInv ==
    /\ yet \cap (there \cup taken \cup DOMAIN here) = {}
    /\ \A d \in Node : todo[d] \cap yet = {}
    /\ pc \in {"copy", "fill"} => cur \notin yet

\* What was made in the target is a link to the same inode as its source, in directories that
\* were made.
MadeInv ==
    /\ \A p \in DOMAIN here : Ino[here[p]] = Ino[p] /\ Above[p] \subseteq DOMAIN here
    /\ \A i \in DOMAIN slots : Ino[slots[i]] = i
    /\ pc \in Copying /\ dir # None => dir \in DOMAIN here

\* A name of the operand is copied once, and is not removed before all of them are.
OnceInv ==
    /\ pc = "copy" => cur \notin DOMAIN here /\ \A d \in Node : cur \notin todo[d]
    /\ pc \in Copying => /\ \A d \in Node : todo[d] \cap DOMAIN here = {}
                         /\ Tree(top) \cap DOMAIN here \subseteq there \cup taken

\* Nothing but mv could keep it from linking what was linked.
Blameless == excused \cap {"link", "joined"} = {}

Alone(p) == \A x \in there : Ino[x] = Ino[p] => x = p

\* While the operand is copied, a copy is the one that its slot names, or the only name.
SlotInv ==
    pc \in Copying /\ errcnt = 0 /\ Blameless =>
        \A p \in Tree(top) \cap DOMAIN here :
            \/ p \in taken \/ Alone(p)
            \/ Ino[p] \in DOMAIN slots /\ here[p] = here[slots[Ino[p]]]

\* Two names are one file in the target.
Paired(p, q) == Ino[p] = Ino[q] => here[p] = here[q]

\* While it is removed, all of its links are links again.
PairInv ==
    pc \in Removing /\ Blameless =>
        \A p, q \in (Tree(top) \cap DOMAIN here) \ taken : Paired(p, q)

Moved(p) == p \notin there \cup taken \cup late

\* So are those that mv has removed.
MovedInv ==
    Blameless => \A r \in Roots : \A p, q \in Tree(r) \cap DOMAIN here :
                    Moved(p) /\ Moved(q) => Paired(p, q)

LinkInv == YetInv /\ MadeInv /\ OnceInv /\ SlotInv /\ PairInv /\ MovedInv

-----------------------------------------------------------------------------
(* The forest *)

\* A name is in its own line, and below a directory there is a way to it.
LEMMA Line ==
    ASSUME NEW p \in Node
    PROVE  /\ p \in Above[p] /\ Above[p] \subseteq Node
           /\ \A q \in Above[p] : Above[q] \subseteq Above[p]
           /\ \A q \in Above[p] : q # p => \E c \in Above[p] : Up[c] = q
  BY TreeAssumption

\* The line of a name is the name and the line of its directory.
LEMMA Parents ==
    ASSUME NEW p \in Node, Up[p] # None
    PROVE  /\ Up[p] \in Node /\ Kind[Up[p]] = "dir"
           /\ Above[p] = {p} \cup Above[Up[p]] /\ p \notin Above[Up[p]]
  BY TreeAssumption, MvAssumption

\* An operand is in no directory.
LEMMA Tops ==
    ASSUME k \in 1..Len(Operands)
    PROVE  /\ top \in Node /\ top \in Roots /\ Up[top] = None
           /\ Above[top] = {top} /\ top \in Tree(top)
  <1>1. top \in Node /\ Up[top] = None
    BY MvAssumption DEF top
  <1>2. Above[top] = {top}
    BY <1>1, TreeAssumption
  <1> QED
    BY <1>1, <1>2 DEF Roots, Tree, top

\* A name in a directory is in the tree of an operand if the directory is.
LEMMA SameTree ==
    ASSUME k \in 1..Len(Operands), NEW p \in Node, Up[p] # None
    PROVE  p \in Tree(top) <=> Up[p] \in Tree(top)
  BY Tops, Parents DEF Tree

-----------------------------------------------------------------------------
(* Types *)

\* A directory is opened below the one that is open.
LEMMA Opened ==
    ASSUME TypeOK, NEW d \in Node, Up[d] = dir, NEW S \in SUBSET Node,
           dir' = d, todo' = [todo EXCEPT ![d] = S]
    PROVE  /\ dir' \in Node \cup {None} /\ todo' \in [Node -> SUBSET Node]
           /\ \A x \in Node : todo'[x] # {} => x \in Open'
  <1>1. d # None /\ d \in Above[d] /\ (dir # None => Above[dir] \subseteq Above[d])
    BY Line, Parents, TreeAssumption
  <1>2. Open \cup {d} \subseteq Open'
    BY <1>1 DEF Open
  <1> QED
    BY <1>2 DEF TypeOK

\* The open directory is closed, and the one that it is in is gone on with.
LEMMA Closed ==
    ASSUME TypeOK, dir \in Node, Shut, dir' = Up[dir]
    PROVE  /\ dir' \in Node \cup {None} /\ todo' \in [Node -> SUBSET Node]
           /\ \A x \in Node : todo'[x] # {} => x \in Open'
  <1>1. dir # None /\ Open = {dir} \cup Open'
    BY TreeAssumption DEF Open
  <1>2. Up[dir] \in Node \cup {None}
    BY TreeAssumption
  <1> QED
    BY <1>1, <1>2 DEF TypeOK, Shut

\* Every step keeps TypeOK.
LEMMA TypeStep == TypeOK /\ PlaceInv /\ Next => TypeOK'
  <1> SUFFICES ASSUME TypeOK, PlaceInv, Next PROVE TypeOK'
    OBVIOUS
  <1> USE DEF TypeOK, given, reading, source, target, status
  <1>0. Len(Operands) \in Nat /\ Len(Operands) # 0
    BY MvAssumption
  <1>t. pc # "exit" => k \in 1..Len(Operands) /\ top \in Node /\ top \in Roots
    BY Tops DEF PlaceInv
  <1>1. CASE Lstat \/ LstatFails
    BY <1>1 DEF Lstat, LstatFails, Open
  <1>2. CASE Refuse \/ RenameFails \/ NoRoom
    BY <1>2 DEF Refuse, RenameFails, NoRoom, Open
  <1>3. CASE Rename
    BY <1>3, <1>t DEF Rename, Open, Tree
  <1>4. CASE MakeRoom
    BY <1>4, <1>t DEF MakeRoom, Open
  <1>5. CASE CopyDir
    <2>1. cur \in Node /\ Up[cur] = dir /\ Kids(cur) \in SUBSET Node
      BY <1>5 DEF CopyDir, PlaceInv, Tree, Kids
    <2>2. dir' = cur /\ todo' = [todo EXCEPT ![cur] = Kids(cur)]
      BY <1>5 DEF CopyDir
    <2>3. /\ DOMAIN here' = DOMAIN here \cup {cur} /\ whole' = whole \cup {cur}
          /\ \A p \in DOMAIN here' : here'[p] \in Node
      BY <1>5, <2>1 DEF CopyDir, Ext
    <2> QED
      BY <1>5, <2>1, <2>2, <2>3, Opened DEF CopyDir
  <1>6. CASE CopyLink
    BY <1>6 DEF CopyLink, CanLink, Open, Ext, Onward
  <1>7. CASE CopyNew
    BY <1>7 DEF CopyNew, Copied, Recorded, Open, Ext, Onward
  <1>8. CASE Fill \/ FillFails
    BY <1>8 DEF Fill, FillFails, Counted, Open, Onward, PlaceInv
  <1>9. CASE CopyFails
    BY <1>9 DEF CopyFails, Recorded, Open, Ext, Onward
  <1>10. CASE Readdir
    <2>1. PICK e \in todo[dir] : cur' = e /\ todo' = [todo EXCEPT ![dir] = todo[dir] \ {e}]
      BY <1>10 DEF Readdir, Rest
    <2>2. dir \in Node /\ e \in Node
      BY <1>10, <2>1 DEF Readdir, PlaceInv, Tree
    <2>3. /\ todo' \in [Node -> SUBSET Node]
          /\ \A d \in Node : todo'[d] \subseteq todo[d]
      BY <2>1, <2>2
    <2>4. Open' = Open
      BY <1>10 DEF Readdir, Open
    <2> QED
      BY <1>10, <2>1, <2>2, <2>3, <2>4 DEF Readdir
  <1>11. CASE Closedir
    <2>1. dir \in Node
      BY <1>11 DEF Closedir, PlaceInv, Tree
    <2> QED
      BY <1>11, <2>1, Closed DEF Closedir, Parent, AtEnd, Fails, Shut
  <1>12. CASE Check \/ Unlink
    <2>1. CASE Check
      BY <2>1, <1>t DEF Check, Open
    <2>2. CASE Unlink
      BY <2>2 DEF Unlink, Open
    <2> QED
      BY <1>12, <2>1, <2>2
  <1>13. CASE Opendir
    <2>1. cur \in Node /\ Up[cur] = dir /\ Kids(cur) \in SUBSET Node
      BY <1>13 DEF Opendir, PlaceInv, Tree, Kids
    <2>2. dir' = cur /\ todo' = [todo EXCEPT ![cur] = Kids(cur)]
      BY <1>13 DEF Opendir
    <2> QED
      BY <1>13, <2>1, <2>2, Opened DEF Opendir
  <1>14. CASE Rmdir
    <2>1. dir \in Node
      BY <1>14 DEF Rmdir, PlaceInv, Tree
    <2> QED
      BY <1>14, <2>1, Closed DEF Rmdir, AtEnd, Fails, Shut
  <1>15. CASE RemoveFails \/ RmdirFails
    BY <1>15 DEF RemoveFails, RmdirFails, Stop, Open
  <1>16. CASE Done
    BY <1>16, <1>t, <1>0 DEF Done, Summed, Open
  <1>17. CASE Kill \/ Again
    BY <1>17, <1>0 DEF Kill, Again, Open, PlaceInv
  <1>18. ASSUME NEW p \in Node, Come(p) PROVE TypeOK'
    BY <1>18 DEF Come, Open
  <1>19. ASSUME NEW p \in Node, Take(p) PROVE TypeOK'
    BY <1>19 DEF Take, Open
  <1> QED
    BY <1>1, <1>2, <1>3, <1>4, <1>5, <1>6, <1>7, <1>8, <1>9, <1>10, <1>11, <1>12, <1>13, <1>14,
       <1>15, <1>16, <1>17, <1>18, <1>19 DEF Next, Program

-----------------------------------------------------------------------------
(* The place *)

\* In the tree of an operand, with a directory above it, the walk goes on; else it was all.
LEMMA OnwardPlace ==
    ASSUME PlaceInv, pc \in {"copy", "fill", "remove"}
    PROVE  IF dir = None THEN cur = top ELSE dir \in Tree(top)
  <1>1. k \in 1..Len(Operands) /\ cur \in Tree(top) /\ Up[cur] = dir /\ cur \in Node
    BY DEF PlaceInv, Tree
  <1>2. CASE dir # None
    BY <1>1, <1>2, SameTree
  <1>3. CASE dir = None
    BY <1>1, <1>3, TreeAssumption DEF Tree
  <1> QED
    BY <1>2, <1>3

\* The same when a directory is closed.
LEMMA ParentPlace ==
    ASSUME PlaceInv, pc \in {"walk", "prune"}, Up[dir] # None
    PROVE  Up[dir] \in Tree(top)
  BY SameTree DEF PlaceInv, Tree

\* Every step keeps PlaceInv.
LEMMA PlaceStep == TypeOK /\ PlaceInv /\ Next => PlaceInv'
  <1> SUFFICES ASSUME TypeOK, PlaceInv, Next PROVE PlaceInv'
    OBVIOUS
  <1> USE DEF PlaceInv, given, reading, source, target, status, Copying, top, Tree
  <1>0. Len(Operands) \in Nat /\ Len(Operands) # 0
    BY MvAssumption
  <1>t. pc # "exit" => top \in Node /\ Up[top] = None /\ top \in Tree(top)
    BY Tops
  <1>1. CASE Lstat \/ LstatFails \/ Refuse \/ RenameFails \/ NoRoom \/ Rename
    BY <1>1 DEF Lstat, LstatFails, Refuse, RenameFails, NoRoom, Rename
  <1>2. CASE MakeRoom
    BY <1>2, <1>t DEF MakeRoom
  <1>3. CASE CopyDir \/ Opendir
    <2>1. cur \in Tree(top) /\ dir' = cur /\ todo' = [todo EXCEPT ![cur] = Kids(cur)]
      BY <1>3 DEF CopyDir, Opendir
    <2>2. \A d \in Node : \A e \in todo'[d] : Up[e] = d
      BY <2>1 DEF TypeOK, Kids
    <2> QED
      BY <1>3, <2>1, <2>2 DEF CopyDir, Opendir
  <1>4. CASE CopyLink \/ Fill \/ FillFails
    BY <1>4, OnwardPlace DEF CopyLink, Fill, FillFails, Onward
  <1>5. CASE CopyNew
    <2>1. cur \in DOMAIN here' /\ cur' = cur /\ dir' = dir /\ todo' = todo /\ k' = k
      BY <1>5 DEF CopyNew, Ext
    <2> QED
      BY <1>5, <2>1, OnwardPlace DEF CopyNew, Onward
  <1>6. CASE CopyFails
    BY <1>6, OnwardPlace DEF CopyFails, Onward
  <1>7. CASE Readdir
    <2>1. PICK e \in todo[dir] : cur' = e /\ todo' = [todo EXCEPT ![dir] = todo[dir] \ {e}]
      BY <1>7 DEF Readdir, Rest
    <2>2. dir \in Node /\ e \in Node /\ Up[e] = dir /\ dir # None
      BY <1>7, <2>1, TreeAssumption DEF Readdir, TypeOK
    <2>3. e \in Tree(top)
      BY <1>7, <2>2, SameTree DEF Readdir
    <2>4. \A d \in Node : \A x \in todo'[d] : Up[x] = d
      BY <2>1, <2>2 DEF TypeOK
    <2> QED
      BY <1>7, <2>1, <2>2, <2>3, <2>4 DEF Readdir
  <1>8. CASE Closedir \/ Rmdir
    <2>1. \A d \in Node : todo'[d] \subseteq todo[d]
      BY <1>8 DEF Closedir, Rmdir, Shut, TypeOK
    <2> QED
      BY <1>8, <2>1, ParentPlace DEF Closedir, Parent, Rmdir
  <1>9. CASE Check
    BY <1>9, <1>t DEF Check
  <1>10. CASE Unlink
    BY <1>10, OnwardPlace DEF Unlink
  <1>11. CASE RemoveFails \/ RmdirFails
    BY <1>11 DEF RemoveFails, RmdirFails, Stop
  <1>12. CASE Done
    BY <1>12, <1>0 DEF Done
  <1>13. CASE Kill \/ Again
    BY <1>13, <1>0 DEF Kill, Again
  <1>14. ASSUME NEW p \in Node, Come(p) PROVE PlaceInv'
    <2>1. \A d \in Node : \A e \in todo'[d] : Up[e] = d
      BY <1>14 DEF Come, TypeOK
    <2> QED
      BY <1>14, <2>1 DEF Come
  <1>15. ASSUME NEW p \in Node, Take(p) PROVE PlaceInv'
    BY <1>15 DEF Take
  <1> QED
    BY <1>1, <1>2, <1>3, <1>4, <1>5, <1>6, <1>7, <1>8, <1>9, <1>10, <1>11, <1>12, <1>13, <1>14,
       <1>15 DEF Next, Program

-----------------------------------------------------------------------------
(* The world *)

\* Without a name that nothing is in, there is still a directory for every name.
LEMMA Pruned ==
    ASSUME NEW S \in SUBSET Node, NEW x \in Node, \A p \in S : Above[p] \subseteq S,
           \A c \in S : Up[c] # x
    PROVE  \A p \in S \ {x} : Above[p] \subseteq S \ {x}
  <1> SUFFICES ASSUME NEW p \in S, p # x, x \in Above[p] PROVE FALSE
    OBVIOUS
  <1> QED
    BY Line

\* Nothing is in a file.
LEMMA FileLeaf ==
    ASSUME TypeOK, NEW x \in Node, Kind[x] # "dir" PROVE \A c \in there : Up[c] # x
  BY Parents, TreeAssumption DEF TypeOK

\* Every step keeps WorldInv.
LEMMA WorldStep == TypeOK /\ PlaceInv /\ WorldInv /\ Next => WorldInv'
  <1> SUFFICES ASSUME TypeOK, PlaceInv, WorldInv, Next PROVE WorldInv'
    OBVIOUS
  <1> USE DEF WorldInv, given, reading, source, target, status
  <1>1. CASE Lstat \/ LstatFails \/ Refuse \/ RenameFails \/ NoRoom \/ MakeRoom
    BY <1>1 DEF Lstat, LstatFails, Refuse, RenameFails, NoRoom, MakeRoom
  <1>2. CASE Rename
    <2>1. there' = there \ Tree(top) /\ late' = late /\ unread' = unread /\ pc' = "done"
      BY <1>2 DEF Rename
    <2>2. ASSUME NEW p \in there', NEW q \in Above[p] PROVE q \in there'
      <3>1. p \in Node /\ q \in there /\ q \in Node /\ Above[q] \subseteq Above[p]
        BY <2>1, <2>2, Line DEF TypeOK
      <3> QED
        BY <2>1, <3>1 DEF Tree
    <2> QED
      BY <2>1, <2>2
  <1>3. CASE CopyDir \/ CopyLink \/ CopyNew \/ Fill \/ FillFails \/ CopyFails \/ Readdir
             \/ Check \/ Opendir
    BY <1>3 DEF CopyDir, CopyLink, CopyNew, Fill, FillFails, CopyFails, Readdir, Check,
                Opendir, Onward
  <1>4. CASE Unlink
    <2>1. cur \in Node /\ Kind[cur] # "dir" /\ there' = there \ {cur} /\ late' = late
          /\ unread' = unread
      BY <1>4 DEF Unlink, TypeOK
    <2>2. \A p \in there' : Above[p] \subseteq there'
      BY <2>1, FileLeaf, Pruned DEF TypeOK
    <2> QED
      BY <1>4, <2>1, <2>2 DEF Unlink
  <1>5. CASE Rmdir
    <2>1. dir \in Node /\ Kids(dir) = {} /\ there' = there \ {dir} /\ late' = late
          /\ unread' = unread
      BY <1>5 DEF Rmdir, PlaceInv, Tree
    <2>2. \A p \in there' : Above[p] \subseteq there'
      BY <2>1, Pruned DEF Kids, TypeOK
    <2> QED
      BY <1>5, <2>1, <2>2 DEF Rmdir
  <1>6. CASE RemoveFails \/ RmdirFails \/ Done \/ Kill \/ Again
    BY <1>6 DEF RemoveFails, RmdirFails, Stop, Done, Kill, Again
  <1>7. ASSUME NEW p \in Node, Come(p) PROVE WorldInv'
    <2>1. /\ Up[p] \in there /\ Up[p] # None /\ Kind[p] # "dir"
          /\ there' = there \cup {p} /\ late' \in {late, late \cup {p}}
          /\ taken' = taken /\ unread' = unread /\ pc' = pc /\ cur' = cur
      BY <1>7, TreeAssumption DEF Come, TypeOK
    <2>2. Above[p] \subseteq there'
      BY <2>1, Parents
    <2>3. \A q \in Node : Up[q] # p
      BY <2>1, MvAssumption, TreeAssumption
    <2> QED
      BY <2>1, <2>2, <2>3
  <1>8. ASSUME NEW p \in Node, Take(p) PROVE WorldInv'
    <2>1. /\ p \in there /\ Kind[p] # "dir" /\ there' = there \ {p} /\ taken' = taken \cup {p}
          /\ late' = late /\ unread' = unread /\ pc' = pc /\ cur' = cur
      BY <1>8 DEF Take
    <2>2. \A q \in there' : Above[q] \subseteq there'
      BY <2>1, FileLeaf, Pruned DEF TypeOK
    <2> QED
      BY <2>1, <2>2
  <1>9. CASE Closedir
    <2>1. /\ there' = there /\ late' = late /\ taken' = taken /\ cur' = cur /\ pc' # "fill"
          /\ unread' = unread \cup {p \in Node : Above[p] \cap todo[dir] # {}}
      BY <1>9 DEF Closedir
    <2>2. ASSUME NEW p \in Node, Up[p] \in there' \cap unread' PROVE p \in unread'
      <3>1. Up[p] # None /\ Above[Up[p]] \subseteq Above[p]
        BY <2>1, <2>2, Parents, TreeAssumption DEF TypeOK
      <3> QED
        BY <2>1, <2>2, <3>1
    <2> QED
      BY <2>1, <2>2
  <1> QED
    BY <1>1, <1>2, <1>3, <1>4, <1>5, <1>6, <1>7, <1>8, <1>9 DEF Next, Program

-----------------------------------------------------------------------------
(* The copy *)

\* Nothing else was waiting for a name that is no directory.
LEMMA Leaf ==
    ASSUME NEW p \in Node, NEW x \in Above[p], Kind[x] # "dir" PROVE p = x
  BY Line, Parents, TreeAssumption

\* Every step keeps CopyInv.
LEMMA CopyStep == TypeOK /\ PlaceInv /\ WorldInv /\ CopyInv /\ Next => CopyInv'
  <1> SUFFICES ASSUME TypeOK, PlaceInv, WorldInv, CopyInv, Next, pc' \in Copying, errcnt' = 0
               PROVE  /\ \A p \in Tree(top)' \cap there' : p \in whole' \cup late' \cup unread' \/ Pending(p)'
                      /\ \A i \in DOMAIN slots' :
                            slots'[i] \in whole' \/ (pc' = "fill" /\ slots'[i] = cur')
    BY DEF CopyInv
  <1> USE DEF given, reading, source, target, status
  <1>t. pc \in Copying => /\ k \in 1..Len(Operands)
                          /\ pc # "check" /\ pc # "walk" => cur \in Node /\ Up[cur] = dir
    BY DEF PlaceInv, Copying, Tree
  <1>1. CASE MakeRoom
    <2>1. pc' = "copy" /\ cur' = top /\ slots' = slots /\ k' = k /\ DOMAIN slots = {}
      BY <1>1 DEF MakeRoom, PlaceInv, Copying
    <2>2. top' = top
      BY <2>1 DEF top
    <2> QED
      BY <2>1, <2>2 DEF Tree, Pending
  <1>2. CASE CopyDir
    <2>1. /\ pc = "copy" /\ errcnt = 0 /\ k' = k /\ there' = there /\ late' = late
          /\ unread' = unread /\ slots' = slots
          /\ whole' = whole \cup {cur} /\ todo' = [todo EXCEPT ![cur] = Kids(cur)]
      BY <1>2 DEF CopyDir
    <2>2. todo[cur] = {}
      BY <2>1, <1>t, Parents DEF TypeOK, Open, Copying
    <2>3. ASSUME NEW p \in Tree(top) \cap there PROVE p \in whole' \cup late' \cup unread' \/ Pending(p)'
      <3>1. p \in Node /\ (p \in whole \cup late \cup unread \/ Pending(p))
        BY <2>1 DEF CopyInv, Copying, Tree
      <3>2. CASE cur \in Above[p] /\ p # cur
        <4>1. PICK c \in Above[p] : Up[c] = cur
          BY <3>1, <3>2, Line
        <4>2. c \in Kids(cur)
          BY <4>1 DEF WorldInv, Kids
        <4>3. todo'[cur] = Kids(cur)
          BY <2>1, <1>t DEF TypeOK, Copying
        <4> QED
          BY <4>1, <4>2, <4>3, <2>1, <1>t DEF Pending, Copying
      <3>3. CASE \E d \in Node : \E e \in todo[d] : e \in Above[p]
        <4>0. PICK d \in Node : \E e \in todo[d] : e \in Above[p]
          BY <3>3
        <4>1. PICK e \in todo[d] : e \in Above[p]
          BY <4>0
        <4>2. e \in todo'[d]
          BY <2>1, <2>2, <4>1 DEF TypeOK
        <4> QED
          BY <4>1, <4>2 DEF Pending
      <3> QED
        BY <2>1, <3>1, <3>2, <3>3 DEF Pending
    <2>4. top' = top
      BY <2>1 DEF top
    <2>5. \A i \in DOMAIN slots' : slots'[i] \in whole'
      BY <2>1 DEF CopyInv, Copying
    <2> QED
      BY <2>1, <2>3, <2>4, <2>5 DEF Tree
  <1>3. CASE CopyLink \/ Fill \/ (CopyNew /\ Kind[cur] # "file")
    <2>1. /\ pc \in {"copy", "fill"} /\ errcnt = 0 /\ k' = k /\ there' = there /\ late' = late
          /\ unread' = unread
          /\ todo' = todo /\ cur' = cur /\ Kind[cur] # "dir" /\ pc' # "fill"
      BY <1>3 DEF CopyLink, Fill, CopyNew, Copied, Onward, PlaceInv
    <2>2. whole' = whole \cup {cur}
      BY <1>3, <2>1 DEF CopyLink, CanLink, Fill, CopyNew, CopyInv, Copying
    <2>3. \A i \in DOMAIN slots' : slots'[i] \in whole'
      <3>1. \A i \in DOMAIN slots : slots[i] \in whole \cup {cur}
        BY <2>1 DEF CopyInv, Copying
      <3>2. CASE CopyNew
        BY <2>2, <3>1, <3>2 DEF CopyNew, Recorded, Ext
      <3>3. CASE CopyLink \/ Fill
        BY <2>2, <3>1, <3>3 DEF CopyLink, Fill
      <3> QED
        BY <1>3, <3>2, <3>3
    <2>4. top' = top
      BY <2>1 DEF top
    <2>5. ASSUME NEW p \in Tree(top) \cap there PROVE p \in whole' \cup late' \cup unread' \/ Pending(p)'
      <3>1. p \in Node /\ (p \in whole \cup late \cup unread \/ Pending(p))
        BY <2>1 DEF CopyInv, Copying, Tree
      <3>2. cur \in Above[p] => p = cur
        BY <2>1, <3>1, Leaf
      <3> QED
        BY <2>1, <2>2, <3>1, <3>2 DEF Pending
    <2> QED
      BY <2>1, <2>3, <2>4, <2>5 DEF Tree
  <1>4. CASE CopyNew /\ Kind[cur] = "file"
    <2>1. /\ pc = "copy" /\ pc' = "fill" /\ errcnt = 0 /\ k' = k /\ there' = there /\ late' = late
          /\ unread' = unread
          /\ todo' = todo /\ cur' = cur /\ slots' = Recorded /\ whole' = whole \ {cur}
      BY <1>4 DEF CopyNew, Copied
    <2>2. \A i \in DOMAIN slots' : slots'[i] \in whole' \/ slots'[i] = cur
      BY <2>1 DEF CopyInv, Copying, Recorded, Ext
    <2>3. top' = top
      BY <2>1 DEF top
    <2>4. ASSUME NEW p \in Tree(top) \cap there PROVE p \in whole' \cup late' \cup unread' \/ Pending(p)'
      <3>1. p \in Node /\ p \in Above[p] /\ (p \in whole \cup late \cup unread \/ Pending(p))
        BY <2>1, Line DEF CopyInv, Copying, Tree
      <3> QED
        BY <2>1, <3>1 DEF Pending
    <2> QED
      BY <2>1, <2>2, <2>3, <2>4 DEF Tree
  <1>5. CASE Readdir
    <2>1. PICK e \in todo[dir] : cur' = e /\ todo' = [todo EXCEPT ![dir] = todo[dir] \ {e}]
      BY <1>5 DEF Readdir, Rest
    <2>2. /\ pc = "walk" /\ pc' = "copy" /\ errcnt = 0 /\ k' = k /\ there' = there /\ late' = late
          /\ unread' = unread
          /\ slots' = slots /\ whole' = whole
      BY <1>5 DEF Readdir, Copying
    <2>3. ASSUME NEW p \in Tree(top) \cap there PROVE p \in whole' \cup late' \cup unread' \/ Pending(p)'
      <3>1. p \in whole \cup late \cup unread \/ Pending(p)
        BY <2>2 DEF CopyInv, Copying
      <3>2. CASE Pending(p)
        <4>0. PICK d \in Node : \E x \in todo[d] : x \in Above[p]
          BY <2>2, <3>2 DEF Pending
        <4>1. PICK x \in todo[d] : x \in Above[p]
          BY <4>0
        <4>2. x = e \/ x \in todo'[d]
          BY <2>1, <4>1 DEF TypeOK
        <4> QED
          BY <2>1, <2>2, <4>1, <4>2 DEF Pending
      <3> QED
        BY <2>2, <3>1, <3>2
    <2>4. top' = top
      BY <2>2 DEF top
    <2> QED
      BY <2>2, <2>3, <2>4 DEF Tree, CopyInv, Copying
  <1>6. CASE Closedir
    <2>1. /\ pc = "walk" /\ errcnt = 0 /\ k' = k /\ there' = there /\ late' = late
          /\ slots' = slots /\ whole' = whole /\ pc' \notin {"copy", "fill"}
          /\ todo' = [todo EXCEPT ![dir] = {}]
          /\ unread' = unread \cup {p \in Node : Above[p] \cap todo[dir] # {}}
      BY <1>6 DEF Closedir, Shut
    <2>2. ASSUME NEW p \in Tree(top) \cap there PROVE p \in whole' \cup late' \cup unread' \/ Pending(p)'
      <3>1. p \in Node /\ (p \in whole \cup late \cup unread \/ Pending(p))
        BY <2>1 DEF CopyInv, Copying, Tree
      <3>2. CASE Pending(p)
        <4>1. PICK d \in Node : \E x \in todo[d] : x \in Above[p]
          BY <2>1, <3>2 DEF Pending
        <4>2. d = dir \/ todo'[d] = todo[d]
          BY <2>1, <4>1 DEF TypeOK
        <4> QED
          BY <2>1, <3>1, <4>1, <4>2 DEF Pending
      <3> QED
        BY <2>1, <3>1, <3>2
    <2>3. top' = top
      BY <2>1 DEF top
    <2> QED
      BY <2>1, <2>2, <2>3 DEF Tree, CopyInv, Copying
  <1>7. ASSUME NEW n \in Node, Come(n)
        PROVE  /\ \A p \in Tree(top)' \cap there' : p \in whole' \cup late' \cup unread' \/ Pending(p)'
               /\ \A i \in DOMAIN slots' : slots'[i] \in whole' \/ (pc' = "fill" /\ slots'[i] = cur')
    <2>1. /\ pc' = pc /\ cur' = cur /\ errcnt = 0 /\ k' = k /\ slots' = slots /\ whole' = whole
          /\ there' = there \cup {n} /\ late \subseteq late' /\ late' \subseteq late \cup {n}
          /\ unread' = unread
          /\ Up[n] \in there /\ Up[n] # None /\ Kind[n] # "dir"
      BY <1>7, TreeAssumption DEF Come, TypeOK
    <2>2. \A d \in Node : todo[d] \subseteq todo'[d]
      BY <1>7 DEF Come, TypeOK
    <2>3. \A p \in Node : Pending(p) => Pending(p)'
      BY <2>1, <2>2 DEF Pending
    <2>4. top' = top
      BY <2>1 DEF top
    <2>5. ASSUME n \in Tree(top), n \notin late', n \notin unread PROVE n \in whole' \/ Pending(n)'
      <3>1. n \in Above[n]
        BY Line
      <3>2. CASE n \in todo'[Up[n]]
        BY <2>1, <3>1, <3>2, Parents DEF Pending
      <3>3. CASE Up[n] \notin DOMAIN here
        <4>1. Up[n] \in Tree(top) \cap there
          BY <1>t, <2>1, <2>5, SameTree
        <4>2. /\ Up[n] \notin late /\ Up[n] \notin unread /\ Up[n] \notin whole
              /\ Up[n] \in Node
          BY <2>1, <2>5, <3>3, Parents DEF WorldInv, TypeOK
        <4>3. Pending(Up[n])
          BY <2>1, <4>1, <4>2 DEF CopyInv
        <4>4. Pending(n)
          BY <4>3, <2>1, Parents DEF Pending
        <4> QED
          BY <2>3, <4>4
      <3> QED
        BY <1>7, <2>5, <3>2, <3>3 DEF Come, TypeOK
    <2>6. \A p \in Tree(top) \cap there : p \in whole \cup late \cup unread \/ Pending(p)
      BY <2>1 DEF CopyInv
    <2> QED
      BY <2>1, <2>3, <2>4, <2>5, <2>6 DEF Tree, CopyInv
  <1>8. ASSUME NEW n \in Node, Take(n)
        PROVE  /\ \A p \in Tree(top)' \cap there' : p \in whole' \cup late' \cup unread' \/ Pending(p)'
               /\ \A i \in DOMAIN slots' : slots'[i] \in whole' \/ (pc' = "fill" /\ slots'[i] = cur')
    BY <1>8 DEF Take, CopyInv, Pending, Tree, top
  <1>9. CASE FillFails \/ CopyFails
    BY <1>9 DEF FillFails, Counted, CopyFails
  <1>10. CASE Lstat \/ LstatFails \/ Refuse \/ Rename \/ RenameFails \/ NoRoom \/ Check \/ Unlink
             \/ Opendir \/ Rmdir \/ RemoveFails \/ RmdirFails \/ Done \/ Kill \/ Again
    BY <1>10 DEF Lstat, LstatFails, Refuse, Rename, RenameFails, NoRoom, Check, Unlink, Opendir,
                 Rmdir, RemoveFails, RmdirFails, Stop, Done, Kill, Again, Copying
  <1> QED
    BY <1>1, <1>2, <1>3, <1>4, <1>5, <1>6, <1>7, <1>8, <1>9, <1>10 DEF Next, Program

-----------------------------------------------------------------------------
(* The removal *)

\* Every step keeps RemoveInv.
LEMMA RemoveStep == Inv /\ Next => RemoveInv'
  <1> SUFFICES ASSUME Inv, Next, pc' \in Removing
               PROVE  Tree(top)' \cap there' \subseteq whole' \cup late' \cup unread'
    BY DEF RemoveInv
  <1> USE DEF Inv, given, reading, source, target, status
  <1>1. CASE Check
    <2>1. pc = "check" /\ errcnt = 0 /\ dir = None /\ k' = k
      BY <1>1 DEF Check, Moving, PlaceInv, Removing
    <2>2. \A d \in Node : todo[d] = {}
      BY <2>1 DEF TypeOK, Open
    <2>3. \A p \in Tree(top) \cap there : p \in whole \cup late \cup unread
      BY <2>1, <2>2 DEF CopyInv, Copying, Pending
    <2> QED
      BY <1>1, <2>1, <2>3 DEF Check, Tree, top
  <1>2. CASE Unlink \/ Opendir \/ Rmdir \/ Readdir
    BY <1>2 DEF Unlink, Opendir, Rmdir, Readdir, RemoveInv, Removing, Tree, top
  <1>3. ASSUME NEW n \in Node, Come(n) PROVE Tree(top)' \cap there' \subseteq whole' \cup late' \cup unread'
    <2>1. /\ pc' = pc /\ k' = k /\ whole' = whole /\ there' = there \cup {n}
          /\ late \subseteq late' /\ unread' = unread
          /\ Up[n] \in there /\ Up[n] # None /\ k \in 1..Len(Operands)
      BY <1>3, TreeAssumption DEF Come, TypeOK, PlaceInv, Removing
    <2>2. ASSUME n \in Tree(top) PROVE n \in late' \cup unread'
      <3>1. Up[n] \in Tree(top) \cap there
        BY <2>1, <2>2, SameTree
      <3>2. Up[n] \in whole \/ n \in unread
        BY <2>1, <3>1, Parents DEF RemoveInv, WorldInv
      <3> QED
        BY <1>3, <3>2 DEF Come, Removing, TypeOK
    <2> QED
      BY <2>1, <2>2 DEF RemoveInv, Tree, top
  <1>4. ASSUME NEW n \in Node, Take(n) PROVE Tree(top)' \cap there' \subseteq whole' \cup late' \cup unread'
    BY <1>4 DEF Take, RemoveInv, Tree, top
  <1>5. CASE Lstat \/ LstatFails \/ Refuse \/ Rename \/ RenameFails \/ MakeRoom \/ NoRoom \/ CopyDir
             \/ CopyLink \/ CopyNew \/ Fill \/ FillFails \/ CopyFails \/ Closedir \/ RemoveFails
             \/ RmdirFails \/ Done \/ Kill \/ Again
    BY <1>5 DEF Lstat, LstatFails, Refuse, Rename, RenameFails, MakeRoom, NoRoom, CopyDir, CopyLink,
                CopyNew, Fill, FillFails, CopyFails, Closedir, RemoveFails, RmdirFails, Stop, Done,
                Kill, Again, Onward, Removing
  <1> QED
    BY <1>1, <1>2, <1>3, <1>4, <1>5 DEF Next, Program

-----------------------------------------------------------------------------
(* The store *)

\* Every step is one of MoveStore, or leaves the data alone.
LEMMA StoreStep == Inv /\ Next => Store!Next \/ UNCHANGED Store!store
  <1> SUFFICES ASSUME Inv, Next PROVE Store!Next \/ UNCHANGED Store!store
    OBVIOUS
  <1> USE DEF Inv, given, reading, source, target, status, Store!store
  <1>t. pc # "exit" => top \in Node /\ Tree(top) \in {Tree(r) : r \in Roots}
    BY Tops DEF PlaceInv
  <1>1. CASE Rename
    <2>1. Store!Rename(Tree(top))
      BY <1>1 DEF Rename, Store!Rename
    <2> QED
      BY <1>1, <1>t, <2>1 DEF Rename, Store!Next
  <1>2. CASE MakeRoom
    <2>1. Store!Discard(top)
      BY <1>2 DEF MakeRoom, Store!Discard
    <2> QED
      BY <1>2, <1>t, <2>1 DEF MakeRoom, Store!Next
  <1>3. CASE CopyDir \/ CopyLink \/ CopyNew \/ Fill
    <2>1. cur \in Node /\ cur \in there \cup taken
      BY <1>3 DEF CopyDir, CopyLink, CopyNew, Fill, PlaceInv, WorldInv, Tree
    <2>2. Store!Arrive(cur) \/ Store!Discard(cur)
      BY <1>3, <2>1 DEF CopyDir, CopyLink, CopyNew, Fill, Store!Arrive, Store!Discard
    <2> QED
      BY <2>1, <2>2 DEF Store!Next
  <1>4. CASE Unlink
    <2>1. cur \in Node /\ cur \in Tree(top)
      BY <1>4 DEF Unlink, PlaceInv, Tree
    <2>2. Store!Remove(Tree(top), cur)
      BY <1>4, <2>1 DEF Unlink, RemoveInv, Removing, Store!Remove
    <2> QED
      BY <1>4, <1>t, <2>1, <2>2 DEF Unlink, Store!Next
  <1>5. CASE Rmdir
    <2>1. dir \in Node /\ dir \in Tree(top)
      BY <1>5 DEF Rmdir, PlaceInv, Tree
    <2>2. Store!Remove(Tree(top), dir)
      BY <1>5, <2>1 DEF Rmdir, RemoveInv, Removing, Store!Remove
    <2> QED
      BY <1>5, <1>t, <2>1, <2>2 DEF Rmdir, Store!Next
  <1>6. CASE Again
    <2>1. Store!Again
      BY <1>6 DEF Again, Store!Again
    <2> QED
      BY <2>1 DEF Store!Next
  <1>7. ASSUME NEW n \in Node, Come(n) PROVE Store!Next
    <2>1. Store!Come(n)
      BY <1>7 DEF Come, Store!Come
    <2> QED
      BY <2>1 DEF Store!Next
  <1>8. ASSUME NEW n \in Node, Take(n) PROVE Store!Next
    <2>1. Store!Taken(n)
      BY <1>8 DEF Take, Store!Taken
    <2> QED
      BY <2>1 DEF Store!Next
  <1>9. CASE Lstat \/ LstatFails \/ Refuse \/ RenameFails \/ NoRoom \/ FillFails \/ CopyFails
             \/ Readdir \/ Check \/ Opendir \/ RemoveFails \/ RmdirFails \/ Done \/ Kill
    BY <1>9 DEF Lstat, LstatFails, Refuse, RenameFails, NoRoom, FillFails, CopyFails, Readdir,
                Check, Opendir, RemoveFails, RmdirFails, Done, Kill
  <1>10. CASE Closedir
    <2>1. Store!Miss
      BY <1>10 DEF Closedir, Store!Miss, TypeOK
    <2> QED
      BY <2>1 DEF Store!Next
  <1> QED
    BY <1>1, <1>2, <1>3, <1>4, <1>5, <1>6, <1>7, <1>8, <1>9, <1>10 DEF Next, Program

\* MoveStore loses nothing.
LEMMA StoreKeeps == DataSafe /\ (Store!Next \/ UNCHANGED Store!store) => DataSafe'
  <1> SUFFICES ASSUME DataSafe, Store!Next PROVE DataSafe'
    BY DEF DataSafe, Store!store
  <1> USE DEF DataSafe
  <1>1. ASSUME NEW n \in Node,
               Store!Come(n) \/ Store!Taken(n) \/ Store!Arrive(n) \/ Store!Discard(n)
        PROVE  DataSafe'
    BY <1>1 DEF Store!Come, Store!Taken, Store!Arrive, Store!Discard
  <1>2. ASSUME NEW T \in {Tree(r) : r \in Roots},
               Store!Rename(T) \/ \E n \in Node : Store!Remove(T, n)
        PROVE  DataSafe'
    BY <1>2 DEF Store!Rename, Store!Remove
  <1>3. CASE Store!Miss \/ Store!Again
    BY <1>3 DEF Store!Miss, Store!Again
  <1> QED
    BY <1>1, <1>2, <1>3 DEF Store!Next

-----------------------------------------------------------------------------
(* The status *)

\* An operand does not come back.
LEMMA NoReturn ==
    ASSUME TypeOK, NEW p \in Node, Come(p), NEW i \in 1..Len(Operands)
    PROVE  Operands[i] \in there' => Operands[i] \in there
  <1>1. Up[p] # None
    BY TreeAssumption DEF Come, TypeOK
  <1>2. Operands[i] # p
    BY <1>1, MvAssumption
  <1> QED
    BY <1>2 DEF Come

\* Every step keeps StatusInv.
LEMMA StatusStep == TypeOK /\ PlaceInv /\ StatusInv /\ Next => StatusInv'
  <1> SUFFICES ASSUME TypeOK, PlaceInv, StatusInv, Next PROVE StatusInv'
    OBVIOUS
  <1> USE DEF given, reading, source, target, status, Told
  <1>0. Len(Operands) \in Nat /\ Len(Operands) # 0 /\ k \in Nat /\ k - 1 \in Int
    BY MvAssumption DEF TypeOK
  <1>k. pc # "exit" => k \in 1..Len(Operands)
    BY DEF PlaceInv
  <1>1. CASE Lstat \/ LstatFails \/ Refuse \/ RenameFails \/ MakeRoom \/ NoRoom \/ CopyDir \/ CopyLink
             \/ CopyNew \/ Fill \/ FillFails \/ CopyFails \/ Readdir \/ Closedir \/ Opendir
             \/ RemoveFails \/ RmdirFails
    <2>1. k' = k /\ there' = there /\ saverrs' = saverrs /\ excused \subseteq excused' /\ pc' # "exit"
      BY <1>1 DEF Lstat, LstatFails, Refuse, RenameFails, MakeRoom, NoRoom, CopyDir, CopyLink, CopyNew,
                  Copied, Fill, FillFails, CopyFails, Readdir, Closedir, Opendir, RemoveFails,
                  RmdirFails, Stop, Onward
    <2>2. pc' = "done" => errcnt' = 1 \/ excused' \cap {"refused", "rmdir"} # {}
      BY <1>1 DEF Lstat, LstatFails, Refuse, RenameFails, MakeRoom, NoRoom, CopyDir, CopyLink, CopyNew,
                  Copied, Fill, FillFails, CopyFails, Readdir, Closedir, Opendir, RemoveFails,
                  RmdirFails, Stop, Onward
    <2> QED
      BY <2>1, <2>2 DEF StatusInv
  <1>2. CASE Rename
    <2>1. /\ k' = k /\ there' = there \ Tree(top) /\ saverrs' = saverrs /\ excused' = excused
          /\ pc' = "done" /\ pc # "exit" /\ top \in Tree(top)
      BY <1>2, <1>k, Tops DEF Rename
    <2> QED
      BY <2>1 DEF StatusInv, top
  <1>3. CASE Check
    BY <1>3 DEF Check, Moving, StatusInv, TypeOK
  <1>4. CASE Unlink
    <2>1. dir = None => cur = top
      BY <1>4, OnwardPlace DEF Unlink
    <2>2. k' = k /\ there' = there \ {cur} /\ saverrs' = saverrs /\ excused' = excused
      BY <1>4 DEF Unlink
    <2> QED
      BY <1>4, <2>1, <2>2 DEF Unlink, StatusInv, top
  <1>5. CASE Rmdir
    <2>1. k' = k /\ there' = there \ {dir} /\ saverrs' = saverrs /\ excused' = excused
      BY <1>5 DEF Rmdir
    <2>2. dir \in Node /\ top \in Above[dir] /\ pc # "exit"
      BY <1>5 DEF Rmdir, PlaceInv, Tree
    <2>3. Up[dir] = None => dir = top
      BY <2>2, <1>k, Tops, TreeAssumption
    <2> QED
      BY <1>5, <2>1, <2>3 DEF Rmdir, StatusInv, top
  <1>6. CASE Done
    <2>1. /\ k' = k + 1 /\ there' = there /\ saverrs' = Summed /\ excused' = excused /\ pc' # "done"
          /\ pc' = "exit" => k = Len(Operands)
      BY <1>6 DEF Done
    <2>2. saverrs' = 0 => saverrs = 0 /\ errcnt = 0 /\ pc = "done"
      BY <1>6, <2>1 DEF Done, Summed, TypeOK
    <2>3. \A i \in 1..(k' - 1) : i \in 1..(k - 1) \/ i = k
      BY <2>1, <1>0
    <2> QED
      BY <2>1, <2>2, <2>3, <1>0 DEF StatusInv, top
  <1>7. CASE Kill
    BY <1>7 DEF Kill, StatusInv
  <1>8. CASE Again
    <2>1. k' = 1 /\ pc' = "operand"
      BY <1>8 DEF Again
    <2> QED
      BY <2>1 DEF StatusInv
  <1>9. ASSUME NEW p \in Node, Come(p) PROVE StatusInv'
    <2>1. /\ k' = k /\ saverrs' = saverrs /\ excused \subseteq excused' /\ errcnt' = errcnt
          /\ pc' = pc
      BY <1>9 DEF Come
    <2>2. \A i \in 1..(k - 1) : i \in 1..Len(Operands)
      BY <1>0 DEF TypeOK
    <2> QED
      BY <1>9, <1>k, <2>1, <2>2, NoReturn DEF StatusInv, top
  <1>10. ASSUME NEW p \in Node, Take(p) PROVE StatusInv'
    BY <1>10 DEF Take, StatusInv, top
  <1> QED
    BY <1>1, <1>2, <1>3, <1>4, <1>5, <1>6, <1>7, <1>8, <1>9, <1>10 DEF Next, Program

-----------------------------------------------------------------------------
(* The links *)

\* Names of one inode are one name, or none of them is a directory.
LEMMA SameIno ==
    ASSUME NEW p \in Node, NEW q \in Node, Ino[p] = Ino[q], p # q
    PROVE  Kind[p] # "dir" /\ Kind[q] # "dir"
  BY MvAssumption

\* The trees of the operands have no name in common.
LEMMA OneTree ==
    ASSUME k \in 1..Len(Operands), NEW r \in Roots, NEW p \in Tree(r), p \in Tree(top)
    PROVE  Tree(r) = Tree(top)
  <1>1. Up[r] = None /\ Up[top] = None /\ r \in Above[p] /\ top \in Above[p] /\ p \in Node
    BY Tops, MvAssumption DEF Roots, Tree
  <1>2. r = top
    BY <1>1, TreeAssumption
  <1> QED
    BY <1>2

\* What is above a name of the operand is the operand's.
LEMMA RootAbove ==
    ASSUME k \in 1..Len(Operands), NEW p \in Tree(top), NEW q \in Above[p]
    PROVE  q \in Tree(top)
  <1>1. p \in Node /\ q \in Node /\ top \in Above[p] /\ Above[top] = {top} /\ q \in Above[q]
    BY Tops, Line DEF Tree
  <1>2. q \in Above[top] \/ top \in Above[q]
    BY <1>1, TreeAssumption
  <1> QED
    BY <1>1, <1>2 DEF Tree

\* When there is room for the operand, nothing below it is in the target.
LEMMA Room ==
    ASSUME TypeOK, MadeInv, k \in 1..Len(Operands), Agree, Dst # "full"
    PROVE  Tree(top) \cap DOMAIN here \subseteq {top}
  <1> SUFFICES ASSUME NEW p \in DOMAIN here, top \in Above[p], p # top PROVE FALSE
    BY DEF Tree
  <1>1. PICK c \in Above[p] : Up[c] = top
    BY Line DEF TypeOK
  <1>2. c \in DOMAIN here /\ top \in DOMAIN here /\ c \in Node /\ top # None /\ top \in Node
    BY <1>1, Line, Tops, TreeAssumption DEF MadeInv, TypeOK
  <1>3. Kind[top] = "dir"
    BY <1>1, <1>2, Parents
  <1> QED
    BY <1>1, <1>2, <1>3 DEF Dst

\* Every step keeps YetInv.
LEMMA YetStep == TypeOK /\ PlaceInv /\ YetInv /\ Next => YetInv'
  <1> SUFFICES ASSUME TypeOK, PlaceInv, YetInv, Next PROVE YetInv'
    OBVIOUS
  <1> USE DEF YetInv, given, reading, source, target, status
  <1>1. CASE Lstat \/ LstatFails \/ Refuse \/ RenameFails \/ NoRoom \/ MakeRoom
    BY <1>1 DEF Lstat, LstatFails, Refuse, RenameFails, NoRoom, MakeRoom
  <1>2. CASE Rename
    <2>1. /\ there' \subseteq there /\ DOMAIN here' \subseteq DOMAIN here \cup there /\ yet' = yet
          /\ taken' = taken /\ todo' = todo /\ pc' = "done"
      BY <1>2 DEF Rename
    <2> QED
      BY <2>1
  <1>3. CASE CopyDir \/ Opendir
    <2>1. /\ cur \in there /\ todo' = [todo EXCEPT ![cur] = Kids(cur)] /\ yet' = yet
          /\ there' = there /\ taken' = taken /\ DOMAIN here' \subseteq DOMAIN here \cup {cur}
          /\ pc' \notin {"copy", "fill"}
      BY <1>3 DEF CopyDir, Opendir, Ext
    <2>2. \A d \in Node : todo'[d] \subseteq todo[d] \cup there
      BY <2>1 DEF TypeOK, Kids
    <2> QED
      BY <2>1, <2>2
  <1>4. CASE CopyLink \/ CopyNew \/ Fill \/ FillFails \/ CopyFails
    <2>1. /\ yet' = yet /\ there' = there /\ taken' = taken /\ todo' = todo /\ cur' = cur
          /\ pc \in {"copy", "fill"}
          /\ here' = here \/ (cur \in there /\ DOMAIN here' = DOMAIN here \cup {cur})
      BY <1>4 DEF CopyLink, CopyNew, Fill, FillFails, CopyFails, Ext
    <2> QED
      BY <2>1
  <1>5. CASE Readdir
    <2>1. PICK e \in todo[dir] : cur' = e /\ todo' = [todo EXCEPT ![dir] = todo[dir] \ {e}]
      BY <1>5 DEF Readdir, Rest
    <2>2. dir \in Node
      BY <1>5 DEF Readdir, PlaceInv, Tree
    <2>3. \A d \in Node : todo'[d] \subseteq todo[d]
      BY <2>1 DEF TypeOK
    <2> QED
      BY <1>5, <2>1, <2>2, <2>3 DEF Readdir
  <1>6. CASE Check
    BY <1>6 DEF Check
  <1>7. CASE Closedir \/ Unlink \/ Rmdir \/ RemoveFails \/ RmdirFails \/ Done \/ Kill \/ Again
    <2>1. \A d \in Node : todo'[d] \subseteq todo[d]
      BY <1>7 DEF Closedir, Unlink, Rmdir, RemoveFails, RmdirFails, Shut, Stop, Done, Kill, Again, TypeOK
    <2> QED
      BY <1>7, <2>1 DEF Closedir, Unlink, Rmdir, RemoveFails, RmdirFails, Stop, Done, Kill, Again
  <1>8. ASSUME NEW n \in Node, Come(n) PROVE YetInv'
    <2>1. /\ yet' = yet \ {n} /\ there' = there \cup {n} /\ taken' = taken /\ here' = here
          /\ pc' = pc /\ cur' = cur
      BY <1>8 DEF Come
    <2>2. \A d \in Node : todo'[d] \subseteq todo[d] \cup {n}
      BY <1>8 DEF Come, TypeOK
    <2> QED
      BY <2>1, <2>2
  <1>9. ASSUME NEW n \in Node, Take(n) PROVE YetInv'
    BY <1>9 DEF Take
  <1> QED
    BY <1>1, <1>2, <1>3, <1>4, <1>5, <1>6, <1>7, <1>8, <1>9 DEF Next, Program

\* Every step keeps MadeInv.
LEMMA MadeStep == TypeOK /\ PlaceInv /\ WorldInv /\ MadeInv /\ Next => MadeInv'
  <1> SUFFICES ASSUME TypeOK, PlaceInv, WorldInv, MadeInv, Next PROVE MadeInv'
    OBVIOUS
  <1> USE DEF given, reading, source, target, status, Copying
  <1>k. pc # "exit" => k \in 1..Len(Operands)
    BY DEF PlaceInv
  \* A name is made in the directory that is open, or is the operand.
  <1>a. ASSUME pc = "copy", NEW x \in Node, Ino[x] = Ino[cur], here' = Ext(here, cur, x)
        PROVE  /\ \A p \in DOMAIN here' : Ino[here'[p]] = Ino[p] /\ Above[p] \subseteq DOMAIN here'
               /\ cur \in DOMAIN here' /\ DOMAIN here \subseteq DOMAIN here'
    <2>1. cur \in Node /\ Up[cur] = dir
      BY <1>a DEF PlaceInv, Tree
    <2>2. Above[cur] \subseteq DOMAIN here \cup {cur}
      BY <1>a, <2>1, TreeAssumption DEF MadeInv
    <2>3. /\ DOMAIN here' = DOMAIN here \cup {cur} /\ here'[cur] = x
          /\ \A p \in DOMAIN here : p # cur => here'[p] = here[p]
      BY <1>a DEF Ext
    <2> QED
      BY <1>a, <2>2, <2>3 DEF MadeInv
  <1>1. CASE Lstat \/ LstatFails \/ Refuse \/ RenameFails \/ NoRoom
    BY <1>1 DEF Lstat, LstatFails, Refuse, RenameFails, NoRoom, MadeInv
  <1>2. CASE Rename
    <2> DEFINE moved == Tree(top) \cap there
               link(p) == CHOOSE q \in Tree(top) : Ino[q] = Ino[p]
    <2>1. /\ here' = [p \in DOMAIN here \cup moved |-> IF p \in moved THEN link(p) ELSE here[p]]
          /\ slots' = slots /\ pc' = "done"
      BY <1>2 DEF Rename
    <2>2. \A p \in moved : Ino[link(p)] = Ino[p]
      OBVIOUS
    <2>3. \A p \in moved : Above[p] \subseteq DOMAIN here'
      <3> SUFFICES ASSUME NEW p \in moved, NEW q \in Above[p] PROVE q \in DOMAIN here'
        OBVIOUS
      <3>1. p \in Node /\ q \in there /\ q \in Node
        BY Line DEF WorldInv, Tree
      <3>2. q \in Tree(top)
        BY <1>2, <1>k, RootAbove DEF Rename
      <3> QED
        BY <2>1, <3>1, <3>2
    <2> HIDE DEF link
    <2> QED
      BY <2>1, <2>2, <2>3 DEF MadeInv
  <1>3. CASE MakeRoom
    <2>1. /\ here' = [p \in DOMAIN here \ {top} |-> here[p]] /\ slots' = slots /\ dir' = dir
          /\ dir = None /\ Agree /\ Dst # "full"
      BY <1>3 DEF MakeRoom, PlaceInv
    <2>2. top \in Node /\ DOMAIN here \subseteq Node
      BY <1>3, <1>k, Tops DEF MakeRoom, TypeOK
    <2>3. \A c \in DOMAIN here : Up[c] # top
      BY <2>1, <2>2, Parents, TreeAssumption DEF Dst, MadeInv
    <2>4. \A p \in DOMAIN here \ {top} : Above[p] \subseteq DOMAIN here \ {top}
      BY <2>2, <2>3, Pruned DEF MadeInv
    <2> QED
      BY <2>1, <2>4 DEF MadeInv
  <1>4. CASE CopyDir
    <2>1. here' = Ext(here, cur, cur) /\ slots' = slots /\ dir' = cur /\ pc = "copy" /\ cur \in Node
      BY <1>4 DEF CopyDir, TypeOK
    <2> QED
      BY <2>1, <1>a DEF MadeInv
  <1>5. CASE CopyLink
    <2>1. /\ here' = Ext(here, cur, here[slots[Ino[cur]]]) /\ slots' = slots /\ dir' = dir
          /\ pc = "copy" /\ Ino[cur] \in DOMAIN slots /\ slots[Ino[cur]] \in DOMAIN here
      BY <1>5 DEF CopyLink, CanLink
    <2>2. here[slots[Ino[cur]]] \in Node /\ Ino[here[slots[Ino[cur]]]] = Ino[cur]
      BY <2>1 DEF MadeInv, TypeOK
    <2> QED
      BY <2>1, <2>2, <1>a DEF MadeInv
  <1>6. CASE CopyNew
    <2>1. /\ here' = Ext(here, cur, cur) /\ slots' = Recorded /\ dir' = dir /\ pc = "copy"
          /\ cur \in Node
      BY <1>6 DEF CopyNew, TypeOK
    <2>2. \A i \in DOMAIN slots' : Ino[slots'[i]] = i
      BY <2>1 DEF Recorded, Ext, MadeInv
    <2> QED
      BY <2>1, <2>2, <1>a DEF MadeInv
  <1>7. CASE CopyFails
    <2>1. /\ pc = "copy" /\ dir' = dir
          /\ here' = here \/ (cur \in Node /\ here' = Ext(here, cur, cur))
          /\ slots' = slots \/ slots' = Recorded
      BY <1>7 DEF CopyFails, TypeOK
    <2>2. \A i \in DOMAIN slots' : Ino[slots'[i]] = i
      BY <2>1 DEF Recorded, Ext, MadeInv
    <2> QED
      BY <2>1, <2>2, <1>a DEF MadeInv
  <1>8. CASE Fill \/ FillFails
    BY <1>8 DEF Fill, FillFails, MadeInv
  <1>9. CASE Closedir
    <2>1. /\ here' = here /\ slots' = slots /\ dir' = Up[dir] /\ pc = "walk" /\ dir \in Node
      BY <1>9 DEF Closedir, Parent, PlaceInv, Tree
    <2>2. Up[dir] # None => Up[dir] \in Above[dir]
      BY <2>1, Parents, Line
    <2>3. dir \in DOMAIN here
      BY <2>1, TreeAssumption DEF MadeInv
    <2> QED
      BY <2>1, <2>2, <2>3 DEF MadeInv
  <1>10. CASE Readdir
    BY <1>10 DEF Readdir, MadeInv
  <1>11. CASE Check \/ Unlink \/ Opendir \/ Rmdir \/ RemoveFails \/ RmdirFails \/ Done \/ Kill \/ Again
    BY <1>11 DEF Check, Unlink, Opendir, Rmdir, RemoveFails, RmdirFails, Stop, Done, Kill, Again,
                 MadeInv
  <1>12. ASSUME NEW n \in Node, Come(n) \/ Take(n) PROVE MadeInv'
    BY <1>12 DEF Come, Take, MadeInv
  <1> QED
    BY <1>1, <1>2, <1>3, <1>4, <1>5, <1>6, <1>7, <1>8, <1>9, <1>10, <1>11, <1>12 DEF Next, Program

\* Every step keeps OnceInv.
LEMMA OnceStep ==
    TypeOK /\ PlaceInv /\ YetInv /\ MadeInv /\ OnceInv /\ Next => OnceInv'
  <1> SUFFICES ASSUME TypeOK, PlaceInv, YetInv, MadeInv, OnceInv, Next PROVE OnceInv'
    OBVIOUS
  <1> USE DEF given, reading, source, target, status, Copying
  <1>1. CASE MakeRoom
    <2>1. /\ DOMAIN here' = DOMAIN here \ {top} /\ cur' = top /\ pc' = "copy" /\ k' = k /\ todo' = todo
          /\ dir = None /\ Agree /\ Dst # "full" /\ k \in 1..Len(Operands)
      BY <1>1 DEF MakeRoom, PlaceInv
    <2>2. \A d \in Node : todo[d] = {}
      BY <2>1 DEF TypeOK, Open
    <2>3. Tree(top) \cap DOMAIN here' = {} /\ Tree(top)' = Tree(top)
      BY <2>1, Room DEF top, Tree
    <2> QED
      BY <2>1, <2>2, <2>3 DEF OnceInv
  <1>2. CASE CopyDir
    <2>1. /\ pc = "copy" /\ pc' = "walk" /\ cur \in there /\ cur \in Node
          /\ DOMAIN here' = DOMAIN here \cup {cur} /\ there' = there /\ taken' = taken /\ k' = k
          /\ todo' = [todo EXCEPT ![cur] = Kids(cur)]
      BY <1>2 DEF CopyDir, Ext, TypeOK
    <2>2. Kids(cur) \cap DOMAIN here' = {}
      <3> SUFFICES ASSUME NEW c \in Kids(cur), c \in DOMAIN here' PROVE FALSE
        OBVIOUS
      <3>1. c \in Node /\ Up[c] = cur /\ cur # None
        BY <2>1, TreeAssumption DEF Kids, TypeOK
      <3>2. c # cur /\ cur \in Above[c]
        BY <3>1, Parents, Line
      <3> QED
        BY <2>1, <3>2 DEF MadeInv, OnceInv
    <2>3. \A d \in Node : todo'[d] \cap DOMAIN here' = {}
      BY <2>1, <2>2 DEF OnceInv, TypeOK
    <2> QED
      BY <2>1, <2>3 DEF OnceInv, Tree, top
  <1>3. CASE CopyLink \/ CopyNew \/ CopyFails
    <2>1. /\ pc = "copy" /\ pc' # "copy" /\ there' = there /\ taken' = taken /\ k' = k /\ todo' = todo
          /\ here' = here \/ (cur \in there /\ DOMAIN here' = DOMAIN here \cup {cur})
      BY <1>3 DEF CopyLink, CopyNew, CopyFails, Ext, Onward
    <2> QED
      BY <2>1 DEF OnceInv, Tree, top
  <1>4. CASE Fill \/ FillFails
    BY <1>4 DEF Fill, FillFails, Onward, OnceInv, Tree, top
  <1>5. CASE Readdir
    <2>1. PICK e \in todo[dir] : cur' = e /\ todo' = [todo EXCEPT ![dir] = todo[dir] \ {e}]
      BY <1>5 DEF Readdir, Rest
    <2>2. dir \in Node /\ Up[e] = dir
      BY <1>5, <2>1 DEF Readdir, PlaceInv, Tree
    <2>3. \A d \in Node : todo'[d] \subseteq todo[d] /\ e \notin todo'[d]
      BY <2>1, <2>2 DEF TypeOK, PlaceInv
    <2>4. /\ pc \in {"walk", "prune"} /\ pc' = (IF pc = "walk" THEN "copy" ELSE "remove")
          /\ here' = here /\ there' = there /\ taken' = taken /\ k' = k
      BY <1>5 DEF Readdir
    <2> QED
      BY <2>1, <2>2, <2>3, <2>4 DEF OnceInv, Tree, top
  <1>6. CASE Closedir
    <2>1. \A d \in Node : todo'[d] \subseteq todo[d]
      BY <1>6 DEF Closedir, Shut, TypeOK
    <2> QED
      BY <1>6, <2>1 DEF Closedir, OnceInv, Copying, Tree, top
  <1>7. CASE Lstat \/ LstatFails \/ Refuse \/ Rename \/ RenameFails \/ NoRoom \/ Check \/ Unlink
             \/ Opendir \/ Rmdir \/ RemoveFails \/ RmdirFails \/ Done \/ Kill \/ Again
    BY <1>7 DEF Lstat, LstatFails, Refuse, Rename, RenameFails, NoRoom, Check, Unlink, Opendir, Rmdir,
                RemoveFails, RmdirFails, Stop, Done, Kill, Again, OnceInv
  <1>8. ASSUME NEW n \in Node, Come(n) PROVE OnceInv'
    <2>1. /\ n \in yet /\ there' = there \cup {n} /\ taken' = taken /\ here' = here /\ k' = k
          /\ pc' = pc /\ cur' = cur
      BY <1>8 DEF Come
    <2>2. \A d \in Node : todo'[d] \subseteq todo[d] \cup {n}
      BY <1>8 DEF Come, TypeOK
    <2> QED
      BY <2>1, <2>2 DEF OnceInv, YetInv, Tree, top
  <1>9. ASSUME NEW n \in Node, Take(n) PROVE OnceInv'
    BY <1>9 DEF Take, OnceInv, Tree, top
  <1> QED
    BY <1>1, <1>2, <1>3, <1>4, <1>5, <1>6, <1>7, <1>8, <1>9 DEF Next, Program

\* Every step keeps SlotInv.
LEMMA SlotStep == Inv /\ YetInv /\ MadeInv /\ OnceInv /\ SlotInv /\ Next => SlotInv'
  <1> DEFINE Good(p) == \/ p \in taken \/ Alone(p)
                        \/ Ino[p] \in DOMAIN slots /\ here[p] = here[slots[Ino[p]]]
  <1> SUFFICES ASSUME Inv, YetInv, MadeInv, OnceInv, SlotInv, Next, pc' \in Copying, errcnt' = 0,
                      Blameless', NEW p \in (Tree(top) \cap DOMAIN here)'
               PROVE  Good(p)'
    BY DEF SlotInv
  <1> USE DEF Inv, given, reading, source, target, status, Copying, Blameless
  <1>s. ASSUME pc \in Copying, errcnt = 0
        PROVE  \A i \in DOMAIN slots : slots[i] \in DOMAIN here
    BY <1>s DEF CopyInv, PlaceInv, TypeOK
  \* What went before stays as it was when there and taken are the same.
  <1>o. ASSUME pc = "copy", errcnt = 0, Blameless, k' = k, there' = there, taken' = taken,
               p # cur, cur \notin DOMAIN here, NEW x, here' = Ext(here, cur, x),
               slots' = slots \/ (Ino[p] # Ino[cur] /\ slots' = Recorded)
        PROVE  Good(p)'
    <2>1. p \in Tree(top) \cap DOMAIN here
      BY <1>o DEF Ext, Tree, top
    <2>2. Good(p)
      BY <1>o, <2>1 DEF SlotInv
    <2>3. Alone(p)' <=> Alone(p)
      BY <1>o DEF Alone
    <2>4. \A q \in DOMAIN here : here'[q] = here[q]
      BY <1>o DEF Ext
    <2>5. Ino[p] \in DOMAIN slots => Ino[p] \in DOMAIN slots' /\ slots'[Ino[p]] = slots[Ino[p]]
      BY <1>o DEF Recorded, Ext
    <2>6. Ino[p] \in DOMAIN slots => slots[Ino[p]] \in DOMAIN here
      BY <1>o, <1>s
    <2> QED
      BY <1>o, <2>1, <2>2, <2>3, <2>4, <2>5, <2>6
  <1>1. CASE MakeRoom
    <2>1. Tree(top)' = Tree(top) /\ DOMAIN here' = DOMAIN here \ {top} /\ k \in 1..Len(Operands)
      BY <1>1 DEF MakeRoom, top, Tree, PlaceInv
    <2> QED
      BY <1>1, <2>1, Room DEF MakeRoom
  <1>2. CASE CopyDir
    <2>1. /\ pc = "copy" /\ errcnt = 0 /\ Blameless /\ k' = k /\ there' = there /\ taken' = taken
          /\ slots' = slots /\ here' = Ext(here, cur, cur) /\ Kind[cur] = "dir" /\ cur \in Node /\ cur' = cur
      BY <1>2 DEF CopyDir, TypeOK
    <2>2. Alone(cur)'
      BY <2>1, SameIno DEF Alone, TypeOK
    <2> QED
      BY <2>1, <2>2, <1>o DEF OnceInv
  <1>3. CASE CopyLink
    <2>1. /\ pc = "copy" /\ errcnt = 0 /\ Blameless /\ k' = k /\ there' = there /\ taken' = taken
          /\ slots' = slots /\ Ino[cur] \in DOMAIN slots /\ slots[Ino[cur]] \in DOMAIN here
          /\ here' = Ext(here, cur, here[slots[Ino[cur]]]) /\ cur \notin DOMAIN here
      BY <1>3 DEF CopyLink, CanLink, OnceInv
    <2>2. here'[cur] = here[slots[Ino[cur]]] /\ here'[slots[Ino[cur]]] = here[slots[Ino[cur]]]
      BY <2>1 DEF Ext
    <2> QED
      BY <2>1, <2>2, <1>o
  <1>4. CASE CopyNew
    <2>1. /\ pc = "copy" /\ errcnt = 0 /\ Blameless /\ k' = k /\ there' = there /\ taken' = taken
          /\ slots' = Recorded /\ here' = Ext(here, cur, cur) /\ cur \notin DOMAIN here /\ ~CanLink
          /\ cur \in there /\ cur \in Node /\ cur' = cur
      BY <1>4 DEF CopyNew, Copied, OnceInv, TypeOK
    <2>2. CASE ~Linked
      <3>1. slots' = slots /\ Alone(cur)'
        BY <2>1, <2>2 DEF Recorded, Linked, Alone
      <3> QED
        BY <2>1, <3>1, <1>o
    <2>3. CASE Linked
      <3>1. Ino[cur] \notin DOMAIN slots
        BY <2>1, <2>3, <1>s DEF CanLink
      <3>2. slots' = Ext(slots, Ino[cur], cur)
        BY <2>1, <2>3, <3>1 DEF Recorded
      <3>3. p = cur => Good(p)'
        BY <2>1, <3>2 DEF Ext
      <3>4. ASSUME p # cur, Ino[p] = Ino[cur] PROVE Good(p)'
        <4>1. p \in Tree(top) \cap DOMAIN here
          BY <2>1, <3>4 DEF Ext, Tree, top
        <4>2. ~Alone(p)
          BY <2>1, <3>4 DEF Alone
        <4> QED
          BY <2>1, <3>1, <3>4, <4>1, <4>2 DEF SlotInv
      <3> QED
        BY <2>1, <3>3, <3>4, <1>o
    <2> QED
      BY <2>2, <2>3
  <1>5. CASE Fill \/ Closedir \/ Readdir
    <2>1. /\ pc \in Copying /\ errcnt = 0 /\ Blameless /\ k' = k /\ there' = there /\ taken' = taken
          /\ slots' = slots /\ here' = here
      BY <1>5 DEF Fill, Closedir, Readdir
    <2>2. p \in Tree(top) \cap DOMAIN here
      BY <2>1 DEF Tree, top
    <2> QED
      BY <2>1, <2>2 DEF SlotInv, Alone
  <1>6. ASSUME NEW n \in Node, Come(n) PROVE Good(p)'
    <2>1. /\ pc \in Copying /\ errcnt = 0 /\ Blameless /\ k' = k /\ there' = there \cup {n}
          /\ taken' = taken /\ slots' = slots /\ here' = here
          /\ \A q \in DOMAIN here : Ino[q] # Ino[n]
      BY <1>6 DEF Come
    <2>2. p \in Tree(top) \cap DOMAIN here
      BY <2>1 DEF Tree, top
    <2>3. Alone(p) => Alone(p)'
      BY <2>1, <2>2 DEF Alone
    <2> QED
      BY <2>1, <2>2, <2>3 DEF SlotInv
  <1>7. ASSUME NEW n \in Node, Take(n) PROVE Good(p)'
    <2>1. /\ pc \in Copying /\ errcnt = 0 /\ Blameless /\ k' = k /\ there' = there \ {n}
          /\ taken' = taken \cup {n} /\ slots' = slots /\ here' = here
      BY <1>7 DEF Take
    <2>2. p \in Tree(top) \cap DOMAIN here
      BY <2>1 DEF Tree, top
    <2>3. Alone(p) => Alone(p)'
      BY <2>1, <2>2 DEF Alone
    <2> QED
      BY <2>1, <2>2, <2>3 DEF SlotInv
  <1>8. CASE FillFails \/ CopyFails
    BY <1>8 DEF FillFails, Counted, CopyFails
  <1>9. CASE Lstat \/ LstatFails \/ Refuse \/ Rename \/ RenameFails \/ NoRoom \/ Check \/ Unlink
             \/ Opendir \/ Rmdir \/ RemoveFails \/ RmdirFails \/ Done \/ Kill \/ Again
    BY <1>9 DEF Lstat, LstatFails, Refuse, Rename, RenameFails, NoRoom, Check, Unlink, Opendir, Rmdir,
                RemoveFails, RmdirFails, Stop, Done, Kill, Again
  <1> QED
    BY <1>1, <1>2, <1>3, <1>4, <1>5, <1>6, <1>7, <1>8, <1>9 DEF Next, Program

\* Every step keeps PairInv.
LEMMA PairStep == Inv /\ MadeInv /\ OnceInv /\ SlotInv /\ PairInv /\ Next => PairInv'
  <1> SUFFICES ASSUME Inv, MadeInv, OnceInv, SlotInv, PairInv, Next, pc' \in Removing, Blameless',
                      NEW p \in ((Tree(top) \cap DOMAIN here) \ taken)',
                      NEW q \in ((Tree(top) \cap DOMAIN here) \ taken)', Ino[p] = Ino[q]
               PROVE  here'[p] = here'[q]
    BY DEF PairInv, Paired
  <1> USE DEF given, reading, source, target, status, Removing, Blameless
  <1>1. CASE Check
    <2>1. /\ pc = "check" /\ errcnt = 0 /\ Blameless /\ k' = k /\ taken' = taken /\ here' = here
      BY <1>1 DEF Check, Moving
    <2>2. p \in (Tree(top) \cap DOMAIN here) \ taken /\ q \in (Tree(top) \cap DOMAIN here) \ taken
      BY <2>1 DEF Tree, top
    <2>3. p \in there /\ q \in there
      BY <2>1, <2>2 DEF OnceInv, Copying
    <2>4. /\ Alone(p) \/ (Ino[p] \in DOMAIN slots /\ here[p] = here[slots[Ino[p]]])
          /\ Alone(q) \/ (Ino[q] \in DOMAIN slots /\ here[q] = here[slots[Ino[q]]])
      BY <2>1, <2>2 DEF SlotInv, Copying
    <2> QED
      BY <2>1, <2>3, <2>4 DEF Alone
  <1>2. CASE Unlink \/ Opendir \/ Rmdir \/ Readdir
    <2>1. pc \in Removing /\ excused' = excused /\ k' = k /\ taken' = taken /\ here' = here
      BY <1>2 DEF Unlink, Opendir, Rmdir, Readdir
    <2> QED
      BY <2>1 DEF PairInv, Paired, Tree, top
  <1>3. ASSUME NEW n \in Node, Come(n) \/ Take(n) PROVE here'[p] = here'[q]
    <2>1. /\ pc \in Removing /\ excused \subseteq excused' /\ k' = k /\ taken \subseteq taken'
          /\ here' = here
      BY <1>3 DEF Come, Take
    <2> QED
      BY <2>1 DEF PairInv, Paired, Tree, top
  <1>4. CASE Lstat \/ LstatFails \/ Refuse \/ Rename \/ RenameFails \/ MakeRoom \/ NoRoom \/ CopyDir
             \/ CopyLink \/ CopyNew \/ Fill \/ FillFails \/ CopyFails \/ Closedir \/ RemoveFails
             \/ RmdirFails \/ Done \/ Kill \/ Again
    BY <1>4 DEF Lstat, LstatFails, Refuse, Rename, RenameFails, MakeRoom, NoRoom, CopyDir, CopyLink,
                CopyNew, Fill, FillFails, CopyFails, Closedir, RemoveFails, RmdirFails, Stop, Done,
                Kill, Again, Onward
  <1> QED
    BY <1>1, <1>2, <1>3, <1>4 DEF Next, Program

\* Every step keeps MovedInv.
LEMMA MovedStep == Inv /\ MadeInv /\ PairInv /\ MovedInv /\ Next => MovedInv'
  <1> SUFFICES ASSUME Inv, MadeInv, PairInv, MovedInv, Next, Blameless', NEW r \in Roots,
                      NEW p \in Tree(r) \cap DOMAIN here', NEW q \in Tree(r) \cap DOMAIN here',
                      Moved(p)', Moved(q)', Ino[p] = Ino[q]
               PROVE  here'[p] = here'[q]
    BY DEF MovedInv, Paired, Tree
  <1> USE DEF Inv, given, reading, source, target, status, Blameless
  \* Nothing was moved, and what had been is as it was.
  <1>o. ASSUME excused \cap {"link", "joined"} \subseteq excused',
               \A x \in DOMAIN here' : Moved(x)' =>
                    x \in DOMAIN here /\ Moved(x) /\ here'[x] = here[x]
        PROVE  here'[p] = here'[q]
    BY <1>o DEF MovedInv, Paired
  \* One name was removed.
  <1>r. ASSUME pc \in Removing, excused' = excused, here' = here, taken' = taken, late' = late,
               NEW c \in Tree(top), there' = there \ {c}
        PROVE  here'[p] = here'[q]
    <2>1. CASE p = c \/ q = c
      <3>1. Tree(r) = Tree(top)
        BY <1>r, <2>1, OneTree DEF Removing, PlaceInv
      <3> QED
        BY <1>r, <3>1 DEF PairInv, Paired, Moved
    <2>2. CASE p # c /\ q # c
      BY <1>r, <2>2 DEF MovedInv, Paired, Moved
    <2> QED
      BY <2>1, <2>2
  <1>1. CASE CopyDir \/ CopyLink \/ CopyNew \/ CopyFails
    <2>1. /\ excused \subseteq excused' /\ there' = there /\ taken' = taken /\ late' = late
          /\ here' = here \/ (cur \in there /\ \E x : here' = Ext(here, cur, x))
      BY <1>1 DEF CopyDir, CopyLink, CopyNew, Copied, CopyFails
    <2>2. \A x \in DOMAIN here' : Moved(x)' =>
                    x \in DOMAIN here /\ Moved(x) /\ here'[x] = here[x]
      BY <2>1 DEF Moved, Ext
    <2> QED
      BY <2>1, <2>2, <1>o
  <1>2. CASE MakeRoom
    <2>1. \A x \in DOMAIN here' : x \in DOMAIN here /\ here'[x] = here[x]
      BY <1>2 DEF MakeRoom
    <2> QED
      BY <1>2, <2>1, <1>o DEF MakeRoom, Moved
  <1>3. CASE Rename
    <2> DEFINE moved == Tree(top) \cap there
               link(x) == CHOOSE y \in Tree(top) : Ino[y] = Ino[x]
    <2>1. /\ here' = [x \in DOMAIN here \cup moved |-> IF x \in moved THEN link(x) ELSE here[x]]
          /\ there' = there \ moved /\ taken' = taken /\ late' = late /\ excused' = excused
          /\ top \in there /\ Agree /\ Dst # "full" /\ k \in 1..Len(Operands)
      BY <1>3 DEF Rename, PlaceInv
    <2>2. Tree(top) \cap DOMAIN here' \subseteq moved
      BY <2>1, Room, Tops
    <2>3. link(p) = link(q)
      OBVIOUS
    <2> HIDE DEF link
    <2>4. CASE p \in moved \/ q \in moved
      <3>1. Tree(r) = Tree(top)
        BY <2>1, <2>4, OneTree
      <3> QED
        BY <2>1, <2>2, <2>3, <3>1
    <2>5. CASE p \notin moved /\ q \notin moved
      BY <2>1, <2>5 DEF MovedInv, Paired, Moved
    <2> QED
      BY <2>4, <2>5
  <1>4. CASE Unlink
    BY <1>4, <1>r DEF Unlink, PlaceInv, Removing
  <1>5. CASE Rmdir
    BY <1>5, <1>r DEF Rmdir, PlaceInv, Removing
  <1>6. ASSUME NEW n \in Node, Come(n) PROVE here'[p] = here'[q]
    BY <1>6, <1>o DEF Come, Moved
  <1>7. ASSUME NEW n \in Node, Take(n) PROVE here'[p] = here'[q]
    BY <1>7, <1>o DEF Take, Moved
  <1>8. CASE Again
    BY <1>8, <1>o DEF Again, Moved
  <1>9. CASE Lstat \/ LstatFails \/ Refuse \/ RenameFails \/ NoRoom \/ Fill \/ FillFails \/ Readdir
             \/ Closedir \/ Check \/ Opendir \/ RemoveFails \/ RmdirFails \/ Done \/ Kill
    BY <1>9, <1>o DEF Lstat, LstatFails, Refuse, RenameFails, NoRoom, Fill, FillFails, Readdir,
                      Closedir, Check, Opendir, RemoveFails, RmdirFails, Done, Kill, Moved
  <1> QED
    BY <1>1, <1>2, <1>3, <1>4, <1>5, <1>6, <1>7, <1>8, <1>9 DEF Next, Program

\* LinkInv is inductive, and it keeps the links.
LEMMA LinkStep == Inv /\ LinkInv /\ [Next]_vars => LinkInv'
  <1> SUFFICES ASSUME Inv, LinkInv, [Next]_vars PROVE LinkInv'
    OBVIOUS
  <1>1. CASE Next
    BY <1>1, YetStep, MadeStep, OnceStep, SlotStep, PairStep, MovedStep DEF Inv, LinkInv
  <1>2. CASE UNCHANGED vars
    BY <1>2 DEF vars, LinkInv, YetInv, MadeInv, OnceInv, SlotInv, PairInv, MovedInv, Alone, Paired,
                Moved, Blameless, Tree, top
  <1> QED
    BY <1>1, <1>2

-----------------------------------------------------------------------------
(* Theorems *)

\* What is there at first has its directories there; nothing was done.
LEMMA InvInit == Init => Inv /\ DataSafe /\ Store!Init
  <1> SUFFICES ASSUME Init PROVE Inv /\ DataSafe /\ Store!Init
    OBVIOUS
  <1>1. there \subseteq Node /\ \A p \in there : Above[p] \subseteq there
    BY MvAssumption DEF Init
  <1>2. 1 \in 1..Len(Operands)
    BY MvAssumption
  <1>3. TypeOK
    BY <1>1, <1>2 DEF Init, TypeOK, Open
  <1>4. PlaceInv /\ WorldInv
    BY <1>1, <1>2 DEF Init, PlaceInv, WorldInv, Copying
  <1>5. CopyInv /\ RemoveInv
    BY DEF Init, CopyInv, RemoveInv, Copying, Removing
  <1>6. DataSafe /\ Store!Init
    BY <1>1 DEF Init, DataSafe, Store!Init
  <1> QED
    BY <1>3, <1>4, <1>5, <1>6 DEF Inv

\* Every step keeps the invariant.
LEMMA InvStep == Inv /\ [Next]_vars => Inv'
  <1> SUFFICES ASSUME Inv, [Next]_vars PROVE Inv'
    OBVIOUS
  <1>1. CASE Next
    BY <1>1, TypeStep, PlaceStep, WorldStep, CopyStep, RemoveStep DEF Inv
  <1>2. CASE UNCHANGED vars
    BY <1>2 DEF vars, Inv, TypeOK, Open, PlaceInv, WorldInv, CopyInv, RemoveInv, Pending, Tree, top
  <1> QED
    BY <1>1, <1>2

\* Every variable of mv has its type, for every forest of names and any number of operands,
\* failures and runs; a directory with names left to read is open.
THEOREM MvTypes == Spec => []TypeOK
  <1>1. Inv => TypeOK
    BY DEF Inv
  <1> QED
    BY <1>1, InvInit, InvStep, PTL DEF Spec

\* mv keeps to MoveStore: nothing of an operand is removed before all of it has arrived, but
\* what came to a directory after it was read, and what a failing readdir(), which cpmv() takes
\* for the end of the directory, has not given (cpmv(), trydelete()).
THEOREM MvKeepsToStore == Spec => ImplementsMove
  <1>1. Inv /\ [Next]_vars => [Store!Next]_(Store!store)
    <2>1. UNCHANGED vars => UNCHANGED Store!store
      BY DEF vars, Store!store
    <2> QED
      BY <2>1, StoreStep
  <1> QED
    BY <1>1, InvInit, InvStep, PTL DEF Spec, ImplementsMove, Store!Spec

\* Whatever fails and whenever mv is killed, its operands are in the source, whole in the
\* target, taken by others, or came too late, or a readdir() failed before it gave them: those
\* are the only names that mv removes without a copy.
THEOREM MvLosesNothing == Spec => []DataSafe
  <1>1. Inv /\ DataSafe /\ [Next]_vars => DataSafe'
    <2>1. UNCHANGED vars => UNCHANGED Store!store
      BY DEF vars, Store!store
    <2> QED
      BY <2>1, StoreStep, StoreKeeps
  <1> QED
    BY <1>1, InvInit, InvStep, PTL DEF Spec

\* An exit status of 0 is the truth: all the operands are gone from the source and whole in the
\* target, but for what others took, brought too late or never brought, and what a failing
\* readdir() has not given; unless the user refused or rmdir() failed.  For none of these has
\* main() an error to count.
THEOREM MvStatus == Spec => []StatusTells
  <1>1. Init => StatusInv
    BY DEF Init, StatusInv
  <1>2. StatusInv /\ UNCHANGED vars => StatusInv'
    BY DEF vars, StatusInv, Told, top
  <1>3. Inv /\ StatusInv /\ DataSafe => StatusTells
    <2> SUFFICES ASSUME Inv, StatusInv, DataSafe, pc = "exit", saverrs = 0, Told, NEW r \in Roots
                 PROVE  Tree(r) \cap there = {} /\ Tree(r) \subseteq whole \cup late \cup unread \cup taken \cup yet
      BY DEF StatusTells, Told
    <2>1. PICK i \in 1..Len(Operands) : r = Operands[i]
      BY DEF Roots
    <2>2. r \notin there
      BY <2>1, MvAssumption DEF StatusInv
    <2>3. Tree(r) \cap there = {}
      BY <2>2 DEF Inv, WorldInv, Tree
    <2> QED
      BY <2>3 DEF DataSafe, Tree
  <1>4. Inv /\ StatusInv /\ [Next]_vars => StatusInv'
    BY <1>2, StatusStep DEF Inv
  <1> QED
    BY <1>1, <1>3, <1>4, InvInit, InvStep, MvLosesNothing, PTL DEF Spec

\* Two names of one file within an operand are one file in the target when mv has moved them both,
\* as long as link() works and nobody makes another name for what was copied already; names of
\* two files are never made one (canlink()).
THEOREM MvKeepsLinks == Spec => []LinksKept
  <1>1. Init => LinkInv
    <2> SUFFICES ASSUME Init PROVE LinkInv
      OBVIOUS
    <2>1. DOMAIN here = {} /\ DOMAIN slots = {} /\ pc = "operand" /\ taken = {} /\ yet = Node \ there
          /\ \A d \in Node : todo[d] = {}
      BY DEF Init
    <2> QED
      BY <2>1 DEF LinkInv, YetInv, MadeInv, OnceInv, SlotInv, PairInv, MovedInv, Copying, Removing
  <1>2. Inv /\ LinkInv => LinksKept
    <2> SUFFICES ASSUME Inv, LinkInv, NEW r \in Roots, NEW p \in Tree(r) \cap DOMAIN here,
                        NEW q \in Tree(r) \cap DOMAIN here
                 PROVE  /\ here[p] = here[q] => Ino[p] = Ino[q]
                        /\ Ino[p] = Ino[q] /\ Blameless /\ Moved(p) /\ Moved(q) => here[p] = here[q]
      BY DEF LinksKept, Blameless, Moved
    <2> QED
      BY DEF LinkInv, MadeInv, MovedInv, Paired
  <1> QED
    BY <1>1, <1>2, LinkStep, InvInit, InvStep, PTL DEF Spec

=============================================================================
