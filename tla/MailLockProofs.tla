--------------------------- MODULE MailLockProofs ---------------------------
(***************************************************************************)
(* Proofs about the mail lock, for any set of processes and any limits.    *)
(*                                                                         *)
(* TypeOK and the two invariants of MailLock.tla are inductive together    *)
(* once Exclusion is strengthened to HolderOwnsFile: while no live lock    *)
(* has been removed by another, a process that believes it has locked, and *)
(* that no interrupt came to between the file and the flag, is the owner   *)
(* of the file that carries the lock's name, so two such believers would   *)
(* be the same process.                                                    *)
(***************************************************************************)
EXTENDS MailLock, TLAPS

\* A process inside the mailbox has its flag set; one that still tries, or has
\* just linked, has not; done() knows the name of every lock that was taken; a
\* name that was just removed is not its own any more; and the flag is true of
\* the file, unless somebody has clobbered a lock or an interrupt came between.
HolderOwnsFile ==
    /\ \A p \in Proc : Holds(p) => locked[p]
    /\ \A p \in Proc : lpc[p] \in Waiting \cup {"linked"} => ~locked[p] /\ curlock[p]
    /\ \A p \in Proc : lpc[p] = "removed" => lockfile # p /\ curlock[p]
    /\ \A p \in Proc : locked[p] => curlock[p]
    /\ clobbers = {} => \A p \in Proc : lpc[p] = "linked" => lockfile = p
    /\ clobbers = {} =>
           \A p \in Proc \ cut : locked[p] /\ lpc[p] # "removed" => lockfile = p

LockInv == TypeOK /\ HolderOwnsFile /\ NoForgottenLock

-----------------------------------------------------------------------------
\* The initial states of MailLock.tla satisfy the inductive invariant: nobody
\* has locked and no file carries the lock's name.
LEMMA LockInvInit == Init => LockInv
  BY LockAssumption
  DEF Init, LockInv, TypeOK, HolderOwnsFile, NoForgottenLock, Holds, Waiting, Between

\* A step inside maillock() or mailunlock() keeps the types.
LEMMA TryTypes ==
  ASSUME LockInv, NEW p \in Proc, Try(p)
  PROVE  TypeOK'
<1> USE LockAssumption DEF LockInv, TypeOK, Waiting, Between, Goto
<1>1. CASE Link(p)        BY <1>1 DEF Link
<1>2. CASE LinkExists(p)  BY <1>2 DEF LinkExists
<1>3. CASE LinkFails(p)   BY <1>3 DEF LinkFails
<1>4. CASE StatGone(p)
  <2>1. statfailed[p] > StatTries \/ statfailed[p] + 1 \in 0..(StatTries + 1)
    OBVIOUS
  <2> QED  BY <1>4, <2>1 DEF StatGone
<1>5. CASE StatFound(p)   BY <1>5 DEF StatFound
<1>6. CASE Break(p)       BY <1>6 DEF Break, RemoveName
<1>7. CASE Note(p)        BY <1>7 DEF Note
<1>8. CASE Unnote(p)      BY <1>8 DEF Unnote
<1> QED  BY <1>1, <1>2, <1>3, <1>4, <1>5, <1>6, <1>7, <1>8 DEF Try

\* A step inside maillock() or mailunlock() keeps the relation between the
\* flags, the file and the history: only Note sets a flag, after the file was
\* linked; only Break takes a file away here, and when that had an owner the
\* history says so; Unnote clears the flag of a file that is not there.
LEMMA TryOwns ==
  ASSUME LockInv, NEW p \in Proc, Try(p)
  PROVE  HolderOwnsFile' /\ NoForgottenLock'
<1> USE LockAssumption DEF LockInv, TypeOK, Waiting, Between, Goto, HolderOwnsFile, NoForgottenLock, Holds
<1>1. CASE Link(p)        BY <1>1 DEF Link
<1>2. CASE LinkExists(p)  BY <1>2 DEF LinkExists
<1>3. CASE LinkFails(p)   BY <1>3 DEF LinkFails
<1>4. CASE StatGone(p)    BY <1>4 DEF StatGone
<1>5. CASE StatFound(p)   BY <1>5 DEF StatFound
<1>6. CASE Break(p)       BY <1>6 DEF Break, RemoveName
<1>7. CASE Note(p)        BY <1>7 DEF Note
<1>8. CASE Unnote(p)      BY <1>8 DEF Unnote
<1> QED  BY <1>1, <1>2, <1>3, <1>4, <1>5, <1>6, <1>7, <1>8 DEF Try

\* Every step of MailLock.tla, of any process, keeps the inductive invariant.
LEMMA LockInvStep == LockInv /\ [Next]_lockvars => LockInv'
<1> SUFFICES ASSUME LockInv, [Next]_lockvars PROVE LockInv'
  OBVIOUS
<1> USE LockAssumption
    DEF LockInv, TypeOK, HolderOwnsFile, NoForgottenLock, Holds, Waiting, Between, Goto
<1>a. 0 \in 0..Stale /\ 0 \in 0..(StatTries + 1)
  OBVIOUS
<1>1. ASSUME NEW p \in Proc, Enter(p) PROVE LockInv'
  <2>1. CASE locked[p]
    <3>1. TypeOK'  BY <1>1, <2>1 DEF Enter
    <3>2. HolderOwnsFile' /\ NoForgottenLock'  BY <1>1, <2>1 DEF Enter
    <3> QED  BY <3>1, <3>2
  <2>2. CASE ~locked[p]
    <3>1. TypeOK'
      <4>1. /\ lpc' = [lpc EXCEPT ![p] = "link"]
            /\ curlock' = [curlock EXCEPT ![p] = TRUE]
            /\ statfailed' = [statfailed EXCEPT ![p] = 0]
            /\ UNCHANGED <<lockfile, lockage, seen, locked, cut, clobbers>>
        BY <1>1, <2>2 DEF Enter
      <4> HIDE DEF HolderOwnsFile, NoForgottenLock
      <4> QED  BY <4>1, <1>a
    <3>2. HolderOwnsFile' /\ NoForgottenLock'  BY <1>1, <2>2 DEF Enter
    <3> QED  BY <3>1, <3>2
  <2> QED  BY <2>1, <2>2
<1>2. ASSUME NEW p \in Proc, Try(p) PROVE LockInv'
  BY <1>2, TryTypes, TryOwns DEF LockInv
<1>3. ASSUME NEW p \in Proc, Unlock(p) PROVE LockInv'
  <2>1. TypeOK'  BY <1>3 DEF Unlock, RemoveName
  <2>2. HolderOwnsFile' /\ NoForgottenLock'  BY <1>3 DEF Unlock, RemoveName
  <2> QED  BY <2>1, <2>2
<1>4. ASSUME NEW p \in Proc, UnlockAgain(p) PROVE LockInv'
  BY <1>4 DEF UnlockAgain, RemoveName
<1>5. ASSUME NEW p \in Proc, Abandon(p) PROVE LockInv'
  BY <1>5 DEF Abandon
<1>6. ASSUME NEW p \in Proc, Exit(p) PROVE LockInv'
  <2>1. TypeOK'
    BY <1>6, <1>a DEF Exit, RemoveName, Forget
  <2>2. CASE curlock[p]
    <3>1. HolderOwnsFile'  BY <1>6, <2>2 DEF Exit, RemoveName, Forget
    <3>2. NoForgottenLock'  BY <1>6, <2>2 DEF Exit, RemoveName, Forget
    <3> QED  BY <2>1, <3>1, <3>2
  <2>3. CASE ~curlock[p]
    <3>1. HolderOwnsFile'  BY <1>6, <2>3 DEF Exit, Forget
    <3>2. NoForgottenLock'  BY <1>6, <2>3 DEF Exit, Forget
    <3> QED  BY <2>1, <3>1, <3>2
  <2> QED  BY <2>2, <2>3
<1>7. ASSUME NEW p \in Proc, Crash(p) PROVE LockInv'
  BY <1>7 DEF Crash, Forget
<1>8. ASSUME NEW p \in Proc, Start(p) PROVE LockInv'
  BY <1>8 DEF Start
<1>9. CASE Tick
  BY <1>9 DEF Tick
<1>10. CASE UNCHANGED lockvars
  BY <1>10 DEF lockvars
<1> QED
  BY <1>1, <1>2, <1>3, <1>4, <1>5, <1>6, <1>7, <1>8, <1>9, <1>10 DEF Next

-----------------------------------------------------------------------------
\* The inductive invariant holds in every reachable state.
LEMMA LockInvAlways == Safety => []LockInv
  BY LockInvInit, LockInvStep, PTL DEF Safety

\* Every variable of the lock stays in its type, the count of failed stat()
\* calls within the limit maillock() sets to it.
THEOREM LockTypes == Spec => []TypeOK
<1>1. LockInv => TypeOK
  BY DEF LockInv
<1> QED  BY <1>1, LockInvAlways, PTL DEF Spec

\* Any number of mail processes: unless a live owner's lock has been removed
\* by another process, at most one of those whose flag no interrupt has cut off
\* from the file is between lock() and unlock().
THEOREM LockExclusion == Spec => []Exclusion
<1>1. LockInv => Exclusion
  BY DEF LockInv, HolderOwnsFile, Exclusion, Holds
<1> QED  BY <1>1, LockInvAlways, PTL DEF Spec

\* Any number of mail processes: a lock file whose owner lives is one whose
\* owner still has the flag, is about to set it, or was interrupted before it
\* could; and in each case done() will remove it.
THEOREM LockNotForgotten == Spec => []NoForgottenLock
<1>1. LockInv => NoForgottenLock
  BY DEF LockInv
<1> QED  BY <1>1, LockInvAlways, PTL DEF Spec
=============================================================================
