---------------------------- MODULE MailboxProofs ----------------------------
(***************************************************************************)
(* Proofs about the mailbox, for any number of deliveries and of letters.  *)
(*                                                                         *)
(* Whatever the session and the deliveries do to the mailbox, what they do *)
(* to the lock is a step of MailLock or none.  So the theorems about the   *)
(* lock hold here, and with the places in the programs where the lock is   *)
(* held they give the property copyback() relies on (RewriteAlone).        *)
(* CutInv says that an interrupt between the lock's file and its flag does *)
(* not leave the session with a flag for nothing, unless it is a mishap.   *)
(*                                                                         *)
(* On this rests the rest.  FilesInv says what the files, the session's    *)
(* table and the history are, whatever goes wrong (MailboxTypes); StoreInv *)
(* says how they belong together as long as nothing has gone wrong without *)
(* the program's notice (TmpMirrors).  With both, every step is one of     *)
(* MailStore (KeepsStore).                                                 *)
(***************************************************************************)
EXTENDS Mailbox, SequenceTheorems, WellFoundedInduction, TLAPS

LP == INSTANCE MailLockProofs

\* Where a process stands in its program says where it stands in lock(): it is
\* past lock() and has not unlocked, or has not begun to unlock; and only the
\* session is ever interrupted between the lock's file and its flag.
PlacesHold ==
    /\ rpc \in InMailbox \cup {"loaded"} => lpc[Reader] = "in"
    /\ rpc = "newmail" => lpc[Reader] # "removed"
    /\ \A d \in Deliverer : dpc[d] \in {"append", "unlock"} => lpc[d] = "in"

\* The types the argument needs.
PlaceTypes ==
    /\ dpc \in [Deliverer -> {"start", "wait", "append", "unlock", "again", "bye", "done"}]
    /\ lpc \in [Proc -> L!Waiting \cup L!Between \cup {"out", "in", "failed", "dead"}]
    /\ cut \subseteq {Reader}

PlaceInv == PlaceTypes /\ PlacesHold

-----------------------------------------------------------------------------
\* The session and the deliveries are different processes.
LEMMA Processes == Reader \in Proc /\ Deliverer \subseteq Proc /\ Reader \notin Deliverer
  BY MailboxAssumption DEF Proc

\* A step of the session does to the lock what MailLock allows.
LEMMA SessionLocks == Session => [L!Next]_lockvars
<1> SUFFICES ASSUME Session PROVE [L!Next]_lockvars
  OBVIOUS
<1>1. L!Enter(Reader) \/ L!Unlock(Reader) \/ L!Abandon(Reader) \/ L!Try(Reader)
        \/ L!Exit(Reader) \/ L!Crash(Reader) \/ L!Start(Reader) => L!Next
  BY Processes DEF L!Next
<1>2. CASE Restore
  BY <1>1, <1>2 DEF Restore, CkStat, RestoreRename, RestoreFails, RestoreAppend, UnlinkSave
<1>3. CASE Open \/ Load \/ Prompt \/ TakeIn \/ Interrupt
  BY <1>1, <1>3
  DEF Open, Load, Prompt, TakeIn, NewMail, CloseNewMail, ReopenTmp, Interrupt,
      InterruptNewMail, BreakNewMail, InterruptLoaded, InterruptSized, InterruptReopen,
      ToPrompt, Mishap
<1>4. CASE Command \/ Quit \/ ExitUnchanged
  BY <1>1, <1>4 DEF Command, Quit, ExitUnchanged
<1>5. CASE CopyBack
  BY <1>1, <1>5
  DEF CopyBack, TakeNewMail, CreateSave, CopyLetter, UnlinkBox, RenameSave, Finish
<1>6. CASE ReaderTry \/ ReaderExit \/ ReaderCrash \/ ReaderStart
  BY <1>1, <1>6 DEF ReaderTry, ReaderExit, ReaderCrash, ReaderStart
<1> QED  BY <1>2, <1>3, <1>4, <1>5, <1>6 DEF Session

\* A step of a delivery does to the lock what MailLock allows.
LEMMA DeliveryLocks ==
  ASSUME NEW d \in Deliverer, Delivery(d)
  PROVE  [L!Next]_lockvars
<1>1. L!Enter(d) \/ L!Unlock(d) \/ L!UnlockAgain(d) \/ L!Try(d)
        \/ L!Exit(d) \/ L!Crash(d) => L!Next
  BY Processes DEF L!Next
<1> QED
  BY <1>1 DEF Delivery, DeliveryStart, DeliveryTry, OpenBox, AppendLetter, DeliveryUnlock,
              DeliveryExit, DeliveryCrash

\* Every step of the mailbox is a step of its lock or leaves the lock alone.
LEMMA LockStep == [Next]_vars => [L!Next]_lockvars
<1> SUFFICES ASSUME [Next]_vars PROVE [L!Next]_lockvars
  OBVIOUS
<1>1. CASE Session  BY <1>1, SessionLocks
<1>2. ASSUME NEW d \in Deliverer, Delivery(d) PROVE [L!Next]_lockvars
  BY <1>2, DeliveryLocks
<1>3. CASE Time     BY <1>3 DEF Time, L!Next
<1>4. CASE AllDone \/ UNCHANGED vars  BY <1>4 DEF AllDone, vars
<1> QED  BY <1>1, <1>2, <1>3, <1>4 DEF Next

\* The programs of the mailbox, seen from the lock alone, are an
\* implementation of MailLock.
THEOREM ImplementsLock == Spec => L!Safety
<1>1. Init => L!Init
  BY DEF Init
<1>2. [Next]_vars => [L!Next]_L!lockvars
  BY LockStep DEF lockvars, L!lockvars
<1> QED  BY <1>1, <1>2, PTL DEF Spec, L!Safety

-----------------------------------------------------------------------------
\* A lock step of one process moves that process only, to a place of lock().
LEMMA OwnPlace ==
  ASSUME PlaceTypes, NEW p \in Proc,
         \/ L!Enter(p) \/ L!Unlock(p) \/ L!UnlockAgain(p) \/ L!Abandon(p)
         \/ L!Try(p) \/ L!Exit(p) \/ L!Crash(p) \/ L!Start(p)
  PROVE  /\ lpc' \in [Proc -> L!Waiting \cup L!Between \cup {"out", "in", "failed", "dead"}]
         /\ \A q \in Proc \ {p} : lpc'[q] = lpc[q]
         /\ cut' \subseteq cut \cup {p}
         /\ L!Abandon(p) \/ cut' \subseteq cut
<1>1. \E v \in L!Waiting \cup L!Between \cup {"out", "in", "failed", "dead"} : lpc' = [lpc EXCEPT ![p] = v]
  <2> USE DEF L!Goto, L!Waiting, L!Between
  <2>1. CASE L!Enter(p)  BY <2>1 DEF L!Enter
  <2>2. CASE L!Unlock(p) \/ L!UnlockAgain(p) \/ L!Abandon(p)
    <3>1. lpc[p] \in L!Waiting \cup L!Between \cup {"out", "in", "failed", "dead"}
      BY DEF PlaceTypes
    <3> QED  BY <2>2, <3>1 DEF L!Unlock, L!UnlockAgain, L!Abandon, PlaceTypes
  <2>3. CASE L!Try(p)
    BY <2>3
    DEF L!Try, L!Link, L!Note, L!LinkExists, L!LinkFails, L!StatGone, L!StatFound, L!Break,
        L!Unnote
  <2>4. CASE L!Exit(p) \/ L!Crash(p)  BY <2>4 DEF L!Exit, L!Crash, L!Forget
  <2>5. CASE L!Start(p)  BY <2>5 DEF L!Start
  <2> QED  BY <2>1, <2>2, <2>3, <2>4, <2>5
<1>2. cut' \subseteq cut \cup {p} /\ (L!Abandon(p) \/ cut' \subseteq cut)
  BY DEF L!Enter, L!Try, L!Link, L!Note, L!LinkExists, L!LinkFails, L!StatGone, L!StatFound,
         L!Break, L!Unnote, L!Unlock, L!UnlockAgain, L!Abandon, L!Exit, L!Crash, L!Forget, L!Start
<1> QED  BY <1>1, <1>2 DEF PlaceTypes

\* A process that lock() has returned to takes no step of maillock() or of
\* mailunlock().
LEMMA HolderDoesNotTry == \A p \in Proc : L!Try(p) => lpc[p] # "in"
  BY DEF L!Try, L!Link, L!Note, L!LinkExists, L!LinkFails, L!StatGone, L!StatFound, L!Break,
         L!Unnote

\* Nobody is inside the mailbox at the start.
LEMMA PlaceInvInit == Init => PlaceInv
  BY DEF Init, L!Init, PlaceInv, PlaceTypes, PlacesHold, InMailbox, Proc

\* The session enters the states in which it writes the user's files from a
\* state in which it holds the lock, and leaves them when it unlocks.
LEMMA SessionPlaces == PlaceInv /\ Session => PlaceInv'
<1> SUFFICES ASSUME PlaceInv, Session PROVE PlaceInv'
  OBVIOUS
<1> USE Processes DEF PlaceInv
<1>1. /\ lpc' \in [Proc -> L!Waiting \cup L!Between \cup {"out", "in", "failed", "dead"}]
      /\ \A q \in Proc \ {Reader} : lpc'[q] = lpc[q]
      /\ dpc' = dpc
      /\ cut' \subseteq {Reader}
  <2>1. \/ L!Enter(Reader) \/ L!Unlock(Reader) \/ L!UnlockAgain(Reader) \/ L!Abandon(Reader)
        \/ L!Try(Reader) \/ L!Exit(Reader) \/ L!Crash(Reader) \/ L!Start(Reader)
        \/ lpc' = lpc /\ cut' = cut
    <3> USE DEF lockvars
    <3>1. CASE Restore
      BY <3>1 DEF Restore, CkStat, RestoreRename, RestoreFails, RestoreAppend, UnlinkSave
    <3>2. CASE Open \/ Load \/ Prompt \/ TakeIn \/ Interrupt
      BY <3>2
      DEF Open, Load, Prompt, TakeIn, NewMail, CloseNewMail, ReopenTmp, Interrupt,
          InterruptNewMail, BreakNewMail, InterruptLoaded, InterruptSized, InterruptReopen,
          ToPrompt, Mishap
    <3>3. CASE Command \/ Quit \/ ExitUnchanged
      BY <3>3 DEF Command, Quit, ExitUnchanged
    <3>4. CASE CopyBack
      BY <3>4
      DEF CopyBack, TakeNewMail, CreateSave, CopyLetter, UnlinkBox, RenameSave, Finish
    <3>5. CASE ReaderTry \/ ReaderExit \/ ReaderCrash \/ ReaderStart
      BY <3>5 DEF ReaderTry, ReaderExit, ReaderCrash, ReaderStart
    <3> QED  BY <3>1, <3>2, <3>3, <3>4, <3>5 DEF Session
  <2>2. dpc' = dpc
    <3> USE DEF dvars, rvars
    <3>1. CASE Restore
      BY <3>1 DEF Restore, CkStat, RestoreRename, RestoreFails, RestoreAppend, UnlinkSave
    <3>2. CASE Open \/ Load \/ Prompt \/ TakeIn \/ Interrupt
      BY <3>2
      DEF Open, Load, Prompt, TakeIn, NewMail, CloseNewMail, ReopenTmp, Interrupt,
          InterruptNewMail, BreakNewMail, InterruptLoaded, InterruptSized, InterruptReopen,
          ToPrompt, Mishap
    <3>3. CASE Command \/ Quit \/ ExitUnchanged
      BY <3>3 DEF Command, Quit, ExitUnchanged
    <3>4. CASE CopyBack
      BY <3>4
      DEF CopyBack, TakeNewMail, CreateSave, CopyLetter, UnlinkBox, RenameSave, Finish
    <3>5. CASE ReaderTry \/ ReaderExit \/ ReaderCrash \/ ReaderStart
      BY <3>5 DEF ReaderTry, ReaderExit, ReaderCrash, ReaderStart, ReaderGone
    <3> QED  BY <3>1, <3>2, <3>3, <3>4, <3>5 DEF Session
  <2> QED  BY <2>1, <2>2, OwnPlace DEF PlaceTypes
<1>2. /\ rpc' \in InMailbox \cup {"loaded"} => lpc'[Reader] = "in"
      /\ rpc' = "newmail" => lpc'[Reader] # "removed"
  <2> USE DEF PlacesHold, InMailbox, At, lockvars, rvars
  <2>1. CASE Restore
    BY <2>1 DEF Restore, CkStat, RestoreRename, RestoreFails, RestoreAppend, UnlinkSave, L!Holds
  <2>2. CASE Open \/ Load \/ Prompt \/ TakeIn \/ Interrupt
    <3>1. L!Enter(Reader) => lpc'[Reader] \in {"in", "link"}
      BY DEF L!Enter, L!Goto, PlaceTypes
    <3> QED
      BY <2>2, <3>1
      DEF Open, Load, Prompt, TakeIn, NewMail, CloseNewMail, ReopenTmp, Interrupt,
          InterruptNewMail, BreakNewMail, InterruptLoaded, InterruptSized, InterruptReopen,
          ToPrompt, Mishap, L!Holds
  <2>3. CASE Command \/ Quit \/ ExitUnchanged
    BY <2>3 DEF Command, Quit, ExitUnchanged
  <2>4. CASE CopyBack
    BY <2>4
    DEF CopyBack, TakeNewMail, CreateSave, CopyLetter, UnlinkBox, RenameSave, Finish, L!Holds
  <2>5. CASE ReaderTry
    <3>1. lpc[Reader] # "in" /\ lpc'[Reader] # "removed" /\ rpc' = rpc
      BY <2>5, HolderDoesNotTry
      DEF ReaderTry, L!Try, L!Link, L!Note, L!LinkExists, L!LinkFails, L!StatGone, L!StatFound,
          L!Break, L!Unnote, L!Goto, PlaceTypes
    <3> QED  BY <3>1
  <2>6. CASE ReaderExit \/ ReaderCrash \/ ReaderStart
    BY <2>6 DEF ReaderExit, ReaderCrash, ReaderStart, ReaderGone
  <2> QED  BY <2>1, <2>2, <2>3, <2>4, <2>5, <2>6 DEF Session
<1>3. \A d \in Deliverer : dpc'[d] \in {"append", "unlock"} => lpc'[d] = "in"
  BY <1>1 DEF PlacesHold
<1> QED  BY <1>1, <1>2, <1>3 DEF PlaceTypes, PlacesHold

\* A delivery enters the append with the lock and leaves it with mailunlock().
LEMMA DeliveryPlaces ==
  ASSUME PlaceInv, NEW d \in Deliverer, Delivery(d)
  PROVE  PlaceInv'
<1> USE Processes DEF PlaceInv
<1>1. /\ lpc' \in [Proc -> L!Waiting \cup L!Between \cup {"out", "in", "failed", "dead"}]
      /\ \A q \in Proc \ {d} : lpc'[q] = lpc[q]
      /\ cut' \subseteq {Reader}
  <2>1. \/ L!Enter(d) \/ L!Unlock(d) \/ L!UnlockAgain(d)
        \/ L!Try(d) \/ L!Exit(d) \/ L!Crash(d)
        \/ lpc' = lpc /\ cut' = cut
    BY DEF Delivery, DeliveryStart, DeliveryTry, OpenBox, AppendLetter, DeliveryUnlock,
           DeliveryExit, DeliveryCrash, lockvars
  <2>2. cut' \subseteq cut
    BY <2>1
    DEF L!Enter, L!Try, L!Link, L!Note, L!LinkExists, L!LinkFails, L!StatGone, L!StatFound,
        L!Break, L!Unnote, L!Unlock, L!UnlockAgain, L!Exit, L!Crash, L!Forget
  <2> QED  BY <2>1, <2>2, OwnPlace DEF PlaceTypes
<1>2. rpc' = rpc
  BY DEF Delivery, DeliveryStart, DeliveryTry, OpenBox, AppendLetter, DeliveryUnlock,
         DeliveryExit, DeliveryCrash, rvars
<1>3. \E s \in {"start", "wait", "append", "unlock", "again", "bye", "done"} :
        dpc' = [dpc EXCEPT ![d] = s]
  <2> USE DEF Becomes, dvars
  <2>1. CASE DeliveryStart(d) \/ OpenBox(d) \/ AppendLetter(d) \/ DeliveryUnlock(d)
    BY <2>1 DEF DeliveryStart, OpenBox, AppendLetter, DeliveryUnlock
  <2>2. CASE DeliveryExit(d) \/ DeliveryCrash(d)
    BY <2>2 DEF DeliveryExit, DeliveryCrash
  <2>3. CASE DeliveryTry(d)
    <3>1. dpc' = dpc  BY <2>3 DEF DeliveryTry
    <3>2. dpc[d] \in {"start", "wait", "append", "unlock", "again", "bye", "done"}
      BY DEF PlaceTypes
    <3> QED  BY <3>1, <3>2 DEF PlaceTypes
  <2> QED  BY <2>1, <2>2, <2>3 DEF Delivery
<1>4. dpc'[d] \in {"append", "unlock"} => lpc'[d] = "in"
  <2> USE DEF PlacesHold, PlaceTypes, Becomes, lockvars
  <2>1. CASE DeliveryStart(d)  BY <2>1 DEF DeliveryStart
  <2>2. CASE DeliveryTry(d)
    BY <2>2, HolderDoesNotTry DEF DeliveryTry, dvars
  <2>3. CASE OpenBox(d)  BY <2>3 DEF OpenBox, L!Holds
  <2>4. CASE AppendLetter(d)  BY <2>4 DEF AppendLetter
  <2>5. CASE DeliveryUnlock(d)  BY <2>5 DEF DeliveryUnlock
  <2>6. CASE DeliveryExit(d) \/ DeliveryCrash(d)
    BY <2>6 DEF DeliveryExit, DeliveryCrash
  <2> QED  BY <2>1, <2>2, <2>3, <2>4, <2>5, <2>6 DEF Delivery
<1>5. \A e \in Deliverer \ {d} : dpc'[e] = dpc[e] /\ lpc'[e] = lpc[e]
  BY <1>1, <1>3 DEF PlaceTypes
<1>6. lpc'[Reader] = lpc[Reader]
  BY <1>1
<1> QED  BY <1>1, <1>2, <1>3, <1>4, <1>5, <1>6 DEF PlaceTypes, PlacesHold

\* Every step keeps the places.
LEMMA PlaceInvStep == PlaceInv /\ [Next]_vars => PlaceInv'
<1> SUFFICES ASSUME PlaceInv, [Next]_vars PROVE PlaceInv'
  OBVIOUS
<1>1. CASE Session  BY <1>1, SessionPlaces
<1>2. ASSUME NEW d \in Deliverer, Delivery(d) PROVE PlaceInv'
  BY <1>2, DeliveryPlaces
<1>3. CASE Time
  BY <1>3 DEF Time, L!Tick, rvars, dvars, PlaceInv, PlaceTypes, PlacesHold
<1>4. CASE AllDone \/ UNCHANGED vars
  BY <1>4 DEF AllDone, vars, lockvars, rvars, dvars, PlaceInv, PlaceTypes, PlacesHold
<1> QED  BY <1>1, <1>2, <1>3, <1>4 DEF Next

\* The constants of the mailbox are constants MailLock allows.
LEMMA LockConstantsHold == L!LockAssumption
  BY LockConstants DEF L!LockAssumption

\* The two instances of the lock, Mailbox's and the proofs', are one.
LEMMA SameLock == [L!Next]_lockvars => [LP!Next]_LP!lockvars
<1>1. ASSUME NEW p \in Proc
      PROVE  /\ L!Enter(p) => LP!Enter(p)
             /\ L!Try(p) => LP!Try(p)
             /\ L!Unlock(p) => LP!Unlock(p)
             /\ L!UnlockAgain(p) => LP!UnlockAgain(p)
             /\ L!Abandon(p) => LP!Abandon(p)
             /\ L!Exit(p) => LP!Exit(p)
             /\ L!Crash(p) => LP!Crash(p)
             /\ L!Start(p) => LP!Start(p)
  <2> USE DEF L!Goto, LP!Goto, L!RemoveName, LP!RemoveName, L!Forget, LP!Forget,
              L!Waiting, LP!Waiting, L!Between, LP!Between
  <2>1. L!Enter(p) => LP!Enter(p)  BY DEF L!Enter, LP!Enter
  <2>2. L!Try(p) => LP!Try(p)
    <3>1. L!Link(p) => LP!Link(p)              BY DEF L!Link, LP!Link
    <3>2. L!LinkExists(p) => LP!LinkExists(p)  BY DEF L!LinkExists, LP!LinkExists
    <3>3. L!LinkFails(p) => LP!LinkFails(p)    BY DEF L!LinkFails, LP!LinkFails
    <3>4. L!StatGone(p) => LP!StatGone(p)      BY DEF L!StatGone, LP!StatGone
    <3>5. L!StatFound(p) => LP!StatFound(p)    BY DEF L!StatFound, LP!StatFound
    <3>6. L!Break(p) => LP!Break(p)            BY DEF L!Break, LP!Break
    <3>7. L!Note(p) => LP!Note(p)              BY DEF L!Note, LP!Note
    <3>8. L!Unnote(p) => LP!Unnote(p)          BY DEF L!Unnote, LP!Unnote
    <3> QED
      BY <3>1, <3>2, <3>3, <3>4, <3>5, <3>6, <3>7, <3>8 DEF L!Try, LP!Try
  <2>3. L!Unlock(p) => LP!Unlock(p)            BY DEF L!Unlock, LP!Unlock
  <2>4. L!UnlockAgain(p) => LP!UnlockAgain(p)  BY DEF L!UnlockAgain, LP!UnlockAgain
  <2>5. L!Abandon(p) => LP!Abandon(p)          BY DEF L!Abandon, LP!Abandon
  <2>6. L!Exit(p) => LP!Exit(p)                BY DEF L!Exit, LP!Exit
  <2>7. L!Crash(p) => LP!Crash(p)              BY DEF L!Crash, LP!Crash
  <2>8. L!Start(p) => LP!Start(p)              BY DEF L!Start, LP!Start
  <2> QED  BY <2>1, <2>2, <2>3, <2>4, <2>5, <2>6, <2>7, <2>8
<1>2. L!Tick => LP!Tick  BY DEF L!Tick, LP!Tick
<1>3. UNCHANGED lockvars => UNCHANGED LP!lockvars  BY DEF lockvars, LP!lockvars
<1> QED  BY <1>1, <1>2, <1>3 DEF L!Next, LP!Next

\* The inductive invariant of the lock holds in the mailbox.
LEMMA LockInvHolds == Spec => []LP!LockInv
<1>1. Init => LP!LockInv
  BY LockConstantsHold, LP!LockInvInit DEF Init, L!Init, LP!Init
<1>2. LP!LockInv /\ [Next]_vars => LP!LockInv'
  BY LockConstantsHold, LP!LockInvStep, LockStep, SameLock
<1> QED  BY <1>1, <1>2, PTL DEF Spec

\* What the lock promises its users follows from it.
LEMMA LockInvExcludes == LP!LockInv => L!Exclusion
  BY DEF LP!LockInv, LP!HolderOwnsFile, L!Exclusion, LP!Holds, L!Holds, LP!Waiting

\* For any number of deliveries: as long as no live owner's lock is removed and
\* no interrupt has cut the session's flag off from its lock, the mailbox and
\* the save file are written by one process at a time, so no delivery appends
\* to a mailbox that copyback is replacing.
THEOREM RewriteAlone == Spec => []NoDeliveryDuringRewrite
<1>1. Spec => []PlaceInv
  BY PlaceInvInit, PlaceInvStep, PTL DEF Spec
<1>2. Spec => []LP!LockInv
  BY LockInvHolds
<1>3. LP!LockInv => L!Exclusion
  BY LockInvExcludes
<1>4. PlaceInv /\ L!Exclusion => NoDeliveryDuringRewrite
  BY Processes
  DEF PlaceInv, PlaceTypes, PlacesHold, L!Exclusion, L!Holds, NoDeliveryDuringRewrite
<1> QED  BY <1>1, <1>2, <1>3, <1>4, PTL

\* An interrupt cuts the flag off from the file while it is not set, or it is a
\* mishap.
CutInv == mishaps = {} /\ Reader \in cut => ~locked[Reader]

\* A mishap is not forgotten.
LEMMA MishapsStay == [Next]_vars => mishaps \subseteq mishaps'
<1> SUFFICES ASSUME [Next]_vars PROVE mishaps \subseteq mishaps'
  OBVIOUS
<1> USE DEF history
<1>1. CASE Restore
  BY <1>1 DEF Restore, CkStat, RestoreRename, RestoreFails, RestoreAppend, UnlinkSave
<1>2. CASE Open \/ Load \/ Prompt \/ TakeIn \/ Interrupt \/ Command \/ Quit \/ ExitUnchanged
  BY <1>2
  DEF Open, Load, Prompt, TakeIn, NewMail, CloseNewMail, ReopenTmp, Interrupt,
      InterruptNewMail, BreakNewMail, InterruptLoaded, InterruptSized, InterruptReopen,
      ToPrompt, Mishap, Command, Quit, ExitUnchanged
<1>3. CASE CopyBack
  BY <1>3 DEF CopyBack, TakeNewMail, CreateSave, CopyLetter, UnlinkBox, RenameSave, Finish
<1>4. CASE ReaderTry \/ ReaderExit \/ ReaderCrash \/ ReaderStart
  BY <1>4 DEF ReaderTry, ReaderExit, ReaderCrash, ReaderStart, ReaderGone
<1>5. CASE \E d \in Deliverer : Delivery(d)
  BY <1>5
  DEF Delivery, DeliveryStart, DeliveryTry, OpenBox, AppendLetter, DeliveryUnlock,
      DeliveryExit, DeliveryCrash
<1>6. CASE Time \/ AllDone \/ UNCHANGED vars
  BY <1>6 DEF Time, AllDone, vars
<1> QED  BY <1>1, <1>2, <1>3, <1>4, <1>5, <1>6 DEF Next, Session

\* A step of the lock that abandons nothing for the session neither cuts it off
\* nor sets the flag of one that is cut off.
LEMMA FlagStays ==
  ASSUME LP!TypeOK, CutInv, mishaps \subseteq mishaps',
         \/ UNCHANGED lockvars
         \/ L!Tick
         \/ \E p \in Proc : \/ L!Enter(p) \/ L!Unlock(p) \/ L!UnlockAgain(p) \/ L!Try(p)
                            \/ L!Exit(p) \/ L!Crash(p) \/ L!Start(p)
  PROVE  CutInv'
<1> USE Processes DEF CutInv, LP!TypeOK
<1>1. CASE UNCHANGED lockvars \/ L!Tick
  BY <1>1 DEF lockvars, L!Tick
<1>2. ASSUME NEW p \in Proc, L!Try(p) PROVE CutInv'
  <2>1. CASE L!Note(p) \/ L!Unnote(p)
    BY <2>1 DEF L!Note, L!Unnote
  <2>2. (locked' = locked /\ cut' = cut) \/ L!Note(p) \/ L!Unnote(p)
    BY <1>2 DEF L!Try, L!Link, L!LinkExists, L!LinkFails, L!StatGone, L!StatFound, L!Break
  <2> QED  BY <2>1, <2>2
<1>3. ASSUME NEW p \in Proc, L!Exit(p) \/ L!Crash(p) PROVE CutInv'
  BY <1>3 DEF L!Exit, L!Crash, L!Forget
<1>4. ASSUME NEW p \in Proc,
             L!Enter(p) \/ L!Unlock(p) \/ L!UnlockAgain(p) \/ L!Start(p)
      PROVE  CutInv'
  BY <1>4 DEF L!Enter, L!Unlock, L!UnlockAgain, L!Start
<1> QED  BY <1>1, <1>2, <1>3, <1>4

\* The session leaves lock() in the middle where its flag is not set, or holds
\* the lock, or records a mishap.
LEMMA AbandonCuts ==
  ASSUME LP!LockInv, PlaceInv, CutInv, Session, L!Abandon(Reader), mishaps' = {}
  PROVE  Reader \in cut' => ~locked'[Reader]
<1> USE Processes DEF L!Abandon, L!Between
<1>1. mishaps = {}
  BY MishapsStay DEF Next
<1>2. locked' = locked
  OBVIOUS
<1>3. CASE lpc[Reader] # "removed"
  <2>1. lpc[Reader] = "linked" => ~locked[Reader]
    BY DEF LP!LockInv, LP!HolderOwnsFile
  <2>2. Reader \in cut' => Reader \in cut \/ lpc[Reader] = "linked"
    BY <1>3
  <2> QED  BY <1>1, <1>2, <2>1, <2>2 DEF CutInv
<1>4. CASE lpc[Reader] = "removed"
  <2>1. rpc \notin InMailbox \cup {"loaded", "newmail"}
    BY <1>4 DEF PlaceInv, PlacesHold
  <2>2. lpc' # lpc
    BY <1>4 DEF L!Goto, PlaceInv, PlaceTypes
  <2> USE DEF At, InMailbox
  <2>3. ~Restore
    BY <1>4, <2>1, <2>2
    DEF Restore, CkStat, RestoreRename, RestoreFails, RestoreAppend, UnlinkSave, L!Enter,
        L!Unlock, L!Holds, lockvars
  <2>4. ~(Open \/ Load \/ Prompt \/ TakeIn \/ Interrupt)
    BY <1>1, <1>4, <2>1, <2>2
    DEF Open, Load, Prompt, TakeIn, NewMail, CloseNewMail, ReopenTmp, Interrupt,
        InterruptNewMail, BreakNewMail, InterruptLoaded, InterruptSized, InterruptReopen,
        ToPrompt, Mishap, L!Enter, L!Unlock, L!Holds, lockvars
  <2>5. ~(Command \/ Quit \/ ExitUnchanged)
    BY <1>4, <2>2 DEF Command, Quit, ExitUnchanged, L!Enter, lockvars
  <2>6. ~CopyBack
    BY <1>4, <2>1, <2>2
    DEF CopyBack, TakeNewMail, CreateSave, CopyLetter, UnlinkBox, RenameSave, Finish, L!Unlock,
        L!Holds, lockvars
  <2>7. CASE ReaderTry \/ ReaderExit \/ ReaderCrash \/ ReaderStart
    <3>1. L!Unnote(Reader) \/ L!Exit(Reader) \/ L!Crash(Reader)
      BY <1>4, <2>7
      DEF ReaderTry, ReaderExit, ReaderCrash, ReaderStart, L!Start, L!Try, L!Link, L!Note,
          L!LinkExists, L!LinkFails, L!StatGone, L!StatFound, L!Break
    <3>2. Reader \notin cut'
      BY <3>1 DEF L!Unnote, L!Exit, L!Crash, L!Forget
    <3> QED  BY <3>2
  <2> QED  BY <2>3, <2>4, <2>5, <2>6, <2>7 DEF Session
<1> QED  BY <1>3, <1>4

\* Every step keeps the flag of a session that was cut off clear, or counts.
LEMMA CutInvStep == LP!LockInv /\ PlaceInv /\ CutInv /\ [Next]_vars => CutInv'
<1> SUFFICES ASSUME LP!LockInv, PlaceInv, CutInv, [Next]_vars PROVE CutInv'
  OBVIOUS
<1>1. LP!TypeOK /\ mishaps \subseteq mishaps'
  BY MishapsStay DEF LP!LockInv
<1>2. CASE UNCHANGED lockvars
  BY <1>1, <1>2, FlagStays
<1>3. CASE Session
  <2>1. \/ UNCHANGED lockvars
        \/ L!Enter(Reader) \/ L!Unlock(Reader) \/ L!Abandon(Reader) \/ L!Try(Reader)
        \/ L!Exit(Reader) \/ L!Crash(Reader) \/ L!Start(Reader)
    <3> USE DEF lockvars
    <3>1. CASE Restore
      BY <3>1 DEF Restore, CkStat, RestoreRename, RestoreFails, RestoreAppend, UnlinkSave
    <3>2. CASE Open \/ Load \/ Prompt \/ TakeIn \/ Interrupt
      BY <3>2
      DEF Open, Load, Prompt, TakeIn, NewMail, CloseNewMail, ReopenTmp, Interrupt,
          InterruptNewMail, BreakNewMail, InterruptLoaded, InterruptSized, InterruptReopen,
          ToPrompt
    <3>3. CASE Command \/ Quit \/ ExitUnchanged
      BY <3>3 DEF Command, Quit, ExitUnchanged
    <3>4. CASE CopyBack
      BY <3>4 DEF CopyBack, TakeNewMail, CreateSave, CopyLetter, UnlinkBox, RenameSave, Finish
    <3>5. CASE ReaderTry \/ ReaderExit \/ ReaderCrash \/ ReaderStart
      BY <3>5 DEF ReaderTry, ReaderExit, ReaderCrash, ReaderStart
    <3> QED  BY <1>3, <3>1, <3>2, <3>3, <3>4, <3>5 DEF Session
  <2>2. CASE L!Abandon(Reader)
    BY <1>3, <2>2, AbandonCuts DEF CutInv
  <2> QED  BY <1>1, <2>1, <2>2, FlagStays, Processes
<1>4. ASSUME NEW d \in Deliverer, Delivery(d) PROVE CutInv'
  <2>1. \/ UNCHANGED lockvars
        \/ L!Enter(d) \/ L!Unlock(d) \/ L!UnlockAgain(d) \/ L!Try(d) \/ L!Exit(d) \/ L!Crash(d)
    BY <1>4
    DEF Delivery, DeliveryStart, DeliveryTry, OpenBox, AppendLetter, DeliveryUnlock,
        DeliveryExit, DeliveryCrash
  <2> QED  BY <1>1, <2>1, FlagStays, Processes
<1>5. CASE Time
  BY <1>1, <1>5, FlagStays DEF Time
<1>6. CASE AllDone \/ UNCHANGED vars
  BY <1>2, <1>6 DEF AllDone, vars
<1> QED  BY <1>3, <1>4, <1>5, <1>6 DEF Next

\* It holds in every reachable state.
LEMMA CutInvHolds == Spec => []CutInv
<1>1. Init => CutInv
  BY DEF Init, L!Init, CutInv
<1>2. Spec => []PlaceInv
  BY PlaceInvInit, PlaceInvStep, PTL DEF Spec
<1>3. Spec => []LP!LockInv
  BY LockInvHolds
<1> QED  BY <1>1, <1>2, <1>3, CutInvStep, PTL DEF Spec

-----------------------------------------------------------------------------
(* Files and the table of letters *)

Contents == Seq(Letter \cup {Torn})

\* The letters that are whole in a file.
Letters(f) == IF f = NoFile THEN {} ELSE Range(f) \ {Torn}

-----------------------------------------------------------------------------
\* The smaller of two numbers, as the table's operators ask for it.
LEMMA MinOfTwo ==
  ASSUME NEW m \in Nat, NEW n \in Nat
  PROVE  Min({m, n}) = IF m <= n THEN m ELSE n
<1> DEFINE k == IF m <= n THEN m ELSE n
<1>1. k \in {m, n} /\ \A y \in {m, n} : k <= y
  OBVIOUS
<1>2. \A x \in {m, n} : (\A y \in {m, n} : x <= y) => x = k
  OBVIOUS
<1> QED  BY <1>1, <1>2 DEF Min

\* A file that is there is a sequence, and its letters are letters.
LEMMA FileLetters ==
  ASSUME NEW f \in Contents
  PROVE  /\ f # NoFile
         /\ Letters(f) = {f[i] : i \in 1..Len(f)} \ {Torn}
         /\ Letters(f) \subseteq Letter
<1>1. f # NoFile
  BY MailboxAssumption DEF Contents
<1>2. DOMAIN f = 1..Len(f) /\ \A i \in 1..Len(f) : f[i] \in Letter \cup {Torn}
  BY LenProperties, ElementOfSeq DEF Contents
<1> QED  BY <1>1, <1>2 DEF Letters, Range

\* One file behind another has the letters of both.
LEMMA ConcatLetters ==
  ASSUME NEW s \in Contents, NEW t \in Contents
  PROVE  /\ s \o t \in Contents
         /\ Len(s \o t) = Len(s) + Len(t)
         /\ Letters(s \o t) = Letters(s) \cup Letters(t)
<1>1. /\ s \o t \in Contents
      /\ Len(s) \in Nat /\ Len(t) \in Nat
      /\ Len(s \o t) = Len(s) + Len(t)
      /\ \A i \in 1..(Len(s) + Len(t)) :
           (s \o t)[i] = IF i <= Len(s) THEN s[i] ELSE t[i - Len(s)]
  BY ConcatProperties, LenProperties DEF Contents
<1>2. {(s \o t)[i] : i \in 1..Len(s \o t)}
        = {s[i] : i \in 1..Len(s)} \cup {t[i] : i \in 1..Len(t)}
  <2>1. ASSUME NEW i \in 1..(Len(s) + Len(t))
        PROVE  (s \o t)[i] \in {s[j] : j \in 1..Len(s)} \cup {t[j] : j \in 1..Len(t)}
    BY <1>1
  <2>2. \A i \in 1..Len(s) : i \in 1..(Len(s) + Len(t)) /\ (s \o t)[i] = s[i]
    BY <1>1
  <2>3. \A i \in 1..Len(t) : /\ i + Len(s) \in 1..(Len(s) + Len(t))
                             /\ (s \o t)[i + Len(s)] = t[i]
    BY <1>1
  <2> DEFINE A == {(s \o t)[i] : i \in 1..Len(s \o t)}
             B == {s[i] : i \in 1..Len(s)}
             C == {t[i] : i \in 1..Len(t)}
  <2>4. A \subseteq B \cup C  BY <1>1, <2>1
  <2>5. B \subseteq A          BY <1>1, <2>2
  <2>6. C \subseteq A          BY <1>1, <2>3
  <2> QED  BY <2>4, <2>5, <2>6
<1> QED  BY <1>1, <1>2, FileLetters

\* A part of a file has letters of the file, and only these.
LEMMA PartLetters ==
  ASSUME NEW s \in Contents, NEW m \in Nat, NEW n \in Nat, m >= 1, n <= Len(s)
  PROVE  /\ SubSeq(s, m, n) \in Contents
         /\ Len(SubSeq(s, m, n)) = IF m <= n THEN n - m + 1 ELSE 0
         /\ \A i \in 1..(n - m + 1) : SubSeq(s, m, n)[i] = s[m + i - 1]
         /\ Letters(SubSeq(s, m, n)) \subseteq Letters(s)
<1>1. Len(s) \in Nat /\ \A i \in m..n : s[i] \in Letter \cup {Torn}
  BY LenProperties, ElementOfSeq DEF Contents
<1>2. /\ SubSeq(s, m, n) \in Contents
      /\ Len(SubSeq(s, m, n)) = IF m <= n THEN n - m + 1 ELSE 0
      /\ \A i \in 1..(n - m + 1) : SubSeq(s, m, n)[i] = s[m + i - 1]
  BY <1>1, SubSeqProperties DEF Contents
<1>3. \A i \in 1..Len(SubSeq(s, m, n)) : SubSeq(s, m, n)[i] \in {s[j] : j \in 1..Len(s)}
  BY <1>1, <1>2
<1>4. Letters(s) = {s[j] : j \in 1..Len(s)} \ {Torn}
  BY FileLetters
<1>5. Letters(SubSeq(s, m, n)) = {SubSeq(s, m, n)[j] : j \in 1..Len(SubSeq(s, m, n))} \ {Torn}
  BY <1>2, FileLetters
<1>6. Letters(SubSeq(s, m, n)) \subseteq Letters(s)
  BY <1>3, <1>4, <1>5
<1> QED  BY <1>2, <1>6

\* One more letter, or a torn one.
LEMMA AppendLetters ==
  ASSUME NEW s \in Contents, NEW x \in Letter \cup {Torn}
  PROVE  /\ Append(s, x) \in Contents
         /\ Append(s, x) = s \o <<x>>
         /\ Len(Append(s, x)) = Len(s) + 1
         /\ \A i \in 1..Len(s) : Append(s, x)[i] = s[i]
         /\ Letters(Append(s, x)) = Letters(s) \cup ({x} \ {Torn})
<1>1. <<x>> \in Contents
  BY DEF Contents
<1>2. Append(s, x) = s \o <<x>>
  BY DEF Contents
<1>3. Letters(<<x>>) = {x} \ {Torn}
  BY <1>1, FileLetters
<1>4. /\ Append(s, x) \in Contents
      /\ Len(Append(s, x)) = Len(s) + 1
      /\ \A i \in 1..Len(s) : Append(s, x)[i] = s[i]
  BY DEF Contents
<1> QED  BY <1>1, <1>2, <1>3, <1>4, ConcatLetters

\* A table of letters.
Table(a) ==
    /\ a \in Seq(Nat)
    /\ Len(a) \in 1..(MaxLet + 1)
    /\ a[1] = 0

\* The table of a longer file is at least as long as before, and its last
\* address is as much further as the file is longer.
LEMMA ExtendTable ==
  ASSUME NEW n \in Nat, NEW a, Table(a)
  PROVE  /\ Table(Extend(a, n))
         /\ Len(a) <= Len(Extend(a, n))
         /\ Last(Extend(a, n)) = Last(a) + n
<1> DEFINE room == MaxLet - (Len(a) - 1)
           k == Min({n, room})
           more == [i \in 1..k |-> Last(a) + i]
           all == a \o more
<1>1. a \in Seq(Nat) /\ Len(a) \in 1..(MaxLet + 1) /\ Last(a) \in Nat
  BY DEF Table, Last
<1>2. MaxLet \in Nat \ {0} /\ room \in Nat /\ room + Len(a) = MaxLet + 1
  BY <1>1, MailboxAssumption
<1>3. k \in Nat /\ k <= n /\ k <= room /\ (k = 0 => n = 0 \/ room = 0)
  BY <1>2, MinOfTwo
<1> HIDE DEF k, room
<1>4. more \in Seq(Nat) /\ Len(more) = k /\ \A i \in 1..k : more[i] = Last(a) + i
  BY <1>1, <1>3
<1> HIDE DEF more
<1>5. /\ all \in Seq(Nat) /\ Len(all) = Len(a) + k
      /\ \A i \in 1..(Len(a) + k) : all[i] = IF i <= Len(a) THEN a[i] ELSE more[i - Len(a)]
  BY <1>1, <1>3, <1>4, ConcatProperties
<1> HIDE DEF all
<1>6. Extend(a, n) = [all EXCEPT ![Len(all)] = Last(a) + n]
  BY DEF Extend, all, more, k, room
<1>7. Len(all) \in 1..(MaxLet + 1) /\ Len(all) = Len(a) + k /\ Len(a) <= Len(all)
  BY <1>1, <1>2, <1>3, <1>5
<1>8. /\ Extend(a, n) \in Seq(Nat)
      /\ Len(Extend(a, n)) = Len(all)
      /\ \A i \in 1..Len(all) : Extend(a, n)[i] = IF i = Len(all) THEN Last(a) + n ELSE all[i]
  BY <1>1, <1>5, <1>6, <1>7, ExceptSeq
<1>9. Last(Extend(a, n)) = Last(a) + n
  BY <1>7, <1>8 DEF Last
<1>10. Extend(a, n)[1] = 0
  <2>1. a[1] = 0  BY DEF Table
  <2>2. CASE Len(all) = 1
    <3>a. Len(a) + k = 1
      BY <1>7, <2>2
    <3>b. Len(a) \in Nat /\ Len(a) >= 1 /\ k \in Nat
      BY <1>1, <1>2, <1>3
    <3>1. k = 0
      BY <3>a, <3>b
    <3>2. Len(a) <= 1
      BY <3>a, <3>b
    <3>3. Last(a) = 0
      BY <1>1, <2>1, <3>2 DEF Last
    <3>4. n = 0
      BY <1>1, <1>2, <1>3, <3>1, <3>2
    <3> QED  BY <1>8, <2>2, <3>3, <3>4
  <2>3. CASE Len(all) # 1
    BY <1>1, <1>5, <1>7, <1>8, <2>1, <2>3
  <2> QED  BY <2>2, <2>3
<1> QED  BY <1>7, <1>8, <1>9, <1>10 DEF Table

\* What an interrupt leaves is a table, with a last address that is no further.
LEMMA BrokenTable ==
  ASSUME NEW j \in Nat, NEW a, Table(a)
  PROVE  /\ Table(Broken(a, j))
         /\ Len(a) <= Len(Broken(a, j))
         /\ Last(Broken(a, j)) <= Last(a)
<1> DEFINE room == MaxLet - (Len(a) - 1)
           k == Min({j, room - 1})
           more == [i \in 1..k |-> Last(a) + i]
<1>1. a \in Seq(Nat) /\ Len(a) \in 1..(MaxLet + 1) /\ Last(a) \in Nat
  BY DEF Table, Last
<1>2. MaxLet \in Nat \ {0} /\ room \in Nat /\ room + Len(a) = MaxLet + 1
  BY <1>1, MailboxAssumption
<1> HIDE DEF room
<1>3. CASE room = 0
  <2>1. Broken(a, j) = a  BY <1>3 DEF Broken, room
  <2> QED  BY <1>1, <2>1
<1>4. CASE room # 0
  <2>1. k \in Nat /\ k <= j /\ k <= room - 1
    BY <1>2, <1>4, MinOfTwo
  <2> HIDE DEF k
  <2>2. more \in Seq(Nat) /\ Len(more) = k /\ \A i \in 1..k : more[i] = Last(a) + i
    BY <1>1, <2>1
  <2> HIDE DEF more
  <2>3. Broken(a, j) = (a \o more) \o <<0>>
    BY <1>4 DEF Broken, more, k, room
  <2>4. /\ a \o more \in Seq(Nat) /\ Len(a \o more) = Len(a) + k
        /\ \A i \in 1..(Len(a) + k) :
             (a \o more)[i] = IF i <= Len(a) THEN a[i] ELSE more[i - Len(a)]
    BY <1>1, <2>1, <2>2, ConcatProperties
  <2> DEFINE all == a \o more
  <2> HIDE DEF all
  <2>5. /\ all \o <<0>> \in Seq(Nat)
        /\ Len(all \o <<0>>) = Len(a) + k + 1
        /\ \A i \in 1..(Len(a) + k) : (all \o <<0>>)[i] = all[i]
        /\ (all \o <<0>>)[Len(a) + k + 1] = 0
    <3>1. all \in Seq(Nat) /\ <<0>> \in Seq(Nat) /\ Len(<<0>>) = 1 /\ Len(all) = Len(a) + k
      BY <2>4 DEF all
    <3>2. all \o <<0>> = Append(all, 0)
      BY <3>1
    <3>3. /\ Append(all, 0) \in Seq(Nat)
          /\ Len(Append(all, 0)) = Len(all) + 1
          /\ \A i \in 1..Len(all) : Append(all, 0)[i] = all[i]
          /\ Append(all, 0)[Len(all) + 1] = 0
      BY <3>1
    <3> QED  BY <3>1, <3>2, <3>3
  <2>6. Broken(a, j) = all \o <<0>>
    BY <2>3 DEF all
  <2>7. Len(Broken(a, j)) \in 1..(MaxLet + 1) /\ Len(a) <= Len(Broken(a, j))
    <3>1. Len(Broken(a, j)) = Len(a) + k + 1
      BY <2>5, <2>6
    <3>2. Len(a) \in Nat /\ Len(a) >= 1
      BY <1>1, <1>2
    <3> QED  BY <1>2, <2>1, <3>1, <3>2
  <2>8. Broken(a, j)[1] = 0
    BY <1>1, <2>1, <2>4, <2>5, <2>6 DEF Table, all
  <2>9. Last(Broken(a, j)) = 0
    BY <2>5, <2>6 DEF Last
  <2> QED  BY <1>1, <2>5, <2>6, <2>7, <2>8, <2>9 DEF Table
<1> QED  BY <1>3, <1>4

\* One more address.
LEMMA AppendTable ==
  ASSUME NEW a, Table(a), Len(a) <= MaxLet, NEW x \in Nat
  PROVE  /\ Table(Append(a, x))
         /\ Len(Append(a, x)) = Len(a) + 1
         /\ Last(Append(a, x)) = x
<1>1. a \in Seq(Nat) /\ Len(a) \in Nat \ {0}
  BY DEF Table
<1>2. /\ Append(a, x) \in Seq(Nat)
      /\ Len(Append(a, x)) = Len(a) + 1
      /\ \A i \in 1..Len(a) : Append(a, x)[i] = a[i]
      /\ Append(a, x)[Len(a) + 1] = x
  BY <1>1
<1> QED  BY <1>1, <1>2, MailboxAssumption DEF Table, Last

-----------------------------------------------------------------------------
\* A letter of the table is a part of the temporary file.
LEMMA ChunkLetters ==
  ASSUME tmp \in Contents, Table(adr), NEW i \in 1..nlet
  PROVE  Chunk(i) \in Contents /\ Letters(Chunk(i)) \subseteq Letters(tmp)
<1>1. adr[i] \in Nat /\ adr[i + 1] \in Nat /\ Len(tmp) \in Nat
  <2>1. i \in 1..Len(adr) /\ i + 1 \in 1..Len(adr)
    BY DEF Table, nlet
  <2> QED  BY <2>1, LenProperties DEF Table, Contents
<1> DEFINE n == Min({adr[i + 1], Len(tmp)})
<1>2. n \in Nat /\ n <= Len(tmp)
  BY <1>1, MinOfTwo
<1> HIDE DEF n
<1>3. Chunk(i) = SubSeq(tmp, adr[i] + 1, n)
  BY DEF Chunk, n
<1>4. adr[i] + 1 \in Nat /\ adr[i] + 1 >= 1
  BY <1>1
<1> QED  BY <1>2, <1>3, <1>4, PartLetters

\* When the last address is the end of the temporary file, the letters of the
\* table are together the whole of it.
LEMMA ChunksCover ==
  ASSUME tmp \in Contents, Table(adr), Last(adr) = Len(tmp),
         NEW x \in Letters(tmp)
  PROVE  \E i \in 1..nlet : x \in Letters(Chunk(i))
<1>1. adr \in Seq(Nat) /\ Len(adr) \in Nat \ {0} /\ Len(tmp) \in Nat
  BY LenProperties DEF Table, Contents
<1>2. PICK k \in 1..Len(tmp) : x = tmp[k] /\ x # Torn
  BY FileLetters
<1> DEFINE T == {i \in 1..Len(adr) : adr[i] >= k}
<1>3. Len(adr) \in T
  BY <1>1 DEF Last
<1>4. PICK j \in T : \A y \in T : ~(y < j)
  <2>1. T \subseteq Nat /\ T # {}
    BY <1>3
  <2>2. PICK j \in T : \A y \in T : ~(<<y, j>> \in OpToRel(<, Nat))
    <3> HIDE DEF T
    <3> QED  BY <2>1, NatLessThanWellFounded, WFMin
  <2> QED  BY <2>1, <2>2 DEF OpToRel
<1>5. j # 1
  BY <1>1, <1>2 DEF Table
<1>6. /\ j - 1 \in 1..nlet /\ adr[j - 1] < k
      /\ (j - 1) + 1 = j /\ j \in 1..Len(adr) /\ k <= adr[j]
  BY <1>1, <1>4, <1>5 DEF nlet
<1>7. adr[j - 1] \in Nat /\ adr[j] \in Nat
  BY <1>1, <1>6 DEF Table, nlet
<1>8. Chunk(j - 1) = SubSeq(tmp, adr[j - 1] + 1, Min({adr[j], Len(tmp)}))
  BY <1>6 DEF Chunk
<1>9. /\ Chunk(j - 1) \in Contents
      /\ k - adr[j - 1] \in 1..Len(Chunk(j - 1))
      /\ Chunk(j - 1)[k - adr[j - 1]] = tmp[k]
  <2> DEFINE m == adr[j - 1] + 1
             n == Min({adr[j], Len(tmp)})
  <2>a. n \in Nat /\ n <= Len(tmp) /\ k <= n
    BY <1>1, <1>6, <1>7, MinOfTwo
  <2>1. m \in Nat /\ n \in Nat /\ m >= 1 /\ n <= Len(tmp) /\ k \in m..n
    BY <2>a, <1>1, <1>6, <1>7
  <2>2. Chunk(j - 1) = SubSeq(tmp, m, n)
    BY <1>8
  <2>3. k - adr[j - 1] = k - m + 1
    BY <1>1, <1>7
  <2> HIDE DEF m, n
  <2>4. /\ Chunk(j - 1) \in Contents
        /\ Len(Chunk(j - 1)) = n - m + 1
        /\ \A i \in 1..(n - m + 1) : Chunk(j - 1)[i] = tmp[m + i - 1]
    <3>1. /\ SubSeq(tmp, m, n) \in Contents
          /\ Len(SubSeq(tmp, m, n)) = IF m <= n THEN n - m + 1 ELSE 0
          /\ \A i \in 1..(n - m + 1) : SubSeq(tmp, m, n)[i] = tmp[m + i - 1]
      BY <2>1, PartLetters
    <3>2. m <= n
      BY <2>1
    <3> QED  BY <2>2, <3>1, <3>2
  <2>5. k - m + 1 \in 1..(n - m + 1) /\ m + (k - m + 1) - 1 = k
    BY <2>1
  <2> QED  BY <2>3, <2>4, <2>5
<1>10. x \in Letters(Chunk(j - 1))
  BY <1>2, <1>9, FileLetters
<1> QED  BY <1>6, <1>10

\* What the variables of the files and of the table are, and how they belong
\* together: the marks lie in the table.
FileTypes ==
    /\ box \in Contents \cup {NoFile} /\ save \in Contents \cup {NoFile} /\ tmp \in Contents
    /\ rpc \in ReaderStates
    /\ fileSize \in Nat /\ statSize \in Nat
    /\ Table(adr)
    /\ marked \subseteq 1..nlet
    /\ nextlet \in 0..(MaxLet + 1)
    /\ sessions \in 0..MaxSessions
    /\ dpc \in [Deliverer -> {"start", "wait", "append", "unlock", "again", "bye", "done"}]
    /\ linked \in [Deliverer -> BOOLEAN]
    /\ delivered \subseteq Letter
    /\ mishaps \subseteq {"short", "unrestored", "interrupted"}

\* Where the session has a copy of the mailbox that may be behind it.
Loaded == {"prompt", "newmail", "loaded", "reopen", "command", "copyback"}

\* A file that is read or written is there; and mail only comes to the mailbox
\* while the session looks at it.
Present ==
    /\ rpc \in Loaded => Last(adr) <= Len(box)
    /\ rpc \in Loaded \cup {"load", "create", "copy"} => box # NoFile
    /\ rpc \in {"restore", "unlinksave", "copy", "rename"} => save # NoFile
    /\ rpc = "copy" => nextlet \in 1..(nlet + 1)
    /\ \A d \in Deliverer : linked[d] => box # NoFile

\* A letter in a file was there at the start or has been delivered, and the
\* letter of a delivery that has not written it is in no file.
Origin ==
    /\ Letters(box) \cup Letters(save) \cup Letters(tmp) \subseteq delivered
    /\ \A d \in Deliverer : dpc[d] \in {"start", "wait", "append"} => d \notin delivered

FilesInv == FileTypes /\ Present /\ Origin

-----------------------------------------------------------------------------
\* The actions of the session that leave its copy of the mailbox and the marks
\* alone.
LEMMA CopyStays ==
  ASSUME \/ Restore \/ Open \/ Prompt \/ CloseNewMail \/ ReopenTmp \/ InterruptNewMail
         \/ InterruptLoaded \/ InterruptReopen \/ Quit \/ ExitUnchanged
         \/ CreateSave \/ CopyLetter \/ UnlinkBox \/ RenameSave \/ Finish
         \/ ReaderTry \/ ReaderStart \/ Time \/ AllDone \/ UNCHANGED vars
         \/ \E d \in Deliverer : Delivery(d)
  PROVE  tmp' = tmp /\ adr' = adr /\ marked' = marked
<1> USE DEF rvars
<1>1. CASE Restore
  BY <1>1 DEF Restore, CkStat, RestoreRename, RestoreFails, RestoreAppend, UnlinkSave
<1>2. CASE Open \/ Prompt \/ CloseNewMail \/ ReopenTmp \/ InterruptNewMail
             \/ InterruptLoaded \/ InterruptReopen \/ Quit \/ ExitUnchanged
  BY <1>2
  DEF Open, Prompt, CloseNewMail, ReopenTmp, InterruptNewMail, InterruptLoaded, InterruptReopen,
      Quit, ExitUnchanged
<1>3. CASE CreateSave \/ CopyLetter \/ UnlinkBox \/ RenameSave \/ Finish
  BY <1>3 DEF CreateSave, CopyLetter, UnlinkBox, RenameSave, Finish
<1>4. CASE ReaderTry \/ ReaderStart \/ Time \/ AllDone \/ UNCHANGED vars
  BY <1>4 DEF ReaderTry, ReaderStart, Time, AllDone, vars
<1>5. ASSUME NEW d \in Deliverer, Delivery(d) PROVE tmp' = tmp /\ adr' = adr /\ marked' = marked
  BY <1>5 DEF Delivery, DeliveryStart, DeliveryTry, OpenBox, AppendLetter, DeliveryUnlock,
              DeliveryExit, DeliveryCrash
<1> QED  BY <1>1, <1>2, <1>3, <1>4, <1>5

\* Next by the actions that treat the copy of the mailbox differently.
LEMMA Steps ==
  ASSUME [Next]_vars
  PROVE  \/ Load \/ NewMail \/ BreakNewMail \/ InterruptSized \/ Command \/ TakeNewMail
         \/ ReaderExit \/ ReaderCrash
         \/ Restore \/ Open \/ Prompt \/ CloseNewMail \/ ReopenTmp \/ InterruptNewMail
         \/ InterruptLoaded \/ InterruptReopen \/ Quit \/ ExitUnchanged
         \/ CreateSave \/ CopyLetter \/ UnlinkBox \/ RenameSave \/ Finish
         \/ ReaderTry \/ ReaderStart \/ Time \/ AllDone \/ UNCHANGED vars
         \/ \E d \in Deliverer : Delivery(d)
  BY DEF Next, Session, CopyBack, TakeIn, Interrupt

\* What is new in the mailbox.
LEMMA NewPartLetters ==
  ASSUME FileTypes, box # NoFile, Last(adr) <= Len(box)
  PROVE  /\ box \in Contents /\ Last(adr) \in Nat /\ Len(box) \in Nat
         /\ NewPart \in Contents
         /\ Len(NewPart) = Len(box) - Last(adr)
         /\ \A i \in 1..(Len(box) - Last(adr)) : NewPart[i] = box[Last(adr) + i]
         /\ Letters(NewPart) \subseteq Letters(box)
<1>1. box \in Contents /\ Len(box) \in Nat /\ Last(adr) \in Nat
  <2>1. box \in Contents  BY DEF FileTypes
  <2>2. Table(adr)  BY DEF FileTypes
  <2> QED  BY <2>1, <2>2, LenProperties DEF Table, Last, Contents
<1>2. /\ SubSeq(box, Last(adr) + 1, Len(box)) \in Contents
      /\ Len(SubSeq(box, Last(adr) + 1, Len(box)))
           = IF Last(adr) + 1 <= Len(box) THEN Len(box) - (Last(adr) + 1) + 1 ELSE 0
      /\ \A i \in 1..(Len(box) - (Last(adr) + 1) + 1) :
           SubSeq(box, Last(adr) + 1, Len(box))[i] = box[(Last(adr) + 1) + i - 1]
      /\ Letters(SubSeq(box, Last(adr) + 1, Len(box))) \subseteq Letters(box)
  <2>1. Last(adr) + 1 \in Nat /\ Last(adr) + 1 >= 1  BY <1>1
  <2> QED  BY <1>1, <2>1, PartLetters
<1> QED  BY <1>1, <1>2 DEF NewPart

\* What a step does to the session's copy of the mailbox: it stays a sequence
\* of letters from files, and its table and marks stay in it.
CopyKept ==
    /\ tmp' \in Contents
    /\ Table(adr')
    /\ marked' \subseteq 1..nlet'
    /\ Letters(tmp') \subseteq Letters(tmp) \cup Letters(box)

\* An empty file, and the table before anything is loaded.
LEMMA NoLetters == Table(<<0>>) /\ <<>> \in Contents /\ Len(<<>>) = 0 /\ Letters(<<>>) = {}
<1>1. <<>> \in Contents /\ Len(<<>>) = 0
  BY EmptySeq DEF Contents
<1>2. Letters(<<>>) = {}
  BY <1>1, FileLetters
<1>3. <<0>> \in Seq(Nat) /\ Len(<<0>>) \in 1..(MaxLet + 1) /\ <<0>>[1] = 0
  BY MailboxAssumption
<1> QED  BY <1>1, <1>2, <1>3 DEF Table

\* Load: the copy is the whole mailbox.
LEMMA LoadCopy ==
  ASSUME FilesInv, Load
  PROVE  CopyKept /\ Last(adr') = Len(tmp') /\ tmp' = box /\ box \in Contents
<1>1. box # NoFile /\ box \in Contents /\ Len(box) \in Nat
  <2>1. box # NoFile
    BY DEF Load, At, FilesInv, Present
  <2>2. box \in Contents
    BY <2>1 DEF FilesInv, FileTypes
  <2> QED  BY <2>1, <2>2, LenProperties DEF Contents
<1>2. tmp' = box /\ adr' = Extend(<<0>>, Len(box)) /\ marked' = {}
  BY DEF Load
<1>3. /\ Table(Extend(<<0>>, Len(box)))
      /\ Last(Extend(<<0>>, Len(box))) = Last(<<0>>) + Len(box)
  BY <1>1, NoLetters, ExtendTable
<1>4. Last(<<0>>) = 0
  BY DEF Last
<1> QED  BY <1>1, <1>2, <1>3, <1>4 DEF CopyKept

\* New mail: the table ends where the mailbox does.
LEMMA NewMailCopy ==
  ASSUME FilesInv, NewMail
  PROVE  /\ CopyKept
         /\ Last(adr') = Len(box)
         /\ NewPart \in Contents
         /\ Len(tmp') = Len(tmp) + (Len(box) - Last(adr))
<1>1. /\ FileTypes /\ box # NoFile /\ Last(adr) <= Len(box)
      /\ tmp' = tmp \o NewPart /\ adr' = Extend(adr, Len(NewPart)) /\ marked' = marked
  BY DEF NewMail, At, FilesInv, Present, Loaded
<1>2. /\ box \in Contents /\ Last(adr) \in Nat /\ Len(box) \in Nat
      /\ NewPart \in Contents /\ Len(NewPart) = Len(box) - Last(adr)
      /\ Letters(NewPart) \subseteq Letters(box)
  BY <1>1, NewPartLetters
<1>3. tmp \in Contents /\ Len(tmp) \in Nat /\ Table(adr) /\ marked \subseteq 1..nlet
  <2>1. tmp \in Contents /\ Table(adr) /\ marked \subseteq 1..nlet
    BY <1>1 DEF FileTypes
  <2> QED  BY <2>1, LenProperties DEF Contents
<1>4. /\ tmp' \in Contents /\ Len(tmp') = Len(tmp) + Len(NewPart)
      /\ Letters(tmp') = Letters(tmp) \cup Letters(NewPart)
  BY <1>1, <1>2, <1>3, ConcatLetters
<1>5. Len(NewPart) \in Nat
  BY <1>1, <1>2
<1>6. /\ Table(adr')
      /\ Len(adr) <= Len(adr') /\ Last(adr') = Last(adr) + Len(NewPart)
  BY <1>1, <1>3, <1>5, ExtendTable
<1>7. nlet <= nlet' /\ nlet \in Int /\ nlet' \in Int
  BY <1>3, <1>6 DEF nlet, Table
<1>8. marked' \subseteq 1..nlet'
  BY <1>1, <1>3, <1>7
<1> QED  BY <1>1, <1>2, <1>4, <1>6, <1>8 DEF CopyKept

\* An interrupted loading: the table is one of what was copied.
LEMMA BreakNewMailCopy ==
  ASSUME FilesInv, BreakNewMail
  PROVE  CopyKept /\ Last(adr') <= Last(adr)
<1>1. /\ FileTypes /\ box # NoFile /\ Last(adr) <= Len(box) /\ marked' = marked
  BY DEF BreakNewMail, At, FilesInv, Present, Loaded
<1>2. PICK j \in 0..(Len(NewPart) - 1) :
        tmp' = tmp \o SubSeq(NewPart, 1, j) /\ adr' = Broken(adr, j)
  BY DEF BreakNewMail
<1>3. /\ NewPart \in Contents /\ Len(NewPart) \in Nat
      /\ Letters(NewPart) \subseteq Letters(box)
  <2>1. NewPart \in Contents /\ Letters(NewPart) \subseteq Letters(box)
    BY <1>1, NewPartLetters
  <2> QED  BY <2>1, LenProperties DEF Contents
<1>4. tmp \in Contents /\ Len(tmp) \in Nat /\ Table(adr) /\ marked \subseteq 1..nlet
  <2>1. tmp \in Contents /\ Table(adr) /\ marked \subseteq 1..nlet
    BY <1>1 DEF FileTypes
  <2> QED  BY <2>1, LenProperties DEF Contents
<1> DEFINE part == SubSeq(NewPart, 1, j)
<1>5. part \in Contents /\ Len(part) = j /\ j \in Nat /\ Letters(part) \subseteq Letters(NewPart)
  <2>1. j \in Nat /\ j <= Len(NewPart) /\ (1 <= j \/ j = 0)
    BY <1>3
  <2>2. /\ part \in Contents /\ Letters(part) \subseteq Letters(NewPart)
        /\ Len(part) = IF 1 <= j THEN j - 1 + 1 ELSE 0
    BY <1>3, <2>1, PartLetters
  <2> QED  BY <2>1, <2>2
<1> HIDE DEF part
<1>6. /\ tmp' \in Contents /\ Len(tmp') = Len(tmp) + j
      /\ Letters(tmp') = Letters(tmp) \cup Letters(part)
  BY <1>2, <1>4, <1>5, ConcatLetters DEF part
<1>7. /\ Table(adr') /\ Len(adr) <= Len(adr') /\ Last(adr') <= Last(adr)
  BY <1>2, <1>4, <1>5, BrokenTable
<1>8. nlet <= nlet' /\ nlet \in Int /\ nlet' \in Int
  BY <1>4, <1>7 DEF nlet, Table
<1>9. marked' \subseteq 1..nlet'
  BY <1>1, <1>4, <1>8
<1> QED  BY <1>3, <1>5, <1>6, <1>7, <1>9 DEF CopyKept

\* An interrupt with file_size set: the table ends where the mailbox does.
LEMMA InterruptSizedCopy ==
  ASSUME FilesInv, InterruptSized
  PROVE  CopyKept /\ Last(adr') = Len(box)
<1>1. /\ FileTypes /\ box # NoFile /\ Last(adr) <= Len(box) /\ marked' = marked
      /\ adr' = Extend(adr, Len(NewPart))
  BY DEF InterruptSized, At, FilesInv, Present, Loaded
<1>2. PICK n \in 0..Len(NewPart) : tmp' = tmp \o SubSeq(NewPart, 1, n)
  BY DEF InterruptSized
<1>3. /\ box \in Contents /\ Last(adr) \in Nat /\ Len(box) \in Nat
      /\ NewPart \in Contents /\ Len(NewPart) = Len(box) - Last(adr) /\ Len(NewPart) \in Nat
      /\ Letters(NewPart) \subseteq Letters(box)
  BY <1>1, NewPartLetters
<1>4. tmp \in Contents /\ Table(adr) /\ marked \subseteq 1..nlet
  BY <1>1 DEF FileTypes
<1> DEFINE part == SubSeq(NewPart, 1, n)
<1>5. part \in Contents /\ Letters(part) \subseteq Letters(NewPart)
  <2>1. n \in Nat /\ n <= Len(NewPart)
    BY <1>3
  <2> QED  BY <1>3, <2>1, PartLetters
<1> HIDE DEF part
<1>6. tmp' \in Contents /\ Letters(tmp') = Letters(tmp) \cup Letters(part)
  BY <1>2, <1>4, <1>5, ConcatLetters DEF part
<1>7. Table(adr') /\ Len(adr) <= Len(adr') /\ Last(adr') = Last(adr) + Len(NewPart)
  BY <1>1, <1>3, <1>4, ExtendTable
<1>8. nlet <= nlet' /\ nlet \in Int /\ nlet' \in Int
  BY <1>4, <1>7 DEF nlet, Table
<1>9. marked' \subseteq 1..nlet'
  BY <1>1, <1>4, <1>8
<1> QED  BY <1>3, <1>5, <1>6, <1>7, <1>9 DEF CopyKept

\* copyback(): the new mail is one more letter, when the table has room.
LEMMA TakeNewMailCopy ==
  ASSUME FilesInv, TakeNewMail
  PROVE  /\ CopyKept
         /\ box \in Contents
         /\ \/ Len(box) = Last(adr) /\ tmp' = tmp /\ adr' = adr
            \/ rpc' = "bye"
            \/ /\ tmp' = tmp \o NewPart /\ Last(adr') = Len(box)
               /\ Len(tmp') = Len(tmp) + (Len(box) - Last(adr))
<1>1. FileTypes /\ box # NoFile /\ Last(adr) <= Len(box) /\ marked' = marked
  BY DEF TakeNewMail, At, FilesInv, Present, Loaded
<1>2. /\ box \in Contents /\ Last(adr) \in Nat /\ Len(box) \in Nat
      /\ NewPart \in Contents /\ Len(NewPart) = Len(box) - Last(adr)
      /\ Letters(NewPart) \subseteq Letters(box)
  BY <1>1, NewPartLetters
<1>3. tmp \in Contents /\ Len(tmp) \in Nat /\ Table(adr) /\ marked \subseteq 1..nlet
  <2>1. tmp \in Contents /\ Table(adr) /\ marked \subseteq 1..nlet
    BY <1>1 DEF FileTypes
  <2> QED  BY <2>1, LenProperties DEF Contents
<1>4. CASE Len(box) = Last(adr)
  <2>1. tmp' = tmp /\ adr' = adr
    BY <1>4 DEF TakeNewMail
  <2> QED  BY <1>1, <1>2, <1>3, <1>4, <2>1 DEF CopyKept, nlet
<1>5. CASE Len(box) # Last(adr)
  <2>1. tmp' = tmp \o NewPart
    BY <1>5 DEF TakeNewMail
  <2>2. /\ tmp' \in Contents /\ Len(tmp') = Len(tmp) + Len(NewPart)
        /\ Letters(tmp') = Letters(tmp) \cup Letters(NewPart)
    BY <1>2, <1>3, <2>1, ConcatLetters
  <2>3. CASE nlet = MaxLet
    <3>1. rpc' = "bye" /\ adr' = adr
      BY <1>5, <2>3 DEF TakeNewMail
    <3> QED  BY <1>1, <1>2, <1>3, <2>2, <3>1 DEF CopyKept, nlet
  <2>4. CASE nlet # MaxLet
    <3>1. adr' = Append(adr, Len(box))
      BY <1>5, <2>4 DEF TakeNewMail
    <3>2. Len(adr) <= MaxLet /\ Len(adr) \in Nat
      BY <1>3, <2>4, MailboxAssumption DEF Table, nlet
    <3>3. Table(adr') /\ Len(adr') = Len(adr) + 1 /\ Last(adr') = Len(box)
      BY <1>2, <1>3, <3>1, <3>2, AppendTable
    <3>4. marked' \subseteq 1..nlet'
      BY <1>1, <1>3, <3>2, <3>3 DEF nlet
    <3> QED  BY <1>2, <2>1, <2>2, <3>3, <3>4 DEF CopyKept
  <2> QED  BY <2>3, <2>4
<1> QED  BY <1>4, <1>5

\* Every step keeps the session's copy one.
LEMMA CopyStep ==
  ASSUME FilesInv, [Next]_vars
  PROVE  CopyKept
<1>1. CASE Load  BY <1>1, LoadCopy
<1>2. CASE NewMail  BY <1>2, NewMailCopy
<1>3. CASE BreakNewMail  BY <1>3, BreakNewMailCopy
<1>4. CASE TakeNewMail  BY <1>4, TakeNewMailCopy
<1>5. CASE Command
  <2>1. tmp' = tmp /\ adr' = adr
    BY <1>5 DEF Command
  <2>2. marked' \subseteq 1..nlet
    BY <1>5 DEF Command, FilesInv, FileTypes
  <2> QED  BY <2>1, <2>2 DEF FilesInv, FileTypes, CopyKept, nlet
<1>6. CASE ReaderExit \/ ReaderCrash
  <2>1. tmp' = <<>> /\ adr' = <<0>> /\ marked' = {}
    BY <1>6 DEF ReaderExit, ReaderCrash, ReaderGone
  <2> QED  BY <2>1, NoLetters DEF CopyKept
<1>7. CASE tmp' = tmp /\ adr' = adr /\ marked' = marked
  BY <1>7 DEF FilesInv, FileTypes, CopyKept, nlet
<1>8. CASE InterruptSized  BY <1>8, InterruptSizedCopy
<1> QED  BY <1>1, <1>2, <1>3, <1>4, <1>5, <1>6, <1>7, <1>8, Steps, CopyStays

\* What a step does to the user's files: their letters were in a file already,
\* or have just been delivered.
FilesKept ==
    /\ box' \in Contents \cup {NoFile} /\ save' \in Contents \cup {NoFile}
    /\ Letters(box') \subseteq Letters(box) \cup Letters(save) \cup delivered'
    /\ Letters(save') \subseteq Letters(save) \cup Letters(tmp)

\* A part of the save file and a torn letter behind the mailbox.
LEMMA PartRestored ==
  ASSUME NEW f \in Contents, NEW s \in Contents, NEW n \in 0..(Len(s) - 1)
  PROVE  /\ f \o SubSeq(s, 1, n) \o <<Torn>> \in Contents
         /\ Letters(f) \subseteq Letters(f \o SubSeq(s, 1, n) \o <<Torn>>)
         /\ Letters(f \o SubSeq(s, 1, n) \o <<Torn>>) \subseteq Letters(f) \cup Letters(s)
<1>1. Len(s) \in Nat /\ n \in Nat /\ n <= Len(s)
  BY LenProperties DEF Contents
<1>2. SubSeq(s, 1, n) \in Contents /\ Letters(SubSeq(s, 1, n)) \subseteq Letters(s)
  BY <1>1, PartLetters
<1> DEFINE g == f \o SubSeq(s, 1, n)
<1>3. g \in Contents /\ Letters(g) = Letters(f) \cup Letters(SubSeq(s, 1, n))
  BY <1>2, ConcatLetters
<1> HIDE DEF g
<1>4. /\ Append(g, Torn) = g \o <<Torn>> /\ Append(g, Torn) \in Contents
      /\ Letters(Append(g, Torn)) = Letters(g)
  BY <1>3, AppendLetters
<1> QED  BY <1>2, <1>3, <1>4 DEF g

\* Files that are left alone.
LEMMA FilesStay ==
  ASSUME FilesInv, box' = box, save' = save
  PROVE  FilesKept
  BY DEF FilesKept, FilesInv, FileTypes

\* A torn letter is not a letter.
LEMMA TornLetters ==
  ASSUME NEW s \in Contents
  PROVE  /\ Append(s, Torn) \in Contents
         /\ Len(Append(s, Torn)) = Len(s) + 1
         /\ \A i \in 1..Len(s) : Append(s, Torn)[i] = s[i]
         /\ Letters(Append(s, Torn)) = Letters(s)
<1>1. Torn \in Letter \cup {Torn}
  OBVIOUS
<1>2. Letters(Append(s, Torn)) = Letters(s) \cup ({Torn} \ {Torn})
  BY <1>1, AppendLetters
<1> QED  BY <1>1, <1>2, AppendLetters

\* No file, no letters.
LEMMA NoFileLetters == Letters(NoFile) = {}
  BY DEF Letters

\* A file that is there is a sequence.
LEMMA ThereIsContents ==
  ASSUME FilesInv
  PROVE  /\ box # NoFile => box \in Contents
         /\ save # NoFile => save \in Contents
         /\ tmp \in Contents /\ Table(adr)
  BY DEF FilesInv, FileTypes

\* cksaved() moves letters from the save file to the mailbox.
LEMMA RestoreFiles == FilesInv /\ Restore => FilesKept
<1> SUFFICES ASSUME FilesInv, Restore PROVE FilesKept
  OBVIOUS
<1> USE DEF At
<1>1. CASE CkStat \/ RestoreFails
  BY <1>1, FilesStay DEF CkStat, RestoreFails
<1>2. CASE RestoreRename
  BY <1>2, NoFileLetters DEF RestoreRename, FilesInv, FileTypes, FilesKept
<1>3. CASE RestoreAppend
  <2>1. box \in Contents /\ save \in Contents /\ save' = save
    BY <1>3, ThereIsContents DEF RestoreAppend, FilesInv, Present
  <2>2. CASE box' = box \o save
    BY <2>1, <2>2, ConcatLetters DEF FilesKept
  <2>3. ASSUME NEW n \in 0..(Len(save) - 1), box' = box \o SubSeq(save, 1, n) \o <<Torn>>
        PROVE  FilesKept
    BY <2>1, <2>3, PartRestored DEF FilesKept
  <2> QED  BY <1>3, <2>2, <2>3 DEF RestoreAppend
<1>4. CASE UnlinkSave
  BY <1>4, NoFileLetters DEF UnlinkSave, FilesInv, FileTypes, FilesKept
<1> QED  BY <1>1, <1>2, <1>3, <1>4 DEF Restore

\* copyback() moves letters from the copy to the save file and from there to
\* the mailbox.
LEMMA CopyBackFiles == FilesInv /\ CopyBack => FilesKept
<1> SUFFICES ASSUME FilesInv, CopyBack PROVE FilesKept
  OBVIOUS
<1> USE DEF At
<1>1. CASE TakeNewMail
  BY <1>1, FilesStay DEF TakeNewMail
<1>2. CASE CreateSave
  BY <1>2, NoLetters DEF CreateSave, FilesInv, FileTypes, FilesKept
<1>3. CASE CopyLetter
  <2>1. save \in Contents /\ box' = box /\ nextlet \in 1..nlet
    <3>1. save # NoFile /\ nextlet \in 1..(nlet + 1) /\ nextlet <= nlet /\ box' = box
      BY <1>3 DEF CopyLetter, FilesInv, Present
    <3>2. nlet \in Int
      BY ThereIsContents DEF Table, nlet
    <3> QED  BY <3>1, <3>2, ThereIsContents
  <2>2. Chunk(nextlet) \in Contents /\ Letters(Chunk(nextlet)) \subseteq Letters(tmp)
    BY <2>1, ThereIsContents, ChunkLetters
  <2>3. save' = save \/ save' = save \o Chunk(nextlet) \/ save' = Append(save, Torn)
    BY <1>3 DEF CopyLetter
  <2>4. save' \in Contents /\ Letters(save') \subseteq Letters(save) \cup Letters(tmp)
    <3>1. CASE save' = save  BY <2>1, <3>1
    <3>2. CASE save' = save \o Chunk(nextlet)  BY <2>1, <2>2, <3>2, ConcatLetters
    <3>3. CASE save' = Append(save, Torn)  BY <2>1, <3>3, TornLetters
    <3> QED  BY <2>3, <3>1, <3>2, <3>3
  <2> QED  BY <2>1, <2>4 DEF FilesInv, FileTypes, FilesKept
<1>4. CASE UnlinkBox
  <2>1. save \in Contents /\ (box' = box \/ box' = NoFile)
    BY <1>4, ThereIsContents DEF UnlinkBox, FilesInv, Present
  <2>2. CASE save' = save
    BY <2>1, <2>2, NoFileLetters DEF FilesInv, FileTypes, FilesKept
  <2>3. CASE save # <<>> /\ save' = Append(Front(save), Torn)
    <3>1. Len(save) \in Nat /\ Len(save) # 0
      BY <2>1, <2>3, EmptySeq, LenProperties DEF Contents
    <3>2. Len(save) - 1 \in Nat /\ Len(save) - 1 <= Len(save)
      BY <3>1
    <3>3. Front(save) \in Contents /\ Letters(Front(save)) \subseteq Letters(save)
      BY <2>1, <3>2, PartLetters DEF Front
    <3>4. save' \in Contents /\ Letters(save') \subseteq Letters(save)
      BY <2>3, <3>3, TornLetters
    <3> QED  BY <2>1, <3>4, NoFileLetters DEF FilesInv, FileTypes, FilesKept
  <2> QED  BY <1>4, <2>2, <2>3 DEF UnlinkBox
<1>5. CASE RenameSave
  BY <1>5, NoFileLetters DEF RenameSave, FilesInv, FileTypes, FilesKept
<1>6. CASE Finish
  BY <1>6, NoFileLetters DEF Finish, FilesInv, FileTypes, FilesKept
<1> QED  BY <1>1, <1>2, <1>3, <1>4, <1>5, <1>6 DEF CopyBack

\* A session that ends leaves letters where they were.
LEMMA GoneFiles == FilesInv /\ ReaderGone => FilesKept
<1> SUFFICES ASSUME FilesInv, ReaderGone PROVE FilesKept
  OBVIOUS
<1>1. save' = save
  BY DEF ReaderGone
<1>2. CASE box' = box
  BY <1>1, <1>2, FilesStay
<1>3. ASSUME At("restore"), box # NoFile,
             NEW n \in 0..(Len(save) - 1), box' = box \o SubSeq(save, 1, n) \o <<Torn>>
      PROVE  FilesKept
  <2>1. box \in Contents /\ save \in Contents
    BY <1>3, ThereIsContents DEF At, FilesInv, Present
  <2> QED  BY <1>1, <1>3, <2>1, PartRestored DEF FilesKept
<1> QED  BY <1>2, <1>3 DEF ReaderGone, LeavesPart

\* A delivery brings its own letter.
LEMMA DeliveryFiles ==
  ASSUME FilesInv, NEW d \in Deliverer, Delivery(d)
  PROVE  FilesKept
<1>1. save' = save
  BY DEF Delivery, DeliveryStart, DeliveryTry, OpenBox, AppendLetter, DeliveryUnlock,
         DeliveryExit, DeliveryCrash
<1>2. d \in Letter
  BY DEF Letter
<1>3. CASE box' = box
  BY <1>1, <1>3, FilesStay
<1>4. CASE box = NoFile /\ box' = <<>>
  BY <1>1, <1>4, NoLetters DEF FilesKept, FilesInv, FileTypes
<1>5. CASE linked[d] /\ box' = Append(box, Torn)
  <2>1. box \in Contents
    BY <1>5, ThereIsContents DEF FilesInv, Present
  <2>2. box' \in Contents /\ Letters(box') = Letters(box)
    BY <1>5, <2>1, TornLetters
  <2> QED  BY <1>1, <2>2 DEF FilesKept, FilesInv, FileTypes
<1>6. CASE linked[d] /\ box' = Append(box, d) /\ d \in delivered'
  <2>1. box \in Contents
    BY <1>6, ThereIsContents DEF FilesInv, Present
  <2>2. box' \in Contents /\ Letters(box') \subseteq Letters(box) \cup {d}
    BY <1>2, <1>6, <2>1, AppendLetters
  <2> QED  BY <1>1, <1>6, <2>2 DEF FilesKept, FilesInv, FileTypes
<1>7. CASE DeliveryStart(d) \/ DeliveryTry(d) \/ OpenBox(d) \/ DeliveryUnlock(d)
  BY <1>3, <1>4, <1>7 DEF DeliveryStart, DeliveryTry, OpenBox, DeliveryUnlock
<1>8. CASE AppendLetter(d)
  BY <1>3, <1>5, <1>6, <1>8 DEF AppendLetter
<1>9. CASE DeliveryExit(d) \/ DeliveryCrash(d)
  BY <1>3, <1>5, <1>9 DEF DeliveryExit, DeliveryCrash, LeavesTorn
<1> QED  BY <1>7, <1>8, <1>9 DEF Delivery

\* Every step keeps the files files, with letters of a known origin.
LEMMA FilesStep ==
  ASSUME FilesInv, [Next]_vars
  PROVE  FilesKept
<1>1. CASE Open \/ Load \/ Prompt \/ TakeIn \/ Interrupt
             \/ Command \/ Quit \/ ExitUnchanged
  BY <1>1, FilesStay
  DEF Open, Load, Prompt, TakeIn, NewMail, CloseNewMail, ReopenTmp, Interrupt,
      InterruptNewMail, BreakNewMail, InterruptLoaded, InterruptSized, InterruptReopen,
      ToPrompt, Mishap, Command, Quit, ExitUnchanged
<1>2. CASE ReaderTry \/ ReaderStart \/ Time \/ AllDone \/ UNCHANGED vars
  BY <1>2, FilesStay DEF ReaderTry, ReaderStart, Time, AllDone, vars
<1>3. CASE Restore  BY <1>3, RestoreFiles
<1>4. CASE CopyBack  BY <1>4, CopyBackFiles
<1>5. CASE ReaderExit \/ ReaderCrash  BY <1>5, GoneFiles DEF ReaderExit, ReaderCrash
<1>6. CASE \E d \in Deliverer : Delivery(d)  BY <1>6, DeliveryFiles
<1> QED  BY <1>1, <1>2, <1>3, <1>4, <1>5, <1>6 DEF Next, Session

DeliveryStates == {"start", "wait", "append", "unlock", "again", "bye", "done"}

\* The rest of FileTypes, and what a step does to the history.
CountsKept ==
    /\ rpc' \in ReaderStates
    /\ fileSize' \in Nat /\ statSize' \in Nat
    /\ nextlet' \in 0..(MaxLet + 1)
    /\ sessions' \in 0..MaxSessions
    /\ dpc' \in [Deliverer -> {"start", "wait", "append", "unlock", "again", "bye", "done"}]
    /\ linked' \in [Deliverer -> BOOLEAN]
    /\ delivered \subseteq delivered' /\ delivered' \subseteq Letter
    /\ mishaps \subseteq mishaps' /\ mishaps' \subseteq {"short", "unrestored", "interrupted"}

\* The length of the mailbox and of the table.
LEMMA LengthsAreNumbers ==
  ASSUME FilesInv
  PROVE  /\ box # NoFile => Len(box) \in Nat
         /\ nlet \in 0..MaxLet
<1>1. box # NoFile => Len(box) \in Nat
  BY ThereIsContents, LenProperties DEF Contents
<1>2. nlet \in 0..MaxLet
  BY ThereIsContents, MailboxAssumption DEF Table, nlet
<1> QED  BY <1>1, <1>2

\* The session keeps the other types.
LEMMA SessionCounts == FilesInv /\ Session => CountsKept
<1> SUFFICES ASSUME FilesInv, Session PROVE CountsKept
  OBVIOUS
<1>0. 0 \in 0..(MaxLet + 1) /\ 1 \in 0..(MaxLet + 1)
  BY MailboxAssumption
<1> USE DEF CountsKept, FilesInv, FileTypes, dvars, history, ReaderStates
<1>1. CASE Restore
  BY <1>1 DEF Restore, CkStat, RestoreRename, RestoreFails, RestoreAppend, UnlinkSave
<1>2. CASE Open \/ Load \/ Prompt
  BY <1>2, LengthsAreNumbers DEF Open, Load, Prompt, At, Present, Loaded
<1>3. CASE TakeIn \/ Interrupt
  BY <1>3
  DEF TakeIn, NewMail, CloseNewMail, ReopenTmp, Interrupt, InterruptNewMail, BreakNewMail,
      InterruptLoaded, InterruptSized, InterruptReopen, ToPrompt, Mishap
<1>4. CASE Command \/ Quit \/ ExitUnchanged
  BY <1>4 DEF Command, Quit, ExitUnchanged
<1>5. CASE TakeNewMail \/ CreateSave
  BY <1>0, <1>5 DEF TakeNewMail, CreateSave
<1>6. CASE CopyLetter
  <2>1. nextlet' \in 0..(MaxLet + 1)
    BY <1>6, LengthsAreNumbers, MailboxAssumption DEF CopyLetter
  <2> QED  BY <1>6, <2>1 DEF CopyLetter
<1>7. CASE UnlinkBox \/ RenameSave \/ Finish
  BY <1>7 DEF UnlinkBox, RenameSave, Finish
<1>8. CASE ReaderTry \/ ReaderExit \/ ReaderCrash
  <2>1. CASE ReaderTry
    BY <2>1 DEF ReaderTry, rvars
  <2>2. CASE ReaderGone
    <3>1. nextlet' = 0 /\ nextlet' \in 0..(MaxLet + 1)
      BY <1>0, <2>2 DEF ReaderGone
    <3> QED  BY <2>2, <3>1 DEF ReaderGone
  <2> QED  BY <1>8, <2>1, <2>2 DEF ReaderExit, ReaderCrash
<1>9. CASE ReaderStart
  <2>1. sessions' \in 0..MaxSessions
    BY <1>9, MailboxAssumption DEF ReaderStart
  <2> QED  BY <1>9, <2>1 DEF ReaderStart
<1> QED
  BY <1>1, <1>2, <1>3, <1>4, <1>5, <1>6, <1>7, <1>8, <1>9 DEF Session, CopyBack

\* A delivery keeps the other types and moves itself only.
LEMMA DeliveryCounts ==
  ASSUME FilesInv, NEW d \in Deliverer, Delivery(d)
  PROVE  /\ CountsKept
         /\ \E s \in DeliveryStates : dpc' = [dpc EXCEPT ![d] = s]
         /\ delivered' = delivered \/ delivered' = delivered \cup {d}
<1> USE DEF FilesInv, FileTypes, Becomes, rvars, dvars, history, DeliveryStates
<1>1. rpc' = rpc /\ fileSize' = fileSize /\ statSize' = statSize /\ nextlet' = nextlet
        /\ sessions' = sessions
  BY DEF Delivery, DeliveryStart, DeliveryTry, OpenBox, AppendLetter, DeliveryUnlock,
         DeliveryExit, DeliveryCrash
<1>2. \E s \in DeliveryStates : dpc' = [dpc EXCEPT ![d] = s]
  <2>1. CASE DeliveryStart(d) \/ OpenBox(d) \/ AppendLetter(d) \/ DeliveryUnlock(d)
    BY <2>1 DEF DeliveryStart, OpenBox, AppendLetter, DeliveryUnlock
  <2>2. CASE DeliveryExit(d) \/ DeliveryCrash(d)
    BY <2>2 DEF DeliveryExit, DeliveryCrash
  <2>3. CASE DeliveryTry(d)
    <3>1. dpc' = dpc  BY <2>3 DEF DeliveryTry
    <3>2. dpc[d] \in DeliveryStates  OBVIOUS
    <3> QED  BY <3>1, <3>2
  <2> QED  BY <2>1, <2>2, <2>3 DEF Delivery
<1>3. linked' = linked \/ \E v \in BOOLEAN : linked' = [linked EXCEPT ![d] = v]
  BY DEF Delivery, DeliveryStart, DeliveryTry, OpenBox, AppendLetter, DeliveryUnlock,
         DeliveryExit, DeliveryCrash
<1>4. delivered' = delivered \/ delivered' = delivered \cup {d}
  BY DEF Delivery, DeliveryStart, DeliveryTry, OpenBox, AppendLetter, DeliveryUnlock,
         DeliveryExit, DeliveryCrash
<1>5. mishaps' = mishaps \/ mishaps' = mishaps \cup {"short"}
  BY DEF Delivery, DeliveryStart, DeliveryTry, OpenBox, AppendLetter, DeliveryUnlock,
         DeliveryExit, DeliveryCrash
<1>6. linked' \in [Deliverer -> BOOLEAN]
  BY <1>3
<1>7. dpc' \in [Deliverer -> DeliveryStates]
  BY <1>2
<1> QED  BY <1>1, <1>2, <1>4, <1>5, <1>6, <1>7 DEF CountsKept, Letter

\* Every step keeps the other types and the history.
LEMMA CountsStep ==
  ASSUME FilesInv, [Next]_vars
  PROVE  CountsKept
<1>1. CASE Session  BY <1>1, SessionCounts
<1>2. ASSUME NEW d \in Deliverer, Delivery(d) PROVE CountsKept
  BY <1>2, DeliveryCounts
<1>3. CASE Time \/ AllDone \/ UNCHANGED vars
  BY <1>3 DEF Time, AllDone, vars, rvars, dvars, history, CountsKept, FilesInv, FileTypes
<1> QED  BY <1>1, <1>2, <1>3 DEF Next

\* The letters in the files keep coming from deliveries.
LEMMA OriginStep ==
  ASSUME FilesInv, [Next]_vars
  PROVE  Origin'
<1>1. Letters(box') \cup Letters(save') \cup Letters(tmp') \subseteq delivered'
  <2>1. FilesKept /\ CopyKept /\ CountsKept
    BY FilesStep, CopyStep, CountsStep
  <2> QED  BY <2>1 DEF FilesKept, CopyKept, CountsKept, FilesInv, Origin
<1>2. \A d \in Deliverer : dpc'[d] \in {"start", "wait", "append"} => d \notin delivered'
  <2> USE DEF FilesInv, Origin
  <2>1. CASE dpc' = dpc /\ delivered' = delivered
    BY <2>1
  <2>2. ASSUME NEW d \in Deliverer, Delivery(d)
        PROVE  \A e \in Deliverer : dpc'[e] \in {"start", "wait", "append"} => e \notin delivered'
    <3>1. \A e \in Deliverer \ {d} :
             dpc'[e] = dpc[e] /\ (e \in delivered' => e \in delivered)
      BY <2>2, DeliveryCounts DEF FileTypes
    <3>2. dpc'[d] \in {"start", "wait", "append"} => d \notin delivered'
      <4> USE DEF FileTypes, Becomes, history, dvars
      <4>1. CASE DeliveryStart(d) \/ DeliveryTry(d)
        BY <4>1 DEF DeliveryStart, DeliveryTry
      <4>2. CASE OpenBox(d)
        BY <4>2 DEF OpenBox
      <4>3. CASE AppendLetter(d)
        BY <4>3 DEF AppendLetter
      <4>4. CASE DeliveryUnlock(d) \/ DeliveryExit(d) \/ DeliveryCrash(d)
        BY <4>4 DEF DeliveryUnlock, DeliveryExit, DeliveryCrash
      <4> QED  BY <2>2, <4>1, <4>2, <4>3, <4>4 DEF Delivery
    <3> QED  BY <3>1, <3>2
  <2>3. CASE Session
    <3> USE DEF dvars, history
    <3>1. CASE Restore
      BY <2>1, <3>1 DEF Restore, CkStat, RestoreRename, RestoreFails, RestoreAppend, UnlinkSave
    <3>2. CASE Open \/ Load \/ Prompt \/ TakeIn \/ Interrupt
      BY <2>1, <3>2
      DEF Open, Load, Prompt, TakeIn, NewMail, CloseNewMail, ReopenTmp, Interrupt,
          InterruptNewMail, BreakNewMail, InterruptLoaded, InterruptSized, InterruptReopen,
          ToPrompt, Mishap
    <3>3. CASE Command \/ Quit \/ ExitUnchanged
      BY <2>1, <3>3 DEF Command, Quit, ExitUnchanged
    <3>4. CASE CopyBack
      BY <2>1, <3>4
      DEF CopyBack, TakeNewMail, CreateSave, CopyLetter, UnlinkBox, RenameSave, Finish
    <3>5. CASE ReaderTry \/ ReaderExit \/ ReaderCrash \/ ReaderStart
      BY <2>1, <3>5 DEF ReaderTry, ReaderExit, ReaderCrash, ReaderStart, ReaderGone
    <3> QED  BY <2>3, <3>1, <3>2, <3>3, <3>4, <3>5 DEF Session
  <2>4. CASE Time \/ AllDone \/ UNCHANGED vars
    BY <2>1, <2>4 DEF Time, AllDone, vars, dvars, history
  <2> QED  BY <2>2, <2>3, <2>4 DEF Next
<1> QED  BY <1>1, <1>2 DEF Origin

\* One file is the beginning of another.
Begins(s, t) == Len(s) <= Len(t) /\ \A i \in 1..Len(s) : s[i] = t[i]

\* A file is the beginning of itself.
LEMMA SameBegins == ASSUME NEW s \in Contents PROVE Begins(s, s)
  BY LenProperties DEF Begins, Contents

\* A delivery takes nothing away from the mailbox.
LEMMA DeliveryGrows ==
  ASSUME FilesInv, NEW d \in Deliverer, Delivery(d), box # NoFile
  PROVE  box' \in Contents /\ Begins(box, box') /\ Letters(box) \subseteq Letters(box')
<1>1. box \in Contents /\ Len(box) \in Nat
  BY ThereIsContents, LenProperties DEF Contents
<1>2. d \in Letter \cup {Torn}
  BY DEF Letter
<1>3. box' = box \/ box' = Append(box, d) \/ box' = Append(box, Torn)
  <2>1. CASE DeliveryStart(d) \/ DeliveryTry(d) \/ OpenBox(d) \/ DeliveryUnlock(d)
    BY <2>1 DEF DeliveryStart, DeliveryTry, OpenBox, DeliveryUnlock
  <2>2. CASE AppendLetter(d)
    BY <2>2 DEF AppendLetter
  <2>3. CASE DeliveryExit(d) \/ DeliveryCrash(d)
    BY <2>3 DEF DeliveryExit, DeliveryCrash, LeavesTorn
  <2> QED  BY <2>1, <2>2, <2>3 DEF Delivery
<1>4. CASE box' = box  BY <1>1, <1>4, SameBegins
<1>5. CASE box' = Append(box, d)
  <2>1. /\ Append(box, d) \in Contents /\ Len(Append(box, d)) = Len(box) + 1
        /\ \A i \in 1..Len(box) : Append(box, d)[i] = box[i]
        /\ Letters(Append(box, d)) = Letters(box) \cup ({d} \ {Torn})
    BY <1>1, <1>2, AppendLetters
  <2> QED  BY <1>1, <1>5, <2>1 DEF Begins
<1>6. CASE box' = Append(box, Torn)
  BY <1>1, <1>6, TornLetters DEF Begins
<1> QED  BY <1>3, <1>4, <1>5, <1>6

\* The conjuncts of Present.
MailKnown == rpc \in Loaded => Last(adr) <= Len(box)
BoxThere ==
    /\ rpc \in Loaded \cup {"load", "create", "copy"} => box # NoFile
    /\ \A d \in Deliverer : linked[d] => box # NoFile
SaveThere ==
    /\ rpc \in {"restore", "unlinksave", "copy", "rename"} => save # NoFile
    /\ rpc = "copy" => nextlet \in 1..(nlet + 1)

\* Every step keeps the save file there while it is used.
LEMMA SaveThereStep ==
  ASSUME FilesInv, [Next]_vars
  PROVE  SaveThere'
<1> USE DEF SaveThere, At, FilesInv, Present, nlet
<1>0. NoFile # <<>>
  BY NoLetters, FileLetters
<1>1. CASE Restore
  BY <1>1 DEF Restore, CkStat, RestoreRename, RestoreFails, RestoreAppend, UnlinkSave
<1>2. CASE Open \/ Load \/ Prompt \/ TakeIn \/ Interrupt
             \/ Command \/ Quit \/ ExitUnchanged
  BY <1>2
  DEF Open, Load, Prompt, TakeIn, NewMail, CloseNewMail, ReopenTmp, Interrupt,
      InterruptNewMail, BreakNewMail, InterruptLoaded, InterruptSized, InterruptReopen,
      ToPrompt, Mishap, Command, Quit, ExitUnchanged
<1>3. CASE TakeNewMail
  BY <1>3 DEF TakeNewMail
<1>4. CASE CreateSave
  <2>1. nlet \in 0..MaxLet
    BY LengthsAreNumbers
  <2>2. 1 \in 1..((Len(adr) - 1) + 1)
    BY <2>1
  <2> QED  BY <1>0, <1>4, <2>2 DEF CreateSave
<1>5. CASE CopyLetter
  <2>1. save' # NoFile
    <3>1. FilesKept
      BY FilesStep
    <3>2. save \in Contents /\ nextlet \in 1..nlet
      <4>1. save # NoFile /\ nextlet \in 1..(nlet + 1) /\ nextlet <= nlet
        BY <1>5 DEF CopyLetter
      <4>2. nlet \in Nat
        BY LengthsAreNumbers
      <4> HIDE DEF nlet
      <4> QED  BY <4>1, <4>2, ThereIsContents
    <3>3. Chunk(nextlet) \in Contents
      BY <3>2, ThereIsContents, ChunkLetters
    <3>4. save' = save \/ save' = save \o Chunk(nextlet) \/ save' = Append(save, Torn)
      BY <1>5 DEF CopyLetter
    <3>5. save \o Chunk(nextlet) \in Contents /\ Append(save, Torn) \in Contents
      BY <3>2, <3>3, ConcatLetters, TornLetters
    <3> QED  BY <3>2, <3>4, <3>5, FileLetters
  <2>2. adr' = adr /\ nextlet \in 1..(nlet + 1) /\ nextlet <= nlet
          /\ (rpc' = "copy" => nextlet' = nextlet + 1) /\ rpc' \in {"copy", "bye"}
    BY <1>5 DEF CopyLetter
  <2>3. nlet \in Nat /\ nlet' = nlet
    BY <2>2, LengthsAreNumbers
  <2>4. rpc' = "copy" => nextlet' \in 1..(nlet' + 1)
    <3> HIDE DEF nlet
    <3> QED  BY <2>2, <2>3
  <2> QED  BY <2>1, <2>2, <2>4
<1>6. CASE UnlinkBox
  <2>1. save \in Contents
    BY <1>6, ThereIsContents DEF UnlinkBox
  <2>2. save # <<>> => Append(Front(save), Torn) \in Contents
    <3> SUFFICES ASSUME save # <<>> PROVE Append(Front(save), Torn) \in Contents
      OBVIOUS
    <3>1. Len(save) \in Nat /\ Len(save) # 0
      BY <2>1, EmptySeq, LenProperties DEF Contents
    <3>2. Len(save) - 1 \in Nat /\ Len(save) - 1 <= Len(save)
      BY <3>1
    <3>3. Front(save) \in Contents
      BY <2>1, <3>2, PartLetters DEF Front
    <3> QED  BY <3>3, TornLetters
  <2>3. save' # NoFile
    BY <1>6, <2>1, <2>2, FileLetters DEF UnlinkBox
  <2> QED  BY <1>6, <2>3 DEF UnlinkBox
<1>7. CASE RenameSave \/ Finish
  BY <1>7 DEF RenameSave, Finish
<1>8. CASE ReaderTry \/ ReaderExit \/ ReaderCrash \/ ReaderStart
  BY <1>8 DEF ReaderTry, ReaderExit, ReaderCrash, ReaderStart, ReaderGone, rvars
<1>9. CASE \E d \in Deliverer : Delivery(d)
  BY <1>9
  DEF Delivery, DeliveryStart, DeliveryTry, OpenBox, AppendLetter, DeliveryUnlock,
      DeliveryExit, DeliveryCrash, rvars
<1>10. CASE Time \/ AllDone \/ UNCHANGED vars
  BY <1>10 DEF Time, AllDone, vars, rvars
<1> QED
  BY <1>1, <1>2, <1>3, <1>4, <1>5, <1>6, <1>7, <1>8, <1>9, <1>10 DEF Next, Session, CopyBack

\* Every step keeps the mailbox there while it is used.
LEMMA BoxThereStep ==
  ASSUME FilesInv, [Next]_vars
  PROVE  BoxThere'
<1> USE DEF BoxThere, At, FilesInv, Present, Loaded
<1>0. NoFile # <<>>
  BY NoLetters, FileLetters
<1>1. CASE RestoreAppend
  <2>1. box \in Contents /\ save \in Contents
    BY <1>1, ThereIsContents DEF RestoreAppend
  <2>2. box' \in Contents
    <3>1. box \o save \in Contents
      BY <2>1, ConcatLetters
    <3>2. \A n \in 0..(Len(save) - 1) : box \o SubSeq(save, 1, n) \o <<Torn>> \in Contents
      BY <2>1, PartRestored
    <3> QED  BY <1>1, <3>1, <3>2 DEF RestoreAppend
  <2>3. box' # NoFile
    BY <2>2, FileLetters
  <2> QED  BY <1>1, <2>3 DEF RestoreAppend
<1>2. CASE CkStat \/ RestoreRename \/ RestoreFails \/ UnlinkSave
  BY <1>2 DEF CkStat, RestoreRename, RestoreFails, UnlinkSave, dvars
<1>3. CASE Open \/ Load \/ Prompt \/ TakeIn \/ Interrupt
             \/ Command \/ Quit \/ ExitUnchanged
  BY <1>3
  DEF Open, Load, Prompt, TakeIn, NewMail, CloseNewMail, ReopenTmp, Interrupt,
      InterruptNewMail, BreakNewMail, InterruptLoaded, InterruptSized, InterruptReopen,
      ToPrompt, Mishap, Command, Quit, ExitUnchanged,
      dvars
<1>4. CASE TakeNewMail \/ CreateSave \/ CopyLetter
  BY <1>4 DEF TakeNewMail, CreateSave, CopyLetter, dvars
<1>5. CASE UnlinkBox \/ RenameSave \/ Finish
  BY <1>5 DEF UnlinkBox, RenameSave, Finish
<1>6. CASE ReaderExit \/ ReaderCrash
  <2>1. box' # NoFile \/ box' = box
    <3>1. ASSUME At("restore"), box # NoFile,
                 NEW n \in 0..(Len(save) - 1), box' = box \o SubSeq(save, 1, n) \o <<Torn>>
          PROVE  box' # NoFile
      <4>1. box \in Contents /\ save \in Contents
        BY <3>1, ThereIsContents
      <4> QED  BY <3>1, <4>1, PartRestored, FileLetters
    <3> QED  BY <1>6, <3>1 DEF ReaderExit, ReaderCrash, ReaderGone, LeavesPart
  <2> QED  BY <1>6, <2>1 DEF ReaderExit, ReaderCrash, ReaderGone, dvars
<1>7. CASE ReaderTry \/ ReaderStart \/ Time \/ AllDone \/ UNCHANGED vars
  BY <1>7 DEF ReaderTry, ReaderStart, Time, AllDone, vars, rvars, dvars
<1>8. ASSUME NEW d \in Deliverer, Delivery(d) PROVE BoxThere'
  <2>1. box # NoFile => box' # NoFile
    BY <1>8, DeliveryGrows, FileLetters
  <2>2. rpc' = rpc
    BY <1>8
    DEF Delivery, DeliveryStart, DeliveryTry, OpenBox, AppendLetter, DeliveryUnlock,
        DeliveryExit, DeliveryCrash, rvars
  <2>3. \A e \in Deliverer : linked'[e] => linked[e] \/ box' # NoFile
    <3> USE DEF FileTypes
    <3>1. CASE OpenBox(d)
      BY <1>0, <3>1 DEF OpenBox
    <3>2. CASE DeliveryExit(d) \/ DeliveryCrash(d)
      BY <3>2 DEF DeliveryExit, DeliveryCrash
    <3>3. CASE DeliveryStart(d) \/ DeliveryTry(d) \/ AppendLetter(d) \/ DeliveryUnlock(d)
      BY <3>3 DEF DeliveryStart, DeliveryTry, AppendLetter, DeliveryUnlock, dvars
    <3> QED  BY <1>8, <3>1, <3>2, <3>3 DEF Delivery
  <2> QED  BY <2>1, <2>2, <2>3
<1> QED
  BY <1>1, <1>2, <1>3, <1>4, <1>5, <1>6, <1>7, <1>8 DEF Next, Session, Restore, CopyBack

\* Every step keeps the last address in the mailbox.
LEMMA MailKnownStep ==
  ASSUME FilesInv, [Next]_vars
  PROVE  MailKnown'
<1> USE DEF MailKnown, At, FilesInv, Present, Loaded
<1>1. CASE Restore \/ Open
  BY <1>1
  DEF Restore, CkStat, RestoreRename, RestoreFails, RestoreAppend, UnlinkSave, Open
<1>2. CASE Load
  <2>1. Last(adr') = Len(tmp') /\ tmp' = box /\ box' = box
    BY <1>2, LoadCopy DEF Load
  <2>2. Len(box) \in Nat
    BY <1>2, LengthsAreNumbers DEF Load
  <2> QED  BY <2>1, <2>2
<1>3. CASE NewMail
  <2>1. Last(adr') = Len(box) /\ box' = box
    BY <1>3, NewMailCopy DEF NewMail
  <2>2. Len(box) \in Nat
    BY <1>3, LengthsAreNumbers DEF NewMail
  <2> QED  BY <2>1, <2>2
<1>4. CASE BreakNewMail
  <2>1. Last(adr') <= Last(adr) /\ box' = box /\ Last(adr) <= Len(box)
    BY <1>4, BreakNewMailCopy DEF BreakNewMail
  <2>2. Len(box) \in Nat /\ Last(adr) \in Nat
    <3>1. Len(box) \in Nat
      BY <1>4, LengthsAreNumbers DEF BreakNewMail
    <3>2. Last(adr) \in Nat
      BY ThereIsContents DEF Table, Last
    <3> QED  BY <3>1, <3>2
  <2>3. Last(adr') \in Nat
    <3>1. Table(adr')
      BY CopyStep DEF CopyKept
    <3> QED  BY <3>1 DEF Table, Last
  <2> QED  BY <2>1, <2>2, <2>3
<1>5. CASE Prompt \/ CloseNewMail \/ ReopenTmp \/ InterruptNewMail \/ InterruptLoaded
             \/ InterruptReopen \/ Command \/ Quit \/ ExitUnchanged
  BY <1>5
  DEF Prompt, CloseNewMail, ReopenTmp, InterruptNewMail, InterruptLoaded, InterruptReopen,
      Command, Quit, ExitUnchanged
<1>10. CASE InterruptSized
  <2>1. Last(adr') = Len(box) /\ box' = box
    BY <1>10, InterruptSizedCopy DEF InterruptSized
  <2>2. Len(box) \in Nat
    BY <1>10, LengthsAreNumbers DEF InterruptSized
  <2> QED  BY <2>1, <2>2
<1>6. CASE CopyBack
  BY <1>6 DEF CopyBack, TakeNewMail, CreateSave, CopyLetter, UnlinkBox, RenameSave, Finish
<1>7. CASE ReaderTry \/ ReaderExit \/ ReaderCrash \/ ReaderStart
  BY <1>7 DEF ReaderTry, ReaderExit, ReaderCrash, ReaderStart, ReaderGone, rvars
<1>8. ASSUME NEW d \in Deliverer, Delivery(d) PROVE MailKnown'
  <2>1. rpc' = rpc /\ adr' = adr
    BY <1>8
    DEF Delivery, DeliveryStart, DeliveryTry, OpenBox, AppendLetter, DeliveryUnlock,
        DeliveryExit, DeliveryCrash, rvars
  <2> SUFFICES ASSUME rpc \in Loaded PROVE Last(adr) <= Len(box')
    BY <2>1
  <2>2. Len(box) <= Len(box') /\ box' \in Contents
    BY <1>8, DeliveryGrows DEF Begins
  <2>3. Len(box) \in Nat /\ Len(box') \in Nat /\ Last(adr) \in Nat /\ Last(adr) <= Len(box)
    <3>1. Len(box) \in Nat /\ Len(box') \in Nat
      BY <2>2, LengthsAreNumbers, LenProperties DEF Contents
    <3>2. Last(adr) \in Nat
      BY ThereIsContents DEF Table, Last
    <3> QED  BY <3>1, <3>2
  <2> QED  BY <2>2, <2>3
<1>9. CASE Time \/ AllDone \/ UNCHANGED vars
  BY <1>9 DEF Time, AllDone, vars, rvars
<1> QED
  BY <1>1, <1>2, <1>3, <1>4, <1>5, <1>6, <1>7, <1>8, <1>9, <1>10
  DEF Next, Session, TakeIn, Interrupt

\* Every step keeps the invariant of the files.
LEMMA FilesInvStep == FilesInv /\ [Next]_vars => FilesInv'
<1> SUFFICES ASSUME FilesInv, [Next]_vars PROVE FilesInv'
  OBVIOUS
<1>1. FileTypes'
  BY FilesStep, CopyStep, CountsStep DEF FileTypes, FilesKept, CopyKept, CountsKept
<1>2. Present'
  BY SaveThereStep, BoxThereStep, MailKnownStep DEF Present, SaveThere, BoxThere, MailKnown
<1>3. Origin'
  BY OriginStep
<1> QED  BY <1>1, <1>2, <1>3 DEF FilesInv

\* The invariant of the files holds at the start.
LEMMA FilesInvInit == Init => FilesInv
<1> SUFFICES ASSUME Init PROVE FilesInv
  OBVIOUS
<1>1. OldMail \in Contents /\ Letters(OldMail) \subseteq Range(OldMail)
  <2>1. OldMail \in Contents
    BY MailboxAssumption, SeqMonotonic DEF Contents, Letter
  <2> QED  BY <2>1, FileLetters DEF Letters
<1>2. FileTypes
  <2>1. Table(adr) /\ tmp \in Contents
    BY NoLetters DEF Init
  <2>2. 0 \in 0..(MaxLet + 1) /\ 1 \in 0..MaxSessions
    BY MailboxAssumption
  <2> QED  BY <1>1, <2>1, <2>2 DEF Init, FileTypes, ReaderStates, Letter
<1>3. Present
  BY DEF Init, Present, Loaded
<1>4. Origin
  BY <1>1, NoLetters, NoFileLetters, MailboxAssumption DEF Init, Origin
<1> QED  BY <1>2, <1>3, <1>4 DEF FilesInv

\* With the types of the lock it gives the types of the mailbox.
LEMMA FilesInvTypes == FilesInv /\ L!TypeOK => TypeOK
<1> SUFFICES ASSUME FilesInv, L!TypeOK PROVE TypeOK
  OBVIOUS
<1>1. adr \in Seq(Nat) /\ Len(adr) \in 1..(MaxLet + 1)
  BY ThereIsContents DEF Table
<1>2. marked \subseteq 1..MaxLet
  <2>1. marked \subseteq 1..nlet
    BY DEF FilesInv, FileTypes
  <2>2. nlet \in 0..MaxLet /\ MaxLet \in Nat
    BY LengthsAreNumbers, MailboxAssumption
  <2> QED  BY <2>1, <2>2
<1>3. tmp \in File \ {NoFile} /\ box \in File /\ save \in File
  BY ThereIsContents, FileLetters DEF File, Contents
<1> QED  BY <1>1, <1>2, <1>3 DEF TypeOK, FilesInv, FileTypes

\* For any letters, any table and any number of deliveries, the state of the
\* mailbox, the session and the deliveries has its type.
THEOREM MailboxTypes == Spec => []TypeOK
<1>1. Spec => []LP!LockInv
  BY LockInvHolds
<1>2. Spec => []FilesInv
  BY FilesInvInit, FilesInvStep, PTL DEF Spec
<1>3. LP!LockInv => L!TypeOK
  BY DEF LP!LockInv, LP!TypeOK, L!TypeOK, LP!Waiting, L!Waiting, LP!Between,
         L!Between
<1> QED  BY <1>1, <1>2, <1>3, FilesInvTypes, PTL

-----------------------------------------------------------------------------
\* While the session is in the mailbox no delivery is, unless the store is
\* impaired.
Alone ==
    (Unimpaired /\ lpc[Reader] = "in") =>
        \A d \in Deliverer : lpc[d] # "in" /\ dpc[d] \notin {"append", "unlock"}

AloneInv == PlacesHold /\ Alone

\* The places and the exclusion of the lock give it, because a session whose
\* flag was cut off does not hold the lock.
LEMMA AloneHolds == PlaceInv /\ CutInv /\ LP!LockInv => AloneInv
<1> SUFFICES ASSUME PlaceInv, CutInv, LP!LockInv PROVE AloneInv
  OBVIOUS
<1>1. L!Exclusion
  BY LockInvExcludes
<1>2. Unimpaired /\ lpc[Reader] = "in" => Reader \notin cut
  BY Processes DEF LP!LockInv, LP!HolderOwnsFile, LP!Holds, CutInv, Unimpaired
<1> QED
  BY <1>1, <1>2, Processes
  DEF PlaceInv, PlaceTypes, PlacesHold, L!Exclusion, L!Holds, Alone, AloneInv, Unimpaired

\* What has gone wrong stays so.
LEMMA ImpairedStays ==
  ASSUME FilesInv, [Next]_vars, Unimpaired'
  PROVE  Unimpaired
<1>1. mishaps \subseteq mishaps'
  BY CountsStep DEF CountsKept
<1>2. clobbers \subseteq clobbers'
  <2>1. [L!Next]_lockvars
    BY LockStep
  <2>2. ASSUME NEW p \in Proc,
               \/ L!Enter(p) \/ L!Try(p) \/ L!Unlock(p) \/ L!UnlockAgain(p) \/ L!Abandon(p)
               \/ L!Exit(p) \/ L!Crash(p) \/ L!Start(p)
        PROVE  clobbers \subseteq clobbers'
    BY <2>2
    DEF L!Enter, L!Try, L!Link, L!Note, L!LinkExists, L!LinkFails, L!StatGone, L!StatFound,
        L!Break, L!Unnote, L!Unlock, L!UnlockAgain, L!Abandon, L!Exit, L!Crash, L!Start,
        L!RemoveName
  <2>3. L!Tick => clobbers \subseteq clobbers'
    BY DEF L!Tick
  <2>4. UNCHANGED lockvars => clobbers \subseteq clobbers'
    BY DEF lockvars
  <2> QED  BY <2>1, <2>2, <2>3, <2>4 DEF L!Next
<1> QED  BY <1>1, <1>2 DEF Unimpaired

\* Where all that the save file has is in the mailbox too.
Restored == Loaded \cup {"unlinksave", "open", "load", "create", "copy"}

\* As long as nothing has gone wrong unnoticed,
\* a delivery writes to the mailbox and not to a file that was one;
AppendsLinked == \A d \in Deliverer : dpc[d] = "append" => linked[d]

\* a save file that will be made empty has nothing the mailbox lacks;
SaveInBox == rpc \in Restored => Letters(save) \subseteq Letters(box)

\* the session's copy is the beginning of the mailbox, then all of it;
CopyTrue ==
    /\ rpc \in Loaded \cup {"create", "copy"} => Last(adr) = Len(tmp)
    /\ rpc \in Loaded => Begins(tmp, box)
    /\ rpc \in {"create", "copy"} => tmp = box

\* and what is not marked gets into the save file, and the save file into the
\* place of the mailbox.
Copied ==
    /\ rpc = "copy" =>
         \A i \in 1..(nextlet - 1) : i \in marked \/ Letters(Chunk(i)) \subseteq Letters(save)
    /\ rpc = "copy" /\ 1..(nextlet - 1) \subseteq marked => save = <<>>
    /\ rpc = "rename" => box = NoFile
    /\ rpc = "rename" /\ 1..nlet \subseteq marked => save = <<>>
    /\ rpc = "finish" /\ 1..nlet \subseteq marked => box = <<>>

CopyInv == AppendsLinked /\ SaveInBox /\ CopyTrue /\ Copied

StoreInv == Unimpaired => CopyInv

\* What the lemmas about a step start from.
Before == FilesInv /\ AloneInv /\ Unimpaired /\ CopyInv

\* No delivery touches the mailbox while the session is in it.
LEMMA DeliveryOutside ==
  ASSUME Before, NEW d \in Deliverer, Delivery(d), rpc \in InMailbox
  PROVE  box' = box
<1>1. lpc[d] # "in" /\ dpc[d] # "append"
  BY DEF Before, AloneInv, PlacesHold, Alone, Unimpaired
<1>2. ~OpenBox(d) /\ ~AppendLetter(d)
  BY <1>1 DEF OpenBox, AppendLetter, L!Holds
<1>3. CASE DeliveryExit(d) \/ DeliveryCrash(d)
  BY <1>1, <1>3 DEF DeliveryExit, DeliveryCrash, LeavesTorn
<1>4. CASE DeliveryStart(d) \/ DeliveryTry(d) \/ DeliveryUnlock(d)
  BY <1>4 DEF DeliveryStart, DeliveryTry, DeliveryUnlock
<1> QED  BY <1>2, <1>3, <1>4 DEF Delivery

\* A delivery leaves the session's part alone.
LEMMA DeliveryAside ==
  ASSUME NEW d \in Deliverer, Delivery(d)
  PROVE  /\ rpc' = rpc /\ save' = save /\ tmp' = tmp /\ adr' = adr
         /\ marked' = marked /\ nextlet' = nextlet
  BY DEF Delivery, DeliveryStart, DeliveryTry, OpenBox, AppendLetter, DeliveryUnlock,
         DeliveryExit, DeliveryCrash, rvars

\* Every step keeps deliveries appending to the mailbox itself.
LEMMA AppendsLinkedStep ==
  ASSUME Before, [Next]_vars
  PROVE  AppendsLinked'
<1> USE DEF Before, CopyInv, AppendsLinked
<1>1. CASE dpc' = dpc /\ linked' = linked
  BY <1>1
<1>2. CASE UnlinkBox \/ RenameSave \/ Finish
  <2>1. rpc \in InMailbox /\ dpc' = dpc
    BY <1>2 DEF UnlinkBox, RenameSave, Finish, At, InMailbox, dvars
  <2>2. \A d \in Deliverer : dpc[d] # "append"
    BY <2>1 DEF AloneInv, PlacesHold, Alone, Unimpaired
  <2> QED  BY <2>1, <2>2
<1>3. CASE Restore
  BY <1>1, <1>3
  DEF Restore, CkStat, RestoreRename, RestoreFails, RestoreAppend, UnlinkSave, dvars
<1>4. CASE Open \/ Load \/ Prompt \/ TakeIn \/ Interrupt
             \/ Command \/ Quit \/ ExitUnchanged
  BY <1>1, <1>4
  DEF Open, Load, Prompt, TakeIn, NewMail, CloseNewMail, ReopenTmp, Interrupt,
      InterruptNewMail, BreakNewMail, InterruptLoaded, InterruptSized, InterruptReopen,
      ToPrompt, Mishap, Command, Quit, ExitUnchanged,
      dvars
<1>5. CASE TakeNewMail \/ CreateSave \/ CopyLetter
  BY <1>1, <1>5 DEF TakeNewMail, CreateSave, CopyLetter, dvars
<1>6. CASE ReaderTry \/ ReaderExit \/ ReaderCrash \/ ReaderStart \/ Time \/ AllDone
             \/ UNCHANGED vars
  BY <1>1, <1>6
  DEF ReaderTry, ReaderExit, ReaderCrash, ReaderStart, ReaderGone, Time, AllDone, vars, dvars
<1>7. ASSUME NEW d \in Deliverer, Delivery(d) PROVE AppendsLinked'
  <2> USE DEF FilesInv, FileTypes, Becomes, dvars
  <2>1. CASE DeliveryStart(d) \/ DeliveryTry(d)
    BY <2>1 DEF DeliveryStart, DeliveryTry
  <2>2. CASE OpenBox(d)
    BY <2>2 DEF OpenBox
  <2>3. CASE AppendLetter(d) \/ DeliveryUnlock(d)
    BY <2>3 DEF AppendLetter, DeliveryUnlock
  <2>4. CASE DeliveryExit(d) \/ DeliveryCrash(d)
    BY <2>4 DEF DeliveryExit, DeliveryCrash
  <2> QED  BY <1>7, <2>1, <2>2, <2>3, <2>4 DEF Delivery
<1> QED
  BY <1>2, <1>3, <1>4, <1>5, <1>6, <1>7 DEF Next, Session, CopyBack

\* Every step keeps what the save file has in the mailbox.
LEMMA SaveInBoxStep ==
  ASSUME Before, [Next]_vars, Unimpaired'
  PROVE  SaveInBox'
<1> USE DEF Before, CopyInv, SaveInBox, Restored, Loaded, At
<1>1. CASE CkStat
  <2>1. Letters(NoFile) = {} /\ Letters(<<>>) = {}
    BY NoLetters, NoFileLetters
  <2> QED  BY <1>1, <2>1 DEF CkStat
<1>2. CASE RestoreRename \/ UnlinkSave
  BY <1>2, NoFileLetters DEF RestoreRename, UnlinkSave
<1>3. CASE RestoreFails
  BY <1>3 DEF RestoreFails, Unimpaired
<1>4. CASE RestoreAppend
  <2>1. box \in Contents /\ save \in Contents /\ save' = save
    BY <1>4, ThereIsContents DEF RestoreAppend, FilesInv, Present
  <2>2. box' = box \o save
    BY <1>4 DEF RestoreAppend, Unimpaired
  <2> QED  BY <2>1, <2>2, ConcatLetters
<1>5. CASE Open \/ Load \/ Prompt \/ TakeIn \/ Interrupt
             \/ Command \/ Quit \/ ExitUnchanged
  BY <1>5
  DEF Open, Load, Prompt, TakeIn, NewMail, CloseNewMail, ReopenTmp, Interrupt,
      InterruptNewMail, BreakNewMail, InterruptLoaded, InterruptSized, InterruptReopen,
      ToPrompt, Mishap, Command, Quit, ExitUnchanged
<1>6. CASE TakeNewMail
  BY <1>6 DEF TakeNewMail
<1>7. CASE CreateSave
  BY <1>7, NoLetters DEF CreateSave
<1>8. CASE CopyLetter
  <2>1. FilesKept
    BY FilesStep
  <2>2. tmp = box /\ box' = box /\ rpc = "copy"
    BY <1>8 DEF CopyLetter, CopyTrue
  <2> QED  BY <2>1, <2>2 DEF FilesKept
<1>9. CASE UnlinkBox \/ RenameSave \/ Finish
  BY <1>9 DEF UnlinkBox, RenameSave, Finish
<1>10. CASE ReaderTry \/ ReaderExit \/ ReaderCrash \/ ReaderStart
  BY <1>10 DEF ReaderTry, ReaderExit, ReaderCrash, ReaderStart, ReaderGone, rvars
<1>11. CASE Time \/ AllDone \/ UNCHANGED vars
  BY <1>11 DEF Time, AllDone, vars, rvars
<1>12. ASSUME NEW d \in Deliverer, Delivery(d) PROVE SaveInBox'
  <2>1. rpc' = rpc /\ save' = save
    BY <1>12, DeliveryAside
  <2>2. CASE box # NoFile
    BY <1>12, <2>1, <2>2, DeliveryGrows
  <2>3. CASE box = NoFile
    BY <2>1, <2>3, NoFileLetters
  <2> QED  BY <2>2, <2>3
<1> QED
  BY <1>1, <1>2, <1>3, <1>4, <1>5, <1>6, <1>7, <1>8, <1>9, <1>10, <1>11, <1>12
  DEF Next, Session, Restore, CopyBack

\* The mailbox, taken in as far as it was and then what is new, is all of it.
LEMMA TakenWhole ==
  ASSUME FileTypes, box # NoFile, Last(adr) = Len(tmp), Begins(tmp, box)
  PROVE  /\ tmp \o NewPart = box
         /\ Len(box) = Last(adr) => tmp = box
<1>1. tmp \in Contents /\ Len(tmp) \in Nat /\ box \in Contents /\ Len(box) \in Nat
  BY LenProperties DEF FileTypes, Contents
<1>2. Last(adr) <= Len(box)
  BY DEF Begins
<1>3. /\ NewPart \in Contents /\ Len(NewPart) = Len(box) - Last(adr)
      /\ \A i \in 1..(Len(box) - Last(adr)) : NewPart[i] = box[Last(adr) + i]
  BY <1>2, NewPartLetters
<1>4. /\ tmp \o NewPart \in Contents /\ Len(tmp \o NewPart) = Len(tmp) + Len(NewPart)
      /\ \A i \in 1..(Len(tmp) + Len(NewPart)) :
           (tmp \o NewPart)[i] = IF i <= Len(tmp) THEN tmp[i] ELSE NewPart[i - Len(tmp)]
  BY <1>1, <1>3, ConcatProperties DEF Contents
<1> DEFINE whole == tmp \o NewPart
<1> HIDE DEF whole
<1>5. ASSUME NEW i \in 1..Len(box) PROVE whole[i] = box[i]
  <2>1. CASE i <= Len(tmp)
    BY <1>1, <1>2, <1>3, <1>4, <2>1 DEF Begins, whole
  <2>2. CASE i > Len(tmp)
    <3>1. i - Len(tmp) \in 1..(Len(box) - Last(adr)) /\ Last(adr) + (i - Len(tmp)) = i
      BY <1>1, <1>2, <2>2
    <3>2. whole[i] = NewPart[i - Len(tmp)]
      BY <1>1, <1>2, <1>3, <1>4, <2>2 DEF whole
    <3> QED  BY <1>3, <3>1, <3>2
  <2> QED  BY <1>1, <2>1, <2>2
<1>6. whole = box
  <2>1. whole \in Contents /\ Len(whole) = Len(box)
    BY <1>1, <1>2, <1>3, <1>4 DEF whole
  <2> QED  BY <1>1, <1>5, <2>1, SeqEqual DEF Contents
<1>7. Len(box) = Last(adr) => tmp = box
  BY <1>1, SeqEqual DEF Contents, Begins
<1> QED  BY <1>6, <1>7 DEF whole

\* Every step keeps the copy true.
LEMMA CopyTrueStep ==
  ASSUME Before, [Next]_vars, Unimpaired'
  PROVE  CopyTrue'
<1> USE DEF Before, CopyInv, CopyTrue, Loaded, At
<1>1. CASE Restore \/ Open
  BY <1>1
  DEF Restore, CkStat, RestoreRename, RestoreFails, RestoreAppend, UnlinkSave, Open
<1>2. CASE Load
  <2>1. Last(adr') = Len(tmp') /\ tmp' = box /\ box \in Contents
    BY <1>2, LoadCopy
  <2> QED  BY <1>2, <2>1, SameBegins DEF Load
<1>3. CASE NewMail
  <2>1. box # NoFile /\ FileTypes
    BY <1>3 DEF NewMail, FilesInv, Present
  <2>2. tmp' = box /\ box' = box /\ rpc' = "loaded"
    BY <1>3, <2>1, TakenWhole DEF NewMail
  <2>3. Last(adr') = Len(box)
    BY <1>3, NewMailCopy
  <2>4. box \in Contents
    BY <2>1, ThereIsContents
  <2> QED  BY <2>2, <2>3, <2>4, SameBegins
<1>4. CASE BreakNewMail \/ InterruptSized \/ InterruptReopen
  BY <1>4 DEF BreakNewMail, InterruptSized, InterruptReopen, Mishap, Unimpaired
<1>5. CASE Prompt \/ CloseNewMail \/ ReopenTmp \/ InterruptNewMail \/ InterruptLoaded
             \/ Command \/ Quit \/ ExitUnchanged
  BY <1>5
  DEF Prompt, CloseNewMail, ReopenTmp, InterruptNewMail, InterruptLoaded, ToPrompt, Command, Quit,
      ExitUnchanged
<1>6. CASE TakeNewMail
  <2>1. box # NoFile /\ FileTypes /\ box' = box /\ rpc' \in {"create", "bye"}
    BY <1>6 DEF TakeNewMail, FilesInv, Present
  <2>2. rpc = "copyback"
    BY <1>6 DEF TakeNewMail
  <2>3. tmp \o NewPart = box /\ (Len(box) = Last(adr) => tmp = box)
    BY <2>1, <2>2, TakenWhole
  <2> QED  BY <1>6, <2>1, <2>2, <2>3, TakeNewMailCopy
<1>7. CASE CreateSave \/ CopyLetter \/ UnlinkBox \/ RenameSave \/ Finish
  BY <1>7 DEF CreateSave, CopyLetter, UnlinkBox, RenameSave, Finish
<1>8. CASE ReaderTry \/ ReaderExit \/ ReaderCrash \/ ReaderStart
  BY <1>8 DEF ReaderTry, ReaderExit, ReaderCrash, ReaderStart, ReaderGone, rvars
<1>9. CASE Time \/ AllDone \/ UNCHANGED vars
  BY <1>9 DEF Time, AllDone, vars, rvars
<1>10. ASSUME NEW d \in Deliverer, Delivery(d) PROVE CopyTrue'
  <2>1. rpc' = rpc /\ tmp' = tmp /\ adr' = adr
    BY <1>10, DeliveryAside
  <2>2. CASE rpc \in {"create", "copy"}
    BY <1>10, <2>1, <2>2, DeliveryOutside DEF InMailbox
  <2>3. CASE rpc \in Loaded
    <3>1. box # NoFile
      BY <2>3 DEF FilesInv, Present
    <3>2. Begins(box, box') /\ box' \in Contents
      BY <1>10, <3>1, DeliveryGrows
    <3>3. Begins(tmp, box)
      BY <2>3
    <3>4. Begins(tmp, box')
      <4>1. Len(tmp) \in Nat /\ Len(box) \in Nat /\ Len(box') \in Nat
        BY <3>1, <3>2, ThereIsContents, LenProperties DEF Contents
      <4> QED  BY <3>2, <3>3, <4>1 DEF Begins
    <3> QED  BY <2>1, <2>3, <3>4
  <2> QED  BY <2>1, <2>2, <2>3
<1> QED
  BY <1>1, <1>2, <1>3, <1>4, <1>5, <1>6, <1>7, <1>8, <1>9, <1>10
  DEF Next, Session, CopyBack, TakeIn, Interrupt

\* Every step keeps what copyback() has done.
LEMMA CopiedStep ==
  ASSUME Before, [Next]_vars, Unimpaired'
  PROVE  Copied'
<1> USE DEF Before, CopyInv, Copied, At
<1>1. CASE Restore \/ Open
  BY <1>1
  DEF Restore, CkStat, RestoreRename, RestoreFails, RestoreAppend, UnlinkSave, Open
<1>2. CASE Load \/ Prompt \/ TakeIn \/ Interrupt \/ Command \/ Quit \/ ExitUnchanged
             \/ TakeNewMail
  BY <1>2
  DEF Load, Prompt, TakeIn, NewMail, CloseNewMail, ReopenTmp, Interrupt, InterruptNewMail,
      BreakNewMail, InterruptLoaded, InterruptSized, InterruptReopen, ToPrompt, Command, Quit,
      ExitUnchanged, TakeNewMail
<1>3. CASE CreateSave
  BY <1>3 DEF CreateSave
<1>4. CASE CopyLetter
  <2>1. adr' = adr /\ tmp' = tmp /\ marked' = marked /\ rpc = "copy" /\ nextlet <= nlet
    BY <1>4 DEF CopyLetter
  <2>2. CASE rpc' = "bye"
    BY <2>2
  <2>3. CASE rpc' = rpc
    <3>1. nextlet \in Nat /\ nextlet >= 1 /\ nextlet \in 1..nlet
      <4>1. nextlet \in 1..(nlet + 1) /\ nlet \in Nat
        BY <2>1, LengthsAreNumbers DEF FilesInv, Present
      <4> QED  BY <2>1, <4>1
    <3>2. save \in Contents
      BY <2>1, ThereIsContents DEF FilesInv, Present
    <3>3. Chunk(nextlet) \in Contents
      BY <3>1, ThereIsContents, ChunkLetters
    <3>4. /\ nextlet' = nextlet + 1
          /\ save' = IF nextlet \in marked THEN save ELSE save \o Chunk(nextlet)
      BY <1>4, <2>1, <2>3 DEF CopyLetter
    <3>5. Letters(save) \subseteq Letters(save')
            /\ (nextlet \in marked \/ Letters(Chunk(nextlet)) \subseteq Letters(save'))
      BY <3>2, <3>3, <3>4, ConcatLetters
    <3>6. \A i \in 1..(nextlet' - 1) :
             i \in marked \/ Letters(Chunk(i)) \subseteq Letters(save')
      <4> SUFFICES ASSUME NEW i \in 1..nextlet
                   PROVE  i \in marked \/ Letters(Chunk(i)) \subseteq Letters(save')
        BY <3>1, <3>4
      <4>1. i = nextlet \/ i \in 1..(nextlet - 1)
        BY <3>1
      <4> QED  BY <2>1, <3>5, <4>1
    <3>7. \A i : Chunk(i)' = Chunk(i)
      BY <2>1 DEF Chunk
    <3>8. 1..(nextlet' - 1) \subseteq marked => save' = <<>>
      <4> SUFFICES ASSUME 1..nextlet \subseteq marked PROVE save' = <<>>
        BY <3>1, <3>4
      <4>1. nextlet \in marked /\ 1..(nextlet - 1) \subseteq marked
        BY <3>1
      <4> QED  BY <2>1, <3>4, <4>1
    <3> QED  BY <2>1, <2>3, <3>6, <3>7, <3>8
  <2> QED  BY <1>4, <2>2, <2>3 DEF CopyLetter
<1>5. CASE UnlinkBox
  <2>1. rpc = "copy" /\ nextlet > nlet /\ adr' = adr /\ marked' = marked
    BY <1>5 DEF UnlinkBox
  <2>2. nextlet - 1 = nlet /\ nlet' = nlet
    <3>1. nextlet \in 1..(nlet + 1) /\ nlet \in Nat
      BY <2>1, LengthsAreNumbers DEF FilesInv, Present
    <3> QED  BY <2>1, <3>1 DEF nlet
  <2>3. save' = save
    BY <1>5 DEF UnlinkBox, Unimpaired
  <2> QED  BY <1>5, <2>1, <2>2, <2>3 DEF UnlinkBox
<1>6. CASE RenameSave
  BY <1>6 DEF RenameSave, nlet
<1>7. CASE Finish \/ ReaderExit \/ ReaderCrash \/ ReaderStart
  BY <1>7 DEF Finish, ReaderExit, ReaderCrash, ReaderStart, ReaderGone
<1>8. CASE ReaderTry \/ Time \/ AllDone \/ UNCHANGED vars
  BY <1>8 DEF ReaderTry, Time, AllDone, vars, rvars, nlet, Chunk
<1>9. ASSUME NEW d \in Deliverer, Delivery(d) PROVE Copied'
  <2>1. rpc' = rpc /\ save' = save /\ tmp' = tmp /\ adr' = adr /\ marked' = marked
          /\ nextlet' = nextlet
    BY <1>9, DeliveryAside
  <2>2. rpc \in InMailbox => box' = box
    BY <1>9, DeliveryOutside
  <2> QED  BY <2>1, <2>2 DEF InMailbox, nlet, Chunk
<1> QED
  BY <1>1, <1>2, <1>3, <1>4, <1>5, <1>6, <1>7, <1>8, <1>9 DEF Next, Session, CopyBack

\* Every step keeps the invariant of the store.
LEMMA StoreInvStep == FilesInv /\ AloneInv /\ StoreInv /\ [Next]_vars => StoreInv'
<1> SUFFICES ASSUME FilesInv, AloneInv, StoreInv, [Next]_vars, Unimpaired' PROVE CopyInv'
  BY DEF StoreInv
<1>1. Before
  BY ImpairedStays DEF StoreInv, Before
<1> QED
  BY <1>1, AppendsLinkedStep, SaveInBoxStep, CopyTrueStep, CopiedStep DEF CopyInv

\* The invariant of the store holds at the start.
LEMMA StoreInvInit == Init => StoreInv
  BY DEF Init, StoreInv, CopyInv, AppendsLinked, SaveInBox, Restored, Loaded, CopyTrue, Copied

\* The invariants of the mailbox hold together.
MailboxInv == FilesInv /\ AloneInv /\ StoreInv

\* The invariants hold in every reachable state.
LEMMA MailboxInvHolds == Spec => []MailboxInv
<1>1. Spec => []PlaceInv
  BY PlaceInvInit, PlaceInvStep, PTL DEF Spec
<1>2. Spec => []LP!LockInv
  BY LockInvHolds
<1>3. Spec => []CutInv
  BY CutInvHolds
<1>4. Spec => []AloneInv
  BY <1>1, <1>2, <1>3, AloneHolds, PTL
<1>5. Spec => []FilesInv
  BY FilesInvInit, FilesInvStep, PTL DEF Spec
<1>6. Spec => []StoreInv
  BY <1>4, <1>5, StoreInvInit, StoreInvStep, PTL DEF Spec
<1> QED  BY <1>4, <1>5, <1>6, PTL DEF MailboxInv

\* For any number of deliveries: whenever the session asks for a command, its
\* temporary file is the beginning of the mailbox and its last address the end
\* of it.
THEOREM TmpMirrors == Spec => []TmpMirrorsBox
<1>1. MailboxInv => TmpMirrorsBox
  <2> SUFFICES ASSUME MailboxInv, Unimpaired, At("command") PROVE
        Last(adr) = Len(tmp) /\ box # NoFile /\ IsPrefix(tmp, box)
    BY DEF TmpMirrorsBox
  <2>1. Last(adr) = Len(tmp) /\ Begins(tmp, box)
    BY DEF MailboxInv, StoreInv, CopyInv, CopyTrue, At, Loaded
  <2>2. box # NoFile
    BY DEF MailboxInv, FilesInv, Present, At, Loaded
  <2>3. box \in Contents /\ tmp \in Contents /\ Len(tmp) \in Nat /\ Len(box) \in Nat
    BY <2>2, ThereIsContents, LenProperties DEF MailboxInv, Contents
  <2>4. SubSeq(tmp, 1, Len(tmp)) = tmp
    BY <2>3, SubSeqFull DEF Contents
  <2> DEFINE first == SubSeq(box, 1, Len(tmp))
  <2>5. first \in Contents /\ Len(first) = Len(tmp) /\ \A i \in 1..Len(tmp) : first[i] = box[i]
    <3>1. \A i \in 1..Len(tmp) : box[i] \in Letter \cup {Torn}
      BY <2>1, <2>3, ElementOfSeq DEF Begins, Contents
    <3> QED  BY <2>3, <3>1, SubSeqProperties DEF Contents
  <2> HIDE DEF first
  <2>6. first = tmp
    BY <2>1, <2>3, <2>5, SeqEqual DEF Contents, Begins
  <2> QED  BY <2>1, <2>2, <2>4, <2>6 DEF IsPrefix, Begins, first
<1> QED  BY <1>1, MailboxInvHolds, PTL

-----------------------------------------------------------------------------
(* The mailbox implements the store *)

\* The letters the user has chosen, as the refinement sees them.
Chosen == UNION {Range(Chunk(i)) \ {Torn} : i \in marked}

\* What is chosen are letters.
LEMMA ChosenLetters == FilesInv => Chosen \subseteq Letter
<1> SUFFICES ASSUME FilesInv, NEW i \in marked PROVE Range(Chunk(i)) \ {Torn} \subseteq Letter
  BY DEF Chosen
<1>1. i \in 1..nlet
  BY DEF FilesInv, FileTypes
<1>2. Chunk(i) \in Contents
  BY <1>1, ThereIsContents, ChunkLetters
<1> QED  BY <1>2, FileLetters DEF Letters

\* The same of the next state.
LEMMA ChosenNext == FilesInv' => (Chosen \subseteq Letter)'
  BY ChosenLetters, PTL

\* The stored letters are those of the mailbox and of the save file,
LEMMA StoredLetters ==
  Stored = (Letters(box) \cup Letters(save)) \cap Letter /\ Stored \subseteq Letter
  BY MailboxAssumption DEF Stored, Letters

\* and they have been delivered.
LEMMA StoredDelivered ==
  FilesInv => Stored = Letters(box) \cup Letters(save) /\ Stored \subseteq delivered
  BY StoredLetters DEF FilesInv, FileTypes, Origin

\* The same of the next state.
LEMMA StoredNext == FilesInv' => Stored' = Letters(box') \cup Letters(save')
<1>1. FilesInv' => (Stored = Letters(box) \cup Letters(save))'
  BY StoredDelivered, PTL
<1> QED  BY <1>1 DEF Letters

\* A step that neither adds nor removes a letter is the user's choice.
LEMMA ChooseStep ==
  ASSUME FilesInv', Stored' = Stored, delivered' = delivered, Unimpaired, Unimpaired'
  PROVE  Store!Choose
<1>1. Chosen' \subseteq Letter
  BY ChosenNext
<1> QED  BY <1>1 DEF Store!Choose, Chosen

\* When something has gone wrong the store promises nothing.
LEMMA FailStep ==
  ASSUME FilesInv', ~Unimpaired'
  PROVE  Store!Fail
<1>1. Chosen' \subseteq Letter
  BY ChosenNext
<1>2. Stored' \subseteq Letter
  BY DEF Stored
<1>3. delivered' \subseteq Letter
  BY DEF FilesInv, FileTypes
<1> QED  BY <1>1, <1>2, <1>3 DEF Store!Fail, Chosen

\* The stored letters are those of the mailbox and of the save file.
LEMMA SameLetters ==
  ASSUME FilesInv, FilesInv', Letters(box') \cup Letters(save') = Letters(box) \cup Letters(save)
  PROVE  Stored' = Stored
<1>1. Stored' = Letters(box') \cup Letters(save')
  BY StoredNext
<1> QED  BY <1>1, StoredDelivered

\* A session's step keeps the letters, or it throws away chosen ones.
LEMMA SessionStores ==
  ASSUME Before, FilesInv', Session, Unimpaired'
  PROVE  Store!Choose \/ Store!Discard
<1> USE DEF At
<1>1. CASE Letters(box') \cup Letters(save') = Letters(box) \cup Letters(save)
           /\ delivered' = delivered
  BY <1>1, SameLetters, ChooseStep DEF Before
<1>2. delivered' = delivered
  <2> USE DEF history
  <2>1. CASE Restore
    BY <2>1 DEF Restore, CkStat, RestoreRename, RestoreFails, RestoreAppend, UnlinkSave
  <2>2. CASE Open \/ Load \/ Prompt \/ TakeIn \/ Interrupt
               \/ Command \/ Quit \/ ExitUnchanged
    BY <2>2
    DEF Open, Load, Prompt, TakeIn, NewMail, CloseNewMail, ReopenTmp, Interrupt,
        InterruptNewMail, BreakNewMail, InterruptLoaded, InterruptSized, InterruptReopen,
        ToPrompt, Mishap, Command, Quit, ExitUnchanged
  <2>3. CASE CopyBack
    BY <2>3
    DEF CopyBack, TakeNewMail, CreateSave, CopyLetter, UnlinkBox, RenameSave, Finish
  <2>4. CASE ReaderTry \/ ReaderExit \/ ReaderCrash \/ ReaderStart
    BY <2>4 DEF ReaderTry, ReaderExit, ReaderCrash, ReaderStart, ReaderGone
  <2> QED  BY <2>1, <2>2, <2>3, <2>4 DEF Session
<1>3. CASE box' = box /\ save' = save
  BY <1>1, <1>2, <1>3
<1>4. CASE CkStat \/ RestoreFails
  BY <1>3, <1>4 DEF CkStat, RestoreFails
<1>5. CASE RestoreRename
  BY <1>1, <1>2, <1>5, NoFileLetters DEF RestoreRename
<1>6. CASE RestoreAppend
  <2>1. box \in Contents /\ save \in Contents /\ save' = save
    BY <1>6, ThereIsContents DEF RestoreAppend, Before, FilesInv, Present
  <2>2. box' = box \o save
    BY <1>6 DEF RestoreAppend, Unimpaired, Before
  <2> QED  BY <1>1, <1>2, <2>1, <2>2, ConcatLetters
<1>7. CASE UnlinkSave
  <2>1. box' = box /\ (save' = NoFile \/ save' = save) /\ rpc = "unlinksave"
    BY <1>7 DEF UnlinkSave
  <2>2. Letters(save) \subseteq Letters(box)
    BY <2>1 DEF Before, CopyInv, SaveInBox, Restored
  <2> QED  BY <1>1, <1>2, <2>1, <2>2, NoFileLetters
<1>8. CASE Open \/ Load \/ Prompt \/ TakeIn \/ Interrupt
             \/ Command \/ Quit \/ ExitUnchanged \/ TakeNewMail
  BY <1>3, <1>8
  DEF Open, Load, Prompt, TakeIn, NewMail, CloseNewMail, ReopenTmp, Interrupt,
      InterruptNewMail, BreakNewMail, InterruptLoaded, InterruptSized, InterruptReopen,
      ToPrompt, Mishap, Command, Quit, ExitUnchanged,
      TakeNewMail
<1>9. CASE CreateSave
  <2>1. box' = box /\ (save' = <<>> \/ save' = save) /\ rpc = "create"
    BY <1>9 DEF CreateSave
  <2>2. Letters(save) \subseteq Letters(box)
    BY <2>1 DEF Before, CopyInv, SaveInBox, Restored
  <2> QED  BY <1>1, <1>2, <2>1, <2>2, NoLetters
<1>10. CASE CopyLetter
  <2>1. box' = box /\ rpc = "copy" /\ nextlet <= nlet
    BY <1>10 DEF CopyLetter
  <2>2. Letters(save) \subseteq Letters(box) /\ tmp = box
    BY <2>1 DEF Before, CopyInv, SaveInBox, Restored, CopyTrue
  <2>3. FilesInv /\ [Next]_vars
    BY DEF Before, Next
  <2>4. Letters(save') \subseteq Letters(save) \cup Letters(tmp)
    BY <2>3, FilesStep DEF FilesKept
  <2> QED  BY <1>1, <1>2, <2>1, <2>2, <2>4
<1>11. CASE UnlinkBox
  <2>1. save' = save
    BY <1>11 DEF UnlinkBox, Unimpaired, Before
  <2>2. CASE box' = box
    BY <1>3, <2>1, <2>2
  <2>3. CASE box' = NoFile
    <3>1. /\ rpc = "copy" /\ nextlet > nlet
          /\ tmp' = tmp /\ adr' = adr /\ marked' = marked
      BY <1>11 DEF UnlinkBox
    <3>2. tmp = box /\ Last(adr) = Len(tmp)
      BY <3>1 DEF Before, CopyInv, CopyTrue
    <3> DEFINE S == Letters(box) \ Letters(save)
    <3>3. S \subseteq Chosen
      <4> SUFFICES ASSUME NEW x \in S PROVE x \in Chosen
        OBVIOUS
      <4>1. FilesInv
        BY DEF Before
      <4>2. PICK i \in 1..nlet : x \in Letters(Chunk(i))
        BY <3>2, <4>1, ThereIsContents, ChunksCover
      <4>3. i \in 1..(nextlet - 1)
        <5>1. nextlet \in 1..(nlet + 1) /\ nlet \in Nat
          BY <3>1, <4>1, LengthsAreNumbers DEF FilesInv, Present
        <5> QED  BY <3>1, <5>1
      <4>4. i \in marked
        BY <3>1, <4>2, <4>3 DEF Before, CopyInv, Copied
      <4>5. x \in Range(Chunk(i)) \ {Torn}
        BY <4>1, <4>2, ThereIsContents, ChunkLetters, FileLetters DEF Letters
      <4> QED  BY <4>4, <4>5 DEF Chosen
    <3>4. Stored = Letters(box) \cup Letters(save) /\ Stored \subseteq delivered
      BY StoredDelivered DEF Before
    <3>5. Stored' = Letters(save)
      BY <2>1, <2>3, StoredNext, NoFileLetters
    <3>6. S \subseteq Stored \cap Chosen /\ Stored' = Stored \ S
            /\ delivered' \ Stored' = (delivered \ Stored) \cup S
      BY <1>2, <3>3, <3>4, <3>5
    <3>7. Chosen' = Chosen
      BY <3>1 DEF Chosen, Chunk
    <3> HIDE DEF S
    <3> QED  BY <3>6, <3>7 DEF Store!Discard, Chosen, Before
  <2> QED  BY <1>11, <2>2, <2>3 DEF UnlinkBox
<1>12. CASE RenameSave
  <2>1. /\ rpc = "rename"
        /\ \/ box' = save /\ save' = NoFile
           \/ box' = box /\ save' = save
    BY <1>12 DEF RenameSave
  <2>2. box = NoFile
    BY <2>1 DEF Before, CopyInv, Copied
  <2> QED  BY <1>1, <1>2, <2>1, <2>2, NoFileLetters
<1>13. CASE Finish
  <2>1. /\ rpc = "finish" /\ save' = save
        /\ box' = box \/ (1..nlet \subseteq marked /\ box' = NoFile)
    BY <1>13 DEF Finish
  <2>2. 1..nlet \subseteq marked => box = <<>>
    BY <2>1 DEF Before, CopyInv, Copied
  <2> QED  BY <1>1, <1>2, <2>1, <2>2, NoFileLetters, NoLetters
<1>14. CASE ReaderTry \/ ReaderStart
  BY <1>3, <1>14 DEF ReaderTry, ReaderStart
<1>15. CASE ReaderExit \/ ReaderCrash
  <2>1. save' = save
    BY <1>15 DEF ReaderExit, ReaderCrash, ReaderGone
  <2>2. CASE box' = box
    BY <1>3, <2>1, <2>2
  <2>3. ASSUME At("restore"), box # NoFile,
               NEW n \in 0..(Len(save) - 1), box' = box \o SubSeq(save, 1, n) \o <<Torn>>
        PROVE  Letters(box') \cup Letters(save') = Letters(box) \cup Letters(save)
    <3>1. box \in Contents /\ save \in Contents
      BY <2>3, ThereIsContents DEF At, Before, FilesInv, Present
    <3> QED  BY <2>1, <2>3, <3>1, PartRestored
  <2> QED  BY <1>1, <1>2, <1>15, <2>2, <2>3 DEF ReaderExit, ReaderCrash, ReaderGone, LeavesPart
<1> QED
  BY <1>4, <1>5, <1>6, <1>7, <1>8, <1>9, <1>10, <1>11, <1>12, <1>13, <1>14, <1>15
  DEF Session, Restore, CopyBack

\* A delivery's step keeps the letters, or its own arrives.
LEMMA DeliveryStores ==
  ASSUME Before, FilesInv', NEW d \in Deliverer, Delivery(d), Unimpaired'
  PROVE  Store!Choose \/ Store!Arrive
<1>1. save' = save /\ tmp' = tmp /\ adr' = adr /\ marked' = marked
  BY DeliveryAside
<1>2. d \in Letter
  BY DEF Letter
<1>3. CASE Letters(box') = Letters(box) /\ delivered' = delivered
  BY <1>1, <1>3, SameLetters, ChooseStep DEF Before
<1>4. CASE box' = box /\ delivered' = delivered
  BY <1>3, <1>4
<1>5. CASE linked[d] /\ box' = Append(box, Torn) /\ delivered' = delivered
  <2>1. box \in Contents
    BY <1>5, ThereIsContents DEF Before, FilesInv, Present
  <2> QED  BY <1>3, <1>5, <2>1, TornLetters
<1>6. CASE box = NoFile /\ box' = <<>> /\ delivered' = delivered
  BY <1>3, <1>6, NoLetters, NoFileLetters
<1>7. CASE DeliveryStart(d) \/ DeliveryTry(d) \/ DeliveryUnlock(d)
  BY <1>4, <1>7 DEF DeliveryStart, DeliveryTry, DeliveryUnlock, history
<1>8. CASE OpenBox(d)
  BY <1>4, <1>6, <1>8 DEF OpenBox, history
<1>9. CASE DeliveryExit(d) \/ DeliveryCrash(d)
  BY <1>4, <1>5, <1>9 DEF DeliveryExit, DeliveryCrash, LeavesTorn, history
<1>10. CASE AppendLetter(d)
  <2>1. linked[d] /\ d \notin delivered
    BY <1>10 DEF AppendLetter, Before, CopyInv, AppendsLinked, FilesInv, Origin
  <2>2. \/ box' \in {box, Append(box, Torn)} /\ delivered' = delivered
        \/ box' = Append(box, d) /\ delivered' = delivered \cup {d}
    BY <1>10, <2>1 DEF AppendLetter, Unimpaired, Before, history
  <2>3. CASE box' = Append(box, d) /\ delivered' = delivered \cup {d}
    <3>1. box \in Contents
      BY <2>1, ThereIsContents DEF Before, FilesInv, Present
    <3>2. Letters(box') = Letters(box) \cup {d}
      <4>1. d \in Letter \cup {Torn} /\ d # Torn
        BY <1>2, MailboxAssumption
      <4> QED  BY <2>3, <3>1, <4>1, AppendLetters
    <3>3. Stored = Letters(box) \cup Letters(save) /\ Stored \subseteq delivered
      BY StoredDelivered DEF Before
    <3>4. Stored' = Stored \cup {d}
      BY <1>1, <3>2, <3>3, StoredNext
    <3>5. d \in Letter \ (Stored \cup (delivered \ Stored))
      BY <1>2, <2>1, <3>3
    <3>6. delivered' \ Stored' = delivered \ Stored
      BY <2>1, <2>3, <3>4
    <3>7. Chosen' = Chosen
      BY <1>1 DEF Chosen, Chunk
    <3> QED  BY <3>4, <3>5, <3>6, <3>7 DEF Store!Arrive, Chosen, Before
  <2> QED  BY <1>4, <1>5, <2>1, <2>2, <2>3
<1> QED  BY <1>7, <1>8, <1>9, <1>10 DEF Delivery

\* Every step of the mailbox is a step of the store.
LEMMA StoreStep ==
  ASSUME MailboxInv, FilesInv', [Next]_vars
  PROVE  Store!Next
<1>1. CASE ~Unimpaired'
  BY <1>1, FailStep DEF Store!Next
<1>2. CASE Unimpaired'
  <2>1. Before
    BY <1>2, ImpairedStays DEF MailboxInv, StoreInv, Before
  <2>2. CASE Session
    BY <1>2, <2>1, <2>2, SessionStores DEF Store!Next
  <2>3. ASSUME NEW d \in Deliverer, Delivery(d) PROVE Store!Next
    BY <1>2, <2>1, <2>3, DeliveryStores DEF Store!Next
  <2>4. CASE Time \/ AllDone \/ UNCHANGED vars
    <3>1. box' = box /\ save' = save /\ delivered' = delivered
      BY <2>4 DEF Time, AllDone, vars, history
    <3>2. Store!Choose
      BY <1>2, <2>1, <3>1, SameLetters, ChooseStep DEF Before
    <3> QED  BY <3>2 DEF Store!Next
  <2> QED  BY <2>2, <2>3, <2>4 DEF Next
<1> QED  BY <1>1, <1>2

\* At the start the store has the old letters.
LEMMA StoreStart == Init => Store!Init
<1> SUFFICES ASSUME Init PROVE Store!Init
  OBVIOUS
<1>1. FilesInv
  BY FilesInvInit
<1>2. Stored \subseteq Letter
  BY StoredLetters
<1>3. delivered \ Stored = {}
  <2>1. delivered = Range(box) /\ box # NoFile
    <3>1. OldMail \in Contents
      BY MailboxAssumption, SeqMonotonic DEF Contents, Letter
    <3> QED  BY <3>1, FileLetters DEF Init
  <2>2. Range(box) \subseteq Letter
    BY DEF Init, Letter
  <2> QED  BY <2>1, <2>2 DEF Stored
<1>4. Chosen = {}
  BY DEF Init, Chosen
<1>5. Unimpaired
  BY DEF Init, L!Init, Unimpaired
<1> QED  BY <1>2, <1>3, <1>4, <1>5 DEF Store!Init, Chosen

\* For any letters, any size of the table and any number of deliveries, the
\* mailbox implements MailStore: as long as no live lock is removed and no
\* error is passed over, a stored letter leaves the user's files only when the
\* user has marked it, and does not come back.
THEOREM KeepsStore == Spec => ImplementsStore
<1>1. MailboxInv /\ MailboxInv' /\ [Next]_vars => [Store!Next]_Store!svars
  BY StoreStep DEF MailboxInv
<1> QED  BY <1>1, StoreStart, MailboxInvHolds, PTL DEF Spec, ImplementsStore, Store!Spec
=============================================================================
