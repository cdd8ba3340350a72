------------------------------- MODULE Mailbox -------------------------------
(***************************************************************************)
(* One user's mailbox as the programs of mail/ use it together: the user's *)
(* mail session (cksaved, printmail, copyback) and the mail -d processes   *)
(* that deliver one letter each (send_mbox), around the lock of MailLock.  *)
(*                                                                         *)
(* Files are sequences of letters; a write that fails leaves Torn.  The    *)
(* size of a file is its length, as the code detects new mail by size.     *)
(* Letters are marked by position, as let[].change marks them, and         *)
(* adr[i + 1] is let[i].adr: the session finds a letter again in its       *)
(* temporary file by these addresses only.                                 *)
(*                                                                         *)
(* One session of the user at a time: with two, printmail's descriptor     *)
(* could be of a file another session has replaced.                        *)
(***************************************************************************)
EXTENDS Naturals, Sequences, SequencesExt

CONSTANTS
    Reader,       \* the user's mail process, a new one in each session
    Deliverer,    \* the processes that deliver, each the letter of its name
    OldMail,      \* the letters in the mailbox at the start, a sequence
    Torn,         \* part of a letter
    NoFile,       \* the value of a file that does not exist
    MaxLet,       \* MAXLET - 2, the letters a session can tell apart
    MaxSessions,  \* bound: sessions the user starts
    None, Orphan, Stale, StatTries   \* of MailLock

Letter == Range(OldMail) \cup Deliverer

Proc == {Reader} \cup Deliverer

ASSUME MailboxAssumption ==
    /\ Reader \notin Deliverer
    /\ OldMail \in Seq(Range(OldMail))
    /\ Range(OldMail) \cap Deliverer = {}
    /\ Torn \notin Letter
    /\ NoFile \notin Seq(Letter \cup {Torn})
    /\ MaxLet \in Nat \ {0}
    /\ MaxSessions \in Nat \ {0}

ASSUME LockConstants ==
    /\ None \notin Proc
    /\ Orphan \notin Proc
    /\ None # Orphan
    /\ Stale \in Nat \ {0}
    /\ StatTries \in Nat

VARIABLES
    lockfile, lockage, lpc, seen, curlock, locked, cut, statfailed, clobbers,
    box,         \* the user's file in the spool: mailfile
    save,        \* the user's file in :saved
    rpc,         \* where the session is
    fileSize,    \* file_size: the size printmail last loaded
    statSize,    \* stbuf.st_size of the stat before the lock
    tmp,         \* lettmp, the session's copy of the letters
    adr,         \* let[0..nlet].adr
    marked,      \* the letters whose let[].change is not ' '
    nextlet,     \* the letter copyback copies next
    sessions,    \* bound: sessions started
    dpc,         \* where each delivery is
    linked,      \* whether the file a delivery has open is still the mailbox
    delivered,   \* history: the letters in the mailbox, or reported delivered
    mishaps      \* history: what went wrong without the program acting on it

L == INSTANCE MailLock

lockvars == <<lockfile, lockage, lpc, seen, curlock, locked, cut, statfailed, clobbers>>
rvars == <<rpc, fileSize, statSize, tmp, adr, marked, nextlet, sessions>>
dvars == <<dpc, linked>>
history == <<delivered, mishaps>>
vars == <<lockvars, box, save, rvars, dvars, history>>

ReaderStates == {"start", "restore", "unlinksave", "open", "load", "prompt", "newmail",
                 "loaded", "reopen", "command", "copyback", "create", "copy", "unlink", "rename",
                 "finish", "bye", "done"}

File == Seq(Letter \cup {Torn}) \cup {NoFile}

TypeOK ==
    /\ L!TypeOK
    /\ box \in File
    /\ save \in File
    /\ rpc \in ReaderStates
    /\ fileSize \in Nat
    /\ statSize \in Nat
    /\ tmp \in File \ {NoFile}
    /\ adr \in Seq(Nat)
    /\ Len(adr) \in 1..(MaxLet + 1)
    /\ marked \subseteq 1..MaxLet
    /\ nextlet \in 0..(MaxLet + 1)
    /\ sessions \in 0..MaxSessions
    /\ dpc \in [Deliverer -> {"start", "wait", "append", "unlock", "again", "bye", "done"}]
    /\ linked \in [Deliverer -> BOOLEAN]
    /\ delivered \subseteq Letter
    /\ mishaps \subseteq {"short", "unrestored", "interrupted"}

Init ==
    /\ L!Init
    /\ box = OldMail
    /\ save = NoFile
    /\ rpc = "start"
    /\ fileSize = 0
    /\ statSize = 0
    /\ tmp = <<>>
    /\ adr = <<0>>
    /\ marked = {}
    /\ nextlet = 0
    /\ sessions = 1
    /\ dpc = [d \in Deliverer |-> "start"]
    /\ linked = [d \in Deliverer |-> FALSE]
    /\ delivered = Range(OldMail)
    /\ mishaps = {}

-----------------------------------------------------------------------------
(* The session's table of letters *)

nlet == Len(adr) - 1

\* copymt() of n letters behind those of the table a: each begins at the end
\* of the one before.  Letters beyond MaxLet are joined to the last.
Extend(a, n) ==
    LET room == MaxLet - (Len(a) - 1)
        more == [i \in 1..Min({n, room}) |-> Last(a) + i]
        all == a \o more
    IN  [all EXCEPT ![Len(all)] = Last(a) + n]

\* copymt() interrupted in the letter after j whole ones: let[nlet].adr, which
\* is written at the end, still has the 0 of a static array.
Broken(a, j) ==
    LET room == MaxLet - (Len(a) - 1)
    IN  IF room = 0 THEN a
        ELSE a \o [i \in 1..Min({j, room - 1}) |-> Last(a) + i] \o <<0>>

\* What copylet() writes for letter i of the table: not beyond the end of the
\* temporary file.
Chunk(i) == SubSeq(tmp, adr[i] + 1, Min({adr[i + 1], Len(tmp)}))

\* A slip for NewPart: behind the size of the last stat().
SlipNewPart == SubSeq(box, fileSize + 1, Len(box))

\* The mailbox behind the letters the session knows.
NewPart == SubSeq(box, Last(adr) + 1, Len(box))

-----------------------------------------------------------------------------
(* cksaved(): what a crash left in :saved goes back into the mailbox *)

At(state) == rpc = state

\* No save file, or an empty one: nothing to do.  The stat is before the lock.
CkStat ==
    /\ At("start")
    /\ IF save \in {NoFile, <<>>}
         THEN rpc' = "open" /\ UNCHANGED lockvars
         ELSE rpc' = "restore" /\ L!Enter(Reader)
    /\ UNCHANGED <<box, save, fileSize, statSize, tmp, adr, marked, nextlet, sessions, dvars, history>>

\* No mailbox: the save file becomes the mailbox.
RestoreRename ==
    /\ At("restore")
    /\ L!Holds(Reader)
    /\ box = NoFile
    /\ box' = save
    /\ save' = NoFile
    /\ rpc' = "open"
    /\ L!Unlock(Reader)
    /\ UNCHANGED <<fileSize, statSize, tmp, adr, marked, nextlet, sessions, dvars, history>>

\* The rename or an fopen fails: a message, and the session goes on.
RestoreFails ==
    /\ At("restore")
    /\ L!Holds(Reader)
    /\ mishaps' = mishaps \cup {"unrestored"}
    /\ rpc' = "open"
    /\ L!Unlock(Reader)
    /\ UNCHANGED <<box, save, fileSize, statSize, tmp, adr, marked, nextlet, sessions, dvars, delivered>>

\* The save file is appended to the mailbox.  copystream() says whether it
\* wrote everything; nobody asks.
RestoreAppend ==
    /\ At("restore")
    /\ L!Holds(Reader)
    /\ box # NoFile
    /\ \/ box' = box \o save /\ UNCHANGED mishaps
       \/ \E n \in 0..(Len(save) - 1) :
            /\ box' = box \o SubSeq(save, 1, n) \o <<Torn>>
            /\ mishaps' = mishaps \cup {"short"}
    /\ rpc' = "unlinksave"
    /\ UNCHANGED <<lockvars, save, fileSize, statSize, tmp, adr, marked, nextlet, sessions, dvars, delivered>>

\* The save file is removed and the lock released; when unlink() fails
\* cksaved() returns with the lock.
UnlinkSave ==
    /\ At("unlinksave")
    /\ L!Holds(Reader)
    /\ \/ save' = NoFile /\ L!Unlock(Reader)
       \/ UNCHANGED save /\ L!Abandon(Reader)
    /\ rpc' = "open"
    /\ UNCHANGED <<box, fileSize, statSize, tmp, adr, marked, nextlet, sessions, dvars, history>>

-----------------------------------------------------------------------------
(* printmail(): loading, new mail, commands *)

\* No call of maillock() or mailunlock() is under way.
Unbusy == lpc[Reader] = "out"

\* stat() and fopen() before the lock; no mail is the end of the session.
Open ==
    /\ At("open")
    /\ Unbusy
    /\ IF box \in {NoFile, <<>>}
         THEN rpc' = "bye" /\ UNCHANGED <<lockvars, fileSize>>
         ELSE rpc' = "load" /\ fileSize' = Len(box) /\ L!Enter(Reader)
    /\ UNCHANGED <<box, save, statSize, tmp, adr, marked, nextlet, sessions, dvars, history>>

\* The letters are copied to the temporary file under the lock.
Load ==
    /\ At("load")
    /\ L!Holds(Reader)
    /\ tmp' = box
    /\ adr' = Extend(<<0>>, Len(box))
    /\ marked' = {}
    /\ rpc' = "prompt"
    /\ L!Unlock(Reader)
    /\ UNCHANGED <<box, save, fileSize, statSize, nextlet, sessions, dvars, history>>

\* Before each prompt: has the size changed?  Again the stat is before the lock.
Prompt ==
    /\ At("prompt")
    /\ Unbusy
    /\ statSize' = Len(box)
    /\ IF Len(box) # fileSize
         THEN rpc' = "newmail" /\ L!Enter(Reader)
         ELSE rpc' = "command" /\ UNCHANGED lockvars
    /\ UNCHANGED <<box, save, fileSize, tmp, adr, marked, nextlet, sessions, dvars, history>>

\* New mail is appended to the temporary file and the table.
NewMail ==
    /\ At("newmail")
    /\ L!Holds(Reader)
    /\ tmp' = tmp \o NewPart
    /\ adr' = Extend(adr, Len(NewPart))
    /\ rpc' = "loaded"
    /\ UNCHANGED <<lockvars, box, save, fileSize, statSize, marked, nextlet, sessions, dvars, history>>

\* file_size gets the size of the stat() before the lock, and the temporary
\* file is closed.
CloseNewMail ==
    /\ At("loaded")
    /\ fileSize' = statSize
    /\ rpc' = "reopen"
    /\ L!Unlock(Reader)
    /\ UNCHANGED <<box, save, statSize, tmp, adr, marked, nextlet, sessions, dvars, history>>

\* The temporary file is opened again.
ReopenTmp ==
    /\ At("reopen")
    /\ Unbusy
    /\ rpc' = "command"
    /\ UNCHANGED <<lockvars, box, save, fileSize, statSize, tmp, adr, marked, nextlet, sessions, dvars, history>>

\* The jump of an interrupt: back to the prompt, with the lock as it is.
ToPrompt ==
    /\ rpc' = "prompt"
    /\ L!Abandon(Reader)

\* The same at a moment that leaves the session with something it does not
\* know of; bound: only as the first thing that goes wrong.
Mishap ==
    /\ mishaps = {}
    /\ mishaps' = mishaps \cup {"interrupted"}

\* An interrupt in lock(), or before the first letter is seen; between the two
\* calls that open the temporary file anew it leaves a stream that is closed.
\* Bound: none between link() and the flag while the flag is cut off already.
InterruptNewMail ==
    /\ At("newmail")
    /\ lpc[Reader] = "linked" => Reader \notin cut
    /\ ToPrompt
    /\ \/ UNCHANGED mishaps
       \/ L!Holds(Reader) /\ Mishap
    /\ UNCHANGED <<box, save, fileSize, statSize, tmp, adr, marked, nextlet, sessions, dvars, delivered>>

\* An interrupt while a new letter is copied.
BreakNewMail ==
    /\ At("newmail")
    /\ L!Holds(Reader)
    /\ \E j \in 0..(Len(NewPart) - 1) :
         /\ tmp' = tmp \o SubSeq(NewPart, 1, j)
         /\ adr' = Broken(adr, j)
    /\ ToPrompt
    /\ Mishap
    /\ UNCHANGED <<box, save, fileSize, statSize, marked, nextlet, sessions, dvars, delivered>>

\* An interrupt before file_size is set: the stream is open still, and the next
\* prompt loads again, with nothing left to load.
InterruptLoaded ==
    /\ At("loaded")
    /\ ToPrompt
    /\ UNCHANGED <<box, save, fileSize, statSize, tmp, adr, marked, nextlet, sessions, dvars, history>>

\* An interrupt once file_size is set and before unlock(): the table has the
\* new letters, and the temporary file what its buffer had given up of them.
InterruptSized ==
    /\ At("newmail")
    /\ L!Holds(Reader)
    /\ \E n \in 0..Len(NewPart) : tmp' = tmp \o SubSeq(NewPart, 1, n)
    /\ adr' = Extend(adr, Len(NewPart))
    /\ fileSize' = statSize
    /\ ToPrompt
    /\ Mishap
    /\ UNCHANGED <<box, save, statSize, marked, nextlet, sessions, dvars, delivered>>

\* An interrupt in unlock(), or before the temporary file is open again: no
\* stream is left to read the letters from.
InterruptReopen ==
    /\ At("reopen")
    /\ IF Unbusy THEN rpc' = "prompt" /\ UNCHANGED lockvars ELSE ToPrompt
    /\ Mishap
    /\ UNCHANGED <<box, save, fileSize, statSize, tmp, adr, marked, nextlet, sessions, dvars, delivered>>

\* d, s, w, y, m and r mark a letter; u takes the mark away; every other
\* command and an interrupt only ask for the next prompt.
Command ==
    /\ At("command")
    /\ \/ UNCHANGED marked
       \/ \E i \in 1..nlet : marked' \in {marked \cup {i}, marked \ {i}}
    /\ rpc' = "prompt"
    /\ UNCHANGED <<lockvars, box, save, fileSize, statSize, tmp, adr, nextlet, sessions, dvars, history>>

\* q, end of file, or the last letter: the marks are carried out.
Quit ==
    /\ At("command")
    /\ IF marked = {}
         THEN rpc' = "bye" /\ UNCHANGED lockvars
         ELSE rpc' = "copyback" /\ L!Enter(Reader)
    /\ UNCHANGED <<box, save, fileSize, statSize, tmp, adr, marked, nextlet, sessions, dvars, history>>

\* x: the marks are dropped.
ExitUnchanged ==
    /\ At("command")
    /\ rpc' = "bye"
    /\ UNCHANGED <<lockvars, box, save, fileSize, statSize, tmp, adr, marked, nextlet, sessions, dvars, history>>

-----------------------------------------------------------------------------
(* copyback(): the marked letters leave the mailbox *)

\* A slip for TakeNewMail: the table is taken to have room.
SlipTakeNewMailFull ==
    /\ At("copyback")
    /\ L!Holds(Reader)
    /\ rpc' = "create"
    /\ IF Len(box) = Last(adr)
         THEN UNCHANGED <<tmp, adr>>
         ELSE tmp' = tmp \o NewPart /\ adr' = Append(adr, Len(box))
    /\ UNCHANGED <<lockvars, box, save, fileSize, statSize, marked, nextlet, sessions, dvars, history>>

\* A slip for TakeNewMail: mail that has arrived since is not looked for.
SlipTakeNewMail ==
    /\ At("copyback")
    /\ L!Holds(Reader)
    /\ rpc' = "create"
    /\ UNCHANGED <<lockvars, box, save, fileSize, statSize, tmp, adr, marked, nextlet, sessions, dvars, history>>

\* Mail that has arrived since is taken in as one letter.  A full table is an
\* error: done() leaves everything as it was.
TakeNewMail ==
    /\ At("copyback")
    /\ L!Holds(Reader)
    /\ IF Len(box) = Last(adr)
         THEN rpc' = "create" /\ UNCHANGED <<tmp, adr>>
         ELSE /\ tmp' = tmp \o NewPart
              /\ IF nlet = MaxLet
                   THEN rpc' = "bye" /\ UNCHANGED adr
                   ELSE rpc' = "create" /\ adr' = Append(adr, Len(box))
    /\ UNCHANGED <<lockvars, box, save, fileSize, statSize, marked, nextlet, sessions, dvars, history>>

\* The save file is made empty, whatever was in it; or the owner is wrong or
\* it cannot be opened.
CreateSave ==
    /\ At("create")
    /\ \/ rpc' = "copy" /\ save' = <<>> /\ nextlet' = 1
       \/ rpc' = "bye" /\ UNCHANGED <<save, nextlet>>
    /\ UNCHANGED <<lockvars, box, fileSize, statSize, tmp, adr, marked, sessions, dvars, history>>

\* One letter of the table: kept unless marked.  A write that fails ends the
\* session, and so does a temporary file that is too short; copylet() cuts the
\* save file back to where it began, if it can.
CopyLetter ==
    /\ At("copy")
    /\ nextlet <= nlet
    /\ \/ /\ nextlet \in marked \/ adr[nextlet + 1] <= Len(tmp)
          /\ save' = IF nextlet \in marked THEN save ELSE save \o Chunk(nextlet)
          /\ nextlet' = nextlet + 1
          /\ UNCHANGED rpc
       \/ /\ nextlet \notin marked
          /\ save' \in {save, Append(save, Torn)}
          /\ rpc' = "bye"
          /\ UNCHANGED nextlet
    /\ UNCHANGED <<lockvars, box, fileSize, statSize, tmp, adr, marked, sessions, dvars, history>>

\* fclose(), whose result is not looked at, and unlink() of the mailbox.
UnlinkBox ==
    /\ At("copy")
    /\ nextlet > nlet
    /\ \/ UNCHANGED <<save, mishaps>>
       \/ /\ save # <<>>
          /\ save' = Append(Front(save), Torn)
          /\ mishaps' = mishaps \cup {"short"}
    /\ \/ rpc' = "rename" /\ box' = NoFile /\ linked' = [d \in Deliverer |-> FALSE]
       \/ rpc' = "bye" /\ UNCHANGED <<box, linked>>
    /\ UNCHANGED <<lockvars, fileSize, statSize, tmp, adr, marked, nextlet, sessions, dpc, delivered>>

\* The save file becomes the mailbox, in the place of any new one; or rename()
\* fails and the session ends.
RenameSave ==
    /\ At("rename")
    /\ \/ /\ box' = save
          /\ save' = NoFile
          /\ linked' = [d \in Deliverer |-> FALSE]
          /\ rpc' = "finish"
       \/ rpc' = "bye" /\ UNCHANGED <<box, save, linked>>
    /\ UNCHANGED <<lockvars, fileSize, statSize, tmp, adr, marked, nextlet, sessions, dpc, history>>

\* delempty() removes a mailbox in which no letter was kept, if its mode or
\* DEL_EMPTY_MFILE says so; the lock is released.
Finish ==
    /\ At("finish")
    /\ \/ UNCHANGED <<box, linked>>
       \/ 1..nlet \subseteq marked /\ box' = NoFile /\ linked' = [d \in Deliverer |-> FALSE]
    /\ rpc' = "bye"
    /\ L!Unlock(Reader)
    /\ UNCHANGED <<save, fileSize, statSize, tmp, adr, marked, nextlet, sessions, dpc, history>>

-----------------------------------------------------------------------------
(* The session in maillock(), its end and its successor *)

ReaderTry ==
    /\ L!Try(Reader)
    /\ UNCHANGED <<box, save, rvars, dvars, history>>

\* A session ends while it restores: a part of the save file may be in the
\* mailbox, and the save file is still there.
LeavesPart ==
    \/ UNCHANGED box
    \/ /\ At("restore") /\ L!Holds(Reader) /\ box # NoFile
       /\ \E n \in 0..(Len(save) - 1) : box' = box \o SubSeq(save, 1, n) \o <<Torn>>

ReaderGone ==
    /\ LeavesPart
    /\ rpc' = "done"
    /\ fileSize' = 0
    /\ statSize' = 0
    /\ tmp' = <<>>
    /\ adr' = <<0>>
    /\ marked' = {}
    /\ nextlet' = 0
    /\ UNCHANGED <<save, sessions, dvars, history>>

\* done(): main returned, an error, or SIGTERM anywhere.
ReaderExit == L!Exit(Reader) /\ ReaderGone

\* Killed: nothing is cleaned up.
ReaderCrash == L!Crash(Reader) /\ ReaderGone

ReaderStart ==
    /\ At("done")
    /\ sessions < MaxSessions
    /\ L!Start(Reader)
    /\ rpc' = "start"
    /\ sessions' = sessions + 1
    /\ UNCHANGED <<box, save, fileSize, statSize, tmp, adr, marked, nextlet, dvars, history>>

-----------------------------------------------------------------------------
(* send_mbox(): a delivery *)

Becomes(d, state) == dpc' = [dpc EXCEPT ![d] = state]

DeliveryStart(d) ==
    /\ dpc[d] = "start"
    /\ L!Enter(d)
    /\ Becomes(d, "wait")
    /\ UNCHANGED <<box, save, rvars, linked, history>>

DeliveryTry(d) ==
    /\ L!Try(d)
    /\ UNCHANGED <<box, save, rvars, dvars, history>>

\* A slip for OpenBox: the mailbox is opened before lock() has returned.
SlipOpenBox(d) ==
    /\ dpc[d] = "wait"
    /\ box' = IF box = NoFile THEN <<>> ELSE box
    /\ linked' = [linked EXCEPT ![d] = TRUE]
    /\ Becomes(d, "append")
    /\ UNCHANGED <<lockvars, save, rvars, history>>

\* accessmf() opens the mailbox, making it when it is missing, or refuses;
\* then the lock is released, and released again at the end of send_mbox().
OpenBox(d) ==
    /\ dpc[d] = "wait"
    /\ L!Holds(d)
    /\ \/ /\ box' = IF box = NoFile THEN <<>> ELSE box
          /\ linked' = [linked EXCEPT ![d] = TRUE]
          /\ Becomes(d, "append")
          /\ UNCHANGED lockvars
       \/ /\ L!Unlock(d)
          /\ Becomes(d, "again")
          /\ UNCHANGED <<box, linked>>
    /\ UNCHANGED <<save, rvars, history>>

\* The letter is appended to the file that was opened.  copylet() reports a
\* write that fails, and cuts the file back if it can; the fclose() behind it
\* may fail unnoticed.
AppendLetter(d) ==
    /\ dpc[d] = "append"
    /\ \/ /\ box' = IF linked[d] THEN Append(box, d) ELSE box
          /\ delivered' = delivered \cup {d}
          /\ UNCHANGED mishaps
       \/ /\ box' = IF linked[d] THEN Append(box, Torn) ELSE box
          /\ delivered' = delivered \cup {d}
          /\ mishaps' = mishaps \cup {"short"}
       \/ /\ box' \in IF linked[d] THEN {box, Append(box, Torn)} ELSE {box}
          /\ UNCHANGED history
    /\ Becomes(d, "unlock")
    /\ UNCHANGED <<lockvars, save, rvars, linked>>

DeliveryUnlock(d) ==
    /\ \/ dpc[d] = "unlock" /\ L!Unlock(d)
       \/ dpc[d] = "again" /\ L!UnlockAgain(d)
    /\ Becomes(d, "bye")
    /\ UNCHANGED <<box, save, rvars, linked, history>>

\* A delivery ends while it writes: a part of the letter may be in the file.
LeavesTorn(d) ==
    \/ UNCHANGED box
    \/ dpc[d] = "append" /\ linked[d] /\ box' = Append(box, Torn)

\* done(): at the end, after an error, or from a signal anywhere.
DeliveryExit(d) ==
    /\ L!Exit(d)
    /\ LeavesTorn(d)
    /\ Becomes(d, "done")
    /\ linked' = [linked EXCEPT ![d] = FALSE]
    /\ UNCHANGED <<save, rvars, history>>

DeliveryCrash(d) ==
    /\ L!Crash(d)
    /\ LeavesTorn(d)
    /\ Becomes(d, "done")
    /\ linked' = [linked EXCEPT ![d] = FALSE]
    /\ UNCHANGED <<save, rvars, history>>

Time == L!Tick /\ UNCHANGED <<box, save, rvars, dvars, history>>

-----------------------------------------------------------------------------
Restore == CkStat \/ RestoreRename \/ RestoreFails \/ RestoreAppend \/ UnlinkSave

CopyBack == TakeNewMail \/ CreateSave \/ CopyLetter \/ UnlinkBox \/ RenameSave \/ Finish

TakeIn == NewMail \/ CloseNewMail \/ ReopenTmp

Interrupt ==
    InterruptNewMail \/ BreakNewMail \/ InterruptLoaded \/ InterruptSized \/ InterruptReopen

Session ==
    \/ Restore \/ Open \/ Load \/ Prompt \/ TakeIn \/ Interrupt
    \/ Command \/ Quit \/ ExitUnchanged \/ CopyBack
    \/ ReaderTry \/ ReaderExit \/ ReaderCrash \/ ReaderStart

Delivery(d) ==
    DeliveryStart(d) \/ DeliveryTry(d) \/ OpenBox(d) \/ AppendLetter(d) \/ DeliveryUnlock(d)
        \/ DeliveryExit(d) \/ DeliveryCrash(d)

\* Everybody has ended and no session is left to start.
AllDone ==
    /\ At("done")
    /\ sessions = MaxSessions
    /\ \A d \in Deliverer : dpc[d] = "done"
    /\ UNCHANGED vars

Next == Session \/ (\E d \in Deliverer : Delivery(d)) \/ Time \/ AllDone

\* Whoever is not waiting for the user runs on, and time passes.
SessionRuns ==
    \/ Restore \/ Open \/ Load \/ Prompt \/ TakeIn \/ CopyBack \/ ReaderTry
    \/ (At("bye") \/ lpc[Reader] = "failed") /\ ReaderExit

DeliveryRuns(d) ==
    \/ DeliveryTry(d) \/ OpenBox(d) \/ AppendLetter(d) \/ DeliveryUnlock(d)
    \/ (dpc[d] = "bye" \/ lpc[d] = "failed") /\ DeliveryExit(d)

Fairness ==
    /\ WF_vars(Time)
    /\ WF_vars(SessionRuns)
    /\ \A d \in Deliverer : WF_vars(DeliveryRuns(d))

Spec == Init /\ [][Next]_vars /\ Fairness

-----------------------------------------------------------------------------
(* Properties *)

\* The letters that are whole in the user's files.
Stored ==
    {x \in Letter : \/ box # NoFile /\ x \in Range(box)
                    \/ save # NoFile /\ x \in Range(save)}

Unimpaired == clobbers = {} /\ mishaps = {}

\* The session writes the user's files, and a delivery appends to them, only
\* between lock() and mailunlock(); so as long as no live lock is removed, and
\* no interrupt has cut the session's flag off from its file, no delivery is
\* inside the mailbox while copyback replaces it.
InMailbox == {"unlinksave", "create", "copy", "rename", "finish"}

NoDeliveryDuringRewrite ==
    clobbers = {} /\ Reader \notin cut =>
        ~ \E d \in Deliverer : rpc \in InMailbox /\ dpc[d] \in {"append", "unlock"}

\* What the session knows of the mailbox is true whenever it asks for a
\* command: its temporary file is the beginning of the mailbox and its last
\* address the end of it, however much mail arrives behind its back, and
\* through every interrupt but those that count as a mishap.
TmpMirrorsBox ==
    (Unimpaired /\ At("command")) =>
        /\ Last(adr) = Len(tmp)
        /\ box # NoFile
        /\ IsPrefix(tmp, box)

\* A delivery that has begun ends, whatever the session and the others do:
\* no crash and no session that idles with the lock holds it up for good.
DeliveryEnds == \A d \in Deliverer : dpc[d] = "wait" ~> dpc[d] = "done"

\* printmail.c secures the mailfile "to guarantee integrity": without a lock
\* older than five minutes and without an unnoticed write error, no letter is
\* lost but those the user has marked.
MailfileSecured ==
    [][(mishaps' = {} /\ "break" \notin clobbers') =>
         \A x \in Stored \ Stored' : \E i \in marked : x \in Range(Chunk(i))]_vars

\* The mailbox implements the store: a letter is stored when it is whole in
\* the mailbox or in the save file, has gone when it was delivered and is in
\* neither, and is chosen when it lies in a marked part of the session's
\* copy.  The store is impaired once a live lock has been removed or one of
\* the mishaps the program does not act on has happened: a write error nobody
\* looked at, a restore that failed, an interrupt in the loading of new mail at
\* a moment that leaves the table, the streams or the lock's flag wrong.
Store == INSTANCE MailStore
           WITH stored <- Stored,
                gone <- delivered \ Stored,
                chosen <- UNION {Range(Chunk(i)) \ {Torn} : i \in marked},
                impaired <- ~Unimpaired

ImplementsStore == Store!Spec
=============================================================================
