------------------------------ MODULE MailLock ------------------------------
(***************************************************************************)
(* The dot-lock of the mail spool: mail/maillock.c, mail/lock.c and the    *)
(* unlock() that mail/done.c makes on every way out of the program.        *)
(*                                                                         *)
(* One lock file guards one mailbox.  A process makes a temporary file,    *)
(* links it to the lock's name, and owns the lock when the link succeeds.  *)
(* A process that fails stats the lock: an old one (five minutes) is       *)
(* removed, a young one is waited for.  mailunlock() removes whatever      *)
(* carries the lock's name, and done() calls it whether or not the process *)
(* holds the lock.                                                         *)
(*                                                                         *)
(* The file and the flag that stands for it change one after the other:    *)
(* link() and then locked = 1, remove() and then locked = 0.  An interrupt *)
(* that comes between the two leaves a flag that is not true of the file.  *)
(*                                                                         *)
(* Time is the age of the file that carries the lock's name, counted up to *)
(* Stale.  seen[p] is the age that file had when p made its temporary      *)
(* file, the difference maillock() compares with 300 seconds: a lock       *)
(* linked since then is younger than p's temporary file, so linking resets *)
(* everybody's seen to 0.                                                  *)
(***************************************************************************)
EXTENDS Naturals

CONSTANTS
    Proc,       \* the mail processes that use this mailbox
    None,       \* no file carries the lock's name
    Orphan,     \* the file is of a process that died without removing it
    Stale,      \* the age at which a lock is taken for left over
    StatTries   \* stat() failures in a row that maillock() forgives (5)

ASSUME LockAssumption ==
    /\ None \notin Proc
    /\ Orphan \notin Proc
    /\ None # Orphan
    /\ Stale \in Nat \ {0}
    /\ StatTries \in Nat

VARIABLES
    lockfile,    \* who made the file that carries the lock's name
    lockage,     \* its age, up to Stale
    lpc,         \* where each process is in lock()
    seen,        \* the lock's age when the process made its temporary file, until
                 \* maillock() has used it
    curlock,     \* whether the process has set its static curlock[]
    locked,      \* its static flag: "to note that we locked it"
    cut,         \* history: the processes interrupted between a change of the
                 \* file and that of the flag, until the flag is set again
    statfailed,  \* its local count of stat() failures in a row
    clobbers     \* history: the ways a live owner's lock was removed

lockvars == <<lockfile, lockage, lpc, seen, curlock, locked, cut, statfailed, clobbers>>

\* Of one process inside maillock(): about to link, about to stat, about to
\* remove a stale lock.
Waiting == {"link", "stat", "break"}

\* The file has changed and the flag has not.
Between == {"linked", "removed"}

\* out: not in lock(); in: lock() has returned; failed: maillock() has
\* returned -1 and lock() is on its way to done(0); dead: not running.
TypeOK ==
    /\ lockfile \in Proc \cup {None, Orphan}
    /\ lockage \in 0..Stale
    /\ lpc \in [Proc -> Waiting \cup Between \cup {"out", "in", "failed", "dead"}]
    /\ seen \in [Proc -> 0..Stale]
    /\ curlock \in [Proc -> BOOLEAN]
    /\ locked \in [Proc -> BOOLEAN]
    /\ cut \subseteq Proc
    /\ statfailed \in [Proc -> 0..(StatTries + 1)]
    /\ clobbers \subseteq {"break", "unlock"}

Init ==
    /\ lockfile = None
    /\ lockage = 0
    /\ lpc = [p \in Proc |-> "out"]
    /\ seen = [p \in Proc |-> 0]
    /\ curlock = [p \in Proc |-> FALSE]
    /\ locked = [p \in Proc |-> FALSE]
    /\ cut = {}
    /\ statfailed = [p \in Proc |-> 0]
    /\ clobbers = {}

-----------------------------------------------------------------------------
(* maillock() *)

Goto(p, label) == lpc' = [lpc EXCEPT ![p] = label]

\* remove(curlock) by p: whatever has the name goes.  how is recorded when
\* that was the lock of another live process.
RemoveName(p, how) ==
    /\ lockfile' = None
    /\ lockage' = 0
    /\ clobbers' = IF lockfile \in Proc \ {p} THEN clobbers \cup {how} ELSE clobbers

\* lock(): a process that has locked already returns at once.
Enter(p) ==
    /\ lpc[p] = "out"
    /\ IF locked[p]
         THEN /\ Goto(p, "in")
              /\ UNCHANGED <<curlock, statfailed>>
         ELSE /\ Goto(p, "link")
              /\ curlock' = [curlock EXCEPT ![p] = TRUE]
              /\ statfailed' = [statfailed EXCEPT ![p] = 0]
    /\ UNCHANGED <<lockfile, lockage, seen, locked, cut, clobbers>>

\* A slip for Link: rename() in the place of link(), which takes the name over.
SlipLink(p) ==
    /\ lpc[p] = "link"
    /\ lockfile' = p
    /\ lockage' = 0
    /\ seen' = [q \in Proc |-> 0]
    /\ statfailed' = [statfailed EXCEPT ![p] = 0]
    /\ Goto(p, "linked")
    /\ UNCHANGED <<curlock, locked, cut, clobbers>>

\* link() succeeds: nobody had the name.
Link(p) ==
    /\ lpc[p] = "link"
    /\ lockfile = None
    /\ lockfile' = p
    /\ lockage' = 0
    /\ seen' = [q \in Proc |-> 0]
    /\ statfailed' = [statfailed EXCEPT ![p] = 0]
    /\ Goto(p, "linked")
    /\ UNCHANGED <<curlock, locked, cut, clobbers>>

\* maillock() notes that it has locked, and returns.
Note(p) ==
    /\ lpc[p] = "linked"
    /\ locked' = [locked EXCEPT ![p] = TRUE]
    /\ cut' = cut \ {p}
    /\ Goto(p, "in")
    /\ UNCHANGED <<lockfile, lockage, seen, curlock, statfailed, clobbers>>

\* lock1() fails because the name exists: it returns the time of the
\* temporary file.
LinkExists(p) ==
    /\ lpc[p] = "link"
    /\ lockfile # None
    /\ seen' = [seen EXCEPT ![p] = lockage]
    /\ Goto(p, "stat")
    /\ UNCHANGED <<lockfile, lockage, curlock, locked, cut, statfailed, clobbers>>

\* lock1() fails although the name is free: the temporary file could not be
\* made or linked (permissions, space).
LinkFails(p) ==
    /\ lpc[p] = "link"
    /\ lockfile = None
    /\ Goto(p, "stat")
    /\ UNCHANGED <<lockfile, lockage, seen, curlock, locked, cut, statfailed, clobbers>>

\* A slip for StatGone: the failures in a row are not limited.
SlipStatGone(p) ==
    /\ lpc[p] = "stat"
    /\ lockfile = None
    /\ Goto(p, "link")
    /\ statfailed' = [statfailed EXCEPT ![p] = @ + 1]
    /\ UNCHANGED <<lockfile, lockage, seen, curlock, locked, cut, clobbers>>

\* stat(curlock) fails: the lock has gone, or never was.  Too many failures
\* in a row make maillock() return -1.
StatGone(p) ==
    /\ lpc[p] = "stat"
    /\ lockfile = None
    /\ IF statfailed[p] > StatTries
         THEN Goto(p, "failed") /\ UNCHANGED statfailed
         ELSE Goto(p, "link") /\ statfailed' = [statfailed EXCEPT ![p] = @ + 1]
    /\ UNCHANGED <<lockfile, lockage, seen, curlock, locked, cut, clobbers>>

\* A slip for StatFound: the old lock is slept on like a young one.
SlipStatFound(p) ==
    /\ lpc[p] = "stat"
    /\ lockfile # None
    /\ Goto(p, "link")
    /\ statfailed' = [statfailed EXCEPT ![p] = 0]
    /\ seen' = [seen EXCEPT ![p] = 0]
    /\ UNCHANGED <<lockfile, lockage, curlock, locked, cut, clobbers>>

\* stat(curlock) succeeds: sleep and try again, or go and remove a stale lock.
StatFound(p) ==
    /\ lpc[p] = "stat"
    /\ lockfile # None
    /\ Goto(p, IF seen[p] < Stale THEN "link" ELSE "break")
    /\ statfailed' = [statfailed EXCEPT ![p] = 0]
    /\ seen' = [seen EXCEPT ![p] = 0]
    /\ UNCHANGED <<lockfile, lockage, curlock, locked, cut, clobbers>>

\* remove(curlock) at the end of the loop: by now the name may be another's.
Break(p) ==
    /\ lpc[p] = "break"
    /\ RemoveName(p, "break")
    /\ Goto(p, "link")
    /\ UNCHANGED <<seen, curlock, locked, cut, statfailed>>

-----------------------------------------------------------------------------
(* The ways out *)

\* A slip for Unlock: the file is forgotten, as if its name were unknown.
SlipUnlock(p) ==
    /\ lpc[p] = "in"
    /\ Goto(p, "removed")
    /\ UNCHANGED <<lockfile, lockage, seen, curlock, locked, cut, statfailed, clobbers>>

\* mailunlock() by a process that has done its work in the mailbox.
Unlock(p) ==
    /\ lpc[p] = "in"
    /\ RemoveName(p, "unlock")
    /\ Goto(p, "removed")
    /\ UNCHANGED <<seen, curlock, locked, cut, statfailed>>

\* A second mailunlock(): send_mbox() unlocks when it cannot open the mailbox
\* and then again at its end.
UnlockAgain(p) ==
    /\ lpc[p] = "out"
    /\ curlock[p]
    /\ RemoveName(p, "unlock")
    /\ Goto(p, "removed")
    /\ UNCHANGED <<seen, curlock, locked, cut, statfailed>>

\* mailunlock() notes that "we no longer have it locked", and returns.
Unnote(p) ==
    /\ lpc[p] = "removed"
    /\ locked' = [locked EXCEPT ![p] = FALSE]
    /\ cut' = cut \ {p}
    /\ Goto(p, "out")
    /\ UNCHANGED <<lockfile, lockage, seen, curlock, statfailed, clobbers>>

\* What a process does by itself in maillock() and mailunlock().
Try(p) ==
    \/ Link(p) \/ Note(p) \/ LinkExists(p) \/ LinkFails(p)
    \/ StatGone(p) \/ StatFound(p) \/ Break(p) \/ Unnote(p)

\* A way on without mailunlock(): an interrupt jumps out of lock(), of the
\* loading of new mail or of unlock() to the prompt, or cksaved() returns
\* early.  The file stays as it is, and so does the flag.
Abandon(p) ==
    /\ lpc[p] \in Waiting \cup Between \cup {"in"}
    /\ Goto(p, "out")
    /\ cut' = IF lpc[p] \in Between THEN cut \cup {p} ELSE cut
    /\ seen' = [seen EXCEPT ![p] = 0]
    /\ statfailed' = [statfailed EXCEPT ![p] = 0]
    /\ UNCHANGED <<lockfile, lockage, curlock, locked, clobbers>>

\* A process ends, and its statics and locals with it.
Forget(p) ==
    /\ locked' = [locked EXCEPT ![p] = FALSE]
    /\ curlock' = [curlock EXCEPT ![p] = FALSE]
    /\ cut' = cut \ {p}
    /\ seen' = [seen EXCEPT ![p] = 0]
    /\ statfailed' = [statfailed EXCEPT ![p] = 0]
    /\ Goto(p, "dead")

\* done(), reached from the end of main, from every error and from signals:
\* it unlocks first, holding the lock or not.  An empty curlock removes nothing.
Exit(p) ==
    /\ lpc[p] # "dead"
    /\ IF curlock[p] THEN RemoveName(p, "unlock")
                     ELSE UNCHANGED <<lockfile, lockage, clobbers>>
    /\ Forget(p)

\* The process is killed where it stands; its lock file stays.
Crash(p) ==
    /\ lpc[p] # "dead"
    /\ lockfile' = IF lockfile = p THEN Orphan ELSE lockfile
    /\ Forget(p)
    /\ UNCHANGED <<lockage, clobbers>>

\* A new process under the same name.
Start(p) ==
    /\ lpc[p] = "dead"
    /\ Goto(p, "out")
    /\ UNCHANGED <<lockfile, lockage, seen, curlock, locked, cut, statfailed, clobbers>>

\* Time passes.
Tick ==
    /\ lockfile # None
    /\ lockage < Stale
    /\ lockage' = lockage + 1
    /\ UNCHANGED <<lockfile, lpc, seen, curlock, locked, cut, statfailed, clobbers>>

Next ==
    \/ \E p \in Proc :
         \/ Enter(p)
         \/ Try(p)
         \/ Unlock(p)
         \/ UnlockAgain(p)
         \/ Abandon(p)
         \/ Exit(p)
         \/ Crash(p)
         \/ Start(p)
    \/ Tick

\* A process in maillock() or mailunlock() runs (it sleeps 5 seconds and goes
\* on), and time passes.  Nothing obliges a process to enter, to leave or to be restarted.
Fairness == WF_lockvars(Tick) /\ \A p \in Proc : WF_lockvars(Try(p))

\* What a module that composes the lock with its own steps has to respect.
Safety == Init /\ [][Next]_lockvars

Spec == Safety /\ Fairness

-----------------------------------------------------------------------------
(* Properties *)

\* A process for which lock() has returned and that has not unlocked.
Holds(p) == lpc[p] = "in"

\* As long as no live owner's lock has been removed by another, at most one
\* process is inside the mailbox, of those whose flag no interrupt has cut off
\* from the file: link(2) is the arbiter, whatever crashes, interrupted loads,
\* failed opens and stale locks come in between.  A process interrupted before
\* "locked = 0" is not one of them: its next lock() returns at once, and
\* nothing keeps the others out.
Exclusion ==
    clobbers = {} => \A p, q \in Proc \ cut : Holds(p) /\ Holds(q) => p = q

\* A lock file never outlives its owner's knowledge of it: if the file is p's,
\* done() knows its name, and p has the flag that makes its next lock()
\* succeed at once, or is about to set it, or was interrupted before it could.
\* Only a crash leaves a lock that nobody knows, and that one is an Orphan.
NoForgottenLock ==
    \A p \in Proc :
        lockfile = p => curlock[p] /\ (locked[p] \/ lpc[p] = "linked" \/ p \in cut)

\* A lock left by a crash does not stop a process that keeps waiting for it:
\* the five-minute rule ends in its removal.
OrphanBroken ==
    \A p \in Proc :
        (lockfile = Orphan /\ lpc[p] \in Waiting)
            ~> (lockfile # Orphan \/ lpc[p] \notin Waiting)

=============================================================================
