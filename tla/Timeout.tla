------------------------------- MODULE Timeout -------------------------------
(***************************************************************************)
(* timeout/timeout.c: run a command, signal it when a timer expires, and   *)
(* with -k kill it when a second one does.                                 *)
(*                                                                         *)
(* The program handles SIGTERM and its like, SIGCHLD and SIGALRM in one    *)
(* handler that only sets flags.  It blocks them all but in sigsuspend();  *)
(* the handlers are in place, and the signals not yet blocked, while the   *)
(* command is started.  The model begins there.  Without -f the program    *)
(* and its command are one process group, and the signal goes to both.     *)
(*                                                                         *)
(* Signals: TERM stands for HUP, INT, QUIT and TERM, which are treated     *)
(* alike; USR1 for a signal given with -s that the handler has no case for.*)
(***************************************************************************)
EXTENDS Naturals

CONSTANTS
    MaxTerms,   \* bound: signals the program is sent from outside
    MaxStops    \* bound: times the command is stopped

ASSUME TimeoutAssumption == MaxTerms \in Nat /\ MaxStops \in Nat

VARIABLES
    opt,        \* the options, and what the outside will do; never changes
    pc,
    pending,    \* signals that are blocked and wait for sigsuspend()
    siglist,    \* the flags the handler sets
    killer,     \* killer_sig
    more,       \* fOnemoretime
    timesout,
    timers,     \* the timers that run: 1 the duration, 2 that of -k
    child,      \* the command's process
    cause,      \* how it ended
    kept,       \* signals it was sent while stopped
    status,     \* the program's exit status
    terms, stops,
    fired,      \* history: the timers that have expired
    impeded     \* history: what can keep the program from ending its command

vars == <<opt, pc, pending, siglist, killer, more, timesout, timers, child, cause, kept,
          status, terms, stops, fired, impeded>>

None == "none"

Signal == {"TERM", "USR1", "CHLD", "ALRM"}
Killer == {"TERM", "USR1", "KILL"}

\* fg: -f;  more: -k;  preserve: -p;  zero: a duration of 0;  killer: -s;
\* leader: the program leads its session, so that setpgid() fails;
\* stubborn: the command ends on SIGKILL only.
Options == [fg : BOOLEAN, more : BOOLEAN, preserve : BOOLEAN, zero : BOOLEAN,
            killer : Killer, leader : BOOLEAN, stubborn : BOOLEAN]

TypeOK ==
    /\ opt \in Options
    /\ pc \in {"fork", "block", "arm", "suspend", "act", "wait", "final", "exit", "killed"}
    /\ pending \subseteq Signal
    /\ siglist \in [alrm : BOOLEAN, chld : BOOLEAN, term : {None, "TERM"},
                    ign : {None} \cup Killer]
    /\ killer \in Killer
    /\ more \in BOOLEAN
    /\ timesout \in BOOLEAN
    /\ timers \subseteq {1, 2}
    /\ child \in {"none", "forked", "running", "stopped", "zombie", "reaped"}
    /\ cause \in {None, "exit", "noexec", "TERM", "USR1", "KILL"}
    /\ kept \subseteq Killer
    /\ status \in {None, "error", "command", "signal", "timedout"}
    /\ terms \in 0..MaxTerms
    /\ stops \in 0..MaxStops
    /\ fired \subseteq {1, 2}
    /\ impeded \subseteq {"early", "stopped", "unready", "nogroup", "again"}

Init ==
    /\ opt \in Options
    /\ pc = "fork"
    /\ pending = {}
    /\ siglist = [alrm |-> FALSE, chld |-> FALSE, term |-> None, ign |-> None]
    /\ killer = opt.killer
    /\ more = opt.more
    /\ timesout = FALSE
    /\ timers = {}
    /\ child = "none"
    /\ cause = None
    /\ kept = {}
    /\ status = None
    /\ terms = 0
    /\ stops = 0
    /\ fired = {}
    /\ impeded = {}

-----------------------------------------------------------------------------
(* Signals *)

Runs == pc \notin {"exit", "killed"}

\* The handlers are set and nothing is blocked.
Unblocked == pc \in {"fork", "block"}

\* A slip: no case for SIGCHLD.
SlipHandled(s) ==
    CASE s = "TERM" -> [siglist EXCEPT !.term = "TERM"]
      [] s = "ALRM" -> [siglist EXCEPT !.alrm = TRUE]
      [] OTHER -> siglist

\* handle_signal(): one signal may be ignored, once; the others set a flag.
Handled(s) ==
    IF siglist.ign # None /\ s = siglist.ign THEN [siglist EXCEPT !.ign = None]
    ELSE CASE s = "TERM" -> [siglist EXCEPT !.term = "TERM"]
           [] s = "CHLD" -> [siglist EXCEPT !.chld = TRUE]
           [] s = "ALRM" -> [siglist EXCEPT !.alrm = TRUE]
           [] OTHER -> siglist

\* A signal reaches the program: handled at once, or kept for sigsuspend().
Notify(s) ==
    IF Unblocked
      THEN /\ siglist' = Handled(s)
           /\ impeded' = impeded \cup {"early"}
           /\ UNCHANGED pending
      ELSE /\ pending' = IF Runs THEN pending \cup {s} ELSE pending
           /\ UNCHANGED <<siglist, impeded>>

\* What a signal s does to the command.  Before exec() the command's process
\* has the program's handlers, so a caught signal is lost in it.
Deadly(s) == s = "KILL" \/ (child = "running" /\ ~opt.stubborn)

Alive == child \in {"forked", "running", "stopped"}

-----------------------------------------------------------------------------
(* The program *)

\* fork(); when it fails there is a message, and the program goes on.
Fork ==
    /\ pc = "fork"
    /\ child' \in {"forked", "none"}
    /\ pc' = "block"
    /\ UNCHANGED <<opt, pending, siglist, killer, more, timesout, timers, cause, kept, status,
                   terms, stops, fired, impeded>>

\* sigprocmask(SIG_BLOCK).
Block ==
    /\ pc = "block"
    /\ pc' = "arm"
    /\ UNCHANGED <<opt, pending, siglist, killer, more, timesout, timers, child, cause, kept,
                   status, terms, stops, fired, impeded>>

\* settimeout(&first_interval).  A duration of 0 disables the timer; when there
\* is no timer to be had the program exits, and leaves the command alone.
Arm ==
    /\ pc = "arm"
    /\ \/ /\ timers' = IF opt.zero THEN {} ELSE {1}
          /\ pc' = "suspend"
          /\ UNCHANGED status
       \/ /\ pc' = "exit"
          /\ status' = "error"
          /\ UNCHANGED timers
    /\ UNCHANGED <<opt, pending, siglist, killer, more, timesout, child, cause, kept,
                   terms, stops, fired, impeded>>

\* sigsuspend(): one of the pending signals is handled.
Suspend ==
    /\ pc = "suspend"
    /\ \E s \in pending :
         /\ pending' = pending \ {s}
         /\ siglist' = Handled(s)
    /\ pc' = "act"
    /\ UNCHANGED <<opt, killer, more, timesout, timers, child, cause, kept, status,
                   terms, stops, fired, impeded>>

\* A SIGCHLD is looked at before anything else.
ActOnChild ==
    /\ pc = "act"
    /\ siglist.chld
    /\ siglist' = [siglist EXCEPT !.chld = FALSE]
    /\ pc' = "wait"
    /\ UNCHANGED <<opt, pending, killer, more, timesout, timers, child, cause, kept, status,
                   terms, stops, fired, impeded>>

\* No flag is set: back to sigsuspend().
ActOnNothing ==
    /\ pc = "act"
    /\ ~siglist.chld /\ ~siglist.alrm /\ siglist.term = None
    /\ pc' = "suspend"
    /\ UNCHANGED <<opt, pending, siglist, killer, more, timesout, timers, child, cause, kept,
                   status, terms, stops, fired, impeded>>

\* The signal to send: with -f a signal from outside is passed on.
Sent == IF opt.fg /\ siglist.term # None THEN siglist.term ELSE killer

\* killpg() reaches the program too.
Own == ~opt.fg /\ ~opt.leader

\* The process group is the program's own (pgid is 0) unless setpgid() failed.
Reaches == Alive /\ (opt.fg \/ ~opt.leader)

\* kill() or killpg() to the command.
SignalCommand(s) ==
    /\ child' = IF Reaches /\ Deadly(s) THEN "zombie" ELSE child
    /\ cause' = IF Reaches /\ Deadly(s) THEN s ELSE cause
    /\ kept' = IF Reaches /\ child = "stopped" /\ s # "KILL" THEN kept \cup {s} ELSE kept
    /\ impeded' = impeded
         \cup (IF Reaches /\ child = "forked" /\ s # "KILL" THEN {"unready"} ELSE {})
         \cup (IF Alive /\ ~Reaches THEN {"nogroup"} ELSE {})
         \cup (IF opt.fg /\ killer = "KILL" /\ s # "KILL" THEN {"again"} ELSE {})

\* After SIGKILL to its own group nothing follows.
KilledToo ==
    /\ Own /\ Sent = "KILL"
    /\ pc' = "killed"
    /\ siglist' = [siglist EXCEPT !.alrm = FALSE]
    /\ UNCHANGED <<killer, more, timers, status>>

\* Without -k, or when its timer has been armed already, the loop ends.
LeaveLoop ==
    /\ ~(Own /\ Sent = "KILL")
    /\ ~more
    /\ pc' = "final"
    /\ siglist' = [siglist EXCEPT !.alrm = FALSE]
    /\ UNCHANGED <<killer, more, timers, status>>

\* Slips: the program hears its own signal; the signal stays what it was; the
\* ignored signal is the wrong one.
SlipArmKillHeard ==
    /\ pc' = "suspend"
    /\ timers' = timers \cup {2}
    /\ more' = FALSE
    /\ siglist' = [siglist EXCEPT !.alrm = FALSE]
    /\ killer' = "KILL"
    /\ UNCHANGED status

SlipArmKillSame ==
    /\ pc' = "suspend"
    /\ timers' = timers \cup {2}
    /\ more' = FALSE
    /\ siglist' = [siglist EXCEPT !.alrm = FALSE, !.ign = killer]
    /\ UNCHANGED <<killer, status>>

SlipArmKillIgn ==
    /\ pc' = "suspend"
    /\ timers' = timers \cup {2}
    /\ more' = FALSE
    /\ siglist' = [siglist EXCEPT !.alrm = FALSE, !.ign = "ALRM"]
    /\ killer' = "KILL"
    /\ UNCHANGED status

\* The timer of -k is armed.  The program is about to be signalled by itself,
\* and ignores that; the next signal it sends is SIGKILL.
ArmKill ==
    /\ pc' = "suspend"
    /\ timers' = timers \cup {2}
    /\ more' = FALSE
    /\ siglist' = [siglist EXCEPT !.alrm = FALSE, !.ign = killer]
    /\ killer' = "KILL"
    /\ UNCHANGED status

\* settimeout(&second_interval) fails: the program exits, the command goes on.
NoSecondTimer ==
    /\ pc' = "exit"
    /\ status' = "error"
    /\ siglist' = [siglist EXCEPT !.alrm = FALSE]
    /\ UNCHANGED <<killer, more, timers>>

\* A timer or a signal from outside: the command is signalled, and without -f
\* the program itself.
ActOnTimeout ==
    /\ pc = "act"
    /\ ~siglist.chld
    /\ siglist.alrm \/ siglist.term # None
    /\ timesout' = (timesout \/ siglist.alrm)
    /\ SignalCommand(Sent)
    /\ pending' = pending \cup (IF Own /\ Sent # "KILL" THEN {Sent} ELSE {})
                           \cup (IF child' # child THEN {"CHLD"} ELSE {})
    /\ \/ KilledToo
       \/ LeaveLoop
       \/ ~(Own /\ Sent = "KILL") /\ more /\ (ArmKill \/ NoSecondTimer)
    /\ UNCHANGED <<opt, terms, stops, fired>>

\* A slip: -p read the wrong way round.
SlipStatusOf(how) ==
    IF timesout /\ opt.preserve THEN "timedout"
    ELSE IF how \in {"exit", "noexec"} THEN "command" ELSE "signal"

\* The status of the program from that of the command.
StatusOf(how) ==
    IF timesout /\ ~opt.preserve THEN "timedout"
    ELSE IF how \in {"exit", "noexec"} THEN "command" ELSE "signal"

\* wait(), with the signals blocked: in the loop after a SIGCHLD, or behind it.
\* It returns for a command that has ended, and not for one that has stopped.
Reap ==
    /\ pc \in {"wait", "final"}
    /\ child = "zombie"
    /\ child' = "reaped"
    /\ status' = StatusOf(cause)
    /\ pc' = "exit"
    /\ UNCHANGED <<opt, pending, siglist, killer, more, timesout, timers, cause, kept,
                   terms, stops, fired, impeded>>

\* wait() of a program whose fork() has failed.
NobodyToReap ==
    /\ pc = "final"
    /\ child = "none"
    /\ status' = "error"
    /\ pc' = "exit"
    /\ UNCHANGED <<opt, pending, siglist, killer, more, timesout, timers, child, cause, kept,
                   terms, stops, fired, impeded>>

Program ==
    \/ Fork \/ Block \/ Arm \/ Suspend
    \/ ActOnChild \/ ActOnNothing \/ ActOnTimeout
    \/ Reap \/ NobodyToReap

-----------------------------------------------------------------------------
(* The command, the timers and the outside *)

\* exec(), or its failure: the process ends with 126 or 127.
ChildExec ==
    /\ child = "forked"
    /\ \/ child' = "running" /\ UNCHANGED <<cause, pending, siglist, impeded>>
       \/ child' = "zombie" /\ cause' = "noexec" /\ Notify("CHLD")
    /\ UNCHANGED <<opt, pc, killer, more, timesout, timers, kept, status, terms, stops, fired>>

ChildExit ==
    /\ child = "running"
    /\ child' = "zombie"
    /\ cause' = "exit"
    /\ Notify("CHLD")
    /\ UNCHANGED <<opt, pc, killer, more, timesout, timers, kept, status, terms, stops, fired>>

\* The command is stopped, by its terminal perhaps.  The program is told.
ChildStop ==
    /\ child = "running"
    /\ stops < MaxStops
    /\ child' = "stopped"
    /\ stops' = stops + 1
    /\ IF Unblocked
         THEN /\ siglist' = Handled("CHLD")
              /\ impeded' = impeded \cup {"early", "stopped"}
              /\ UNCHANGED pending
         ELSE /\ pending' = IF Runs THEN pending \cup {"CHLD"} ELSE pending
              /\ impeded' = impeded \cup {"stopped"}
              /\ UNCHANGED siglist
    /\ UNCHANGED <<opt, pc, killer, more, timesout, timers, cause, kept, status, terms, fired>>

\* It is continued, and a signal it was sent meanwhile takes effect.
ChildContinue ==
    /\ child = "stopped"
    /\ IF kept # {} /\ ~opt.stubborn
         THEN child' = "zombie" /\ cause' \in kept
         ELSE child' = "running" /\ UNCHANGED cause
    /\ kept' = {}
    /\ Notify("CHLD")
    /\ UNCHANGED <<opt, pc, killer, more, timesout, timers, status, terms, stops, fired>>

Expire(t) ==
    /\ t \in timers
    /\ timers' = timers \ {t}
    /\ fired' = fired \cup {t}
    /\ Notify("ALRM")
    /\ UNCHANGED <<opt, pc, killer, more, timesout, child, cause, kept, status, terms, stops>>

Outside ==
    /\ terms < MaxTerms
    /\ Runs
    /\ terms' = terms + 1
    /\ Notify("TERM")
    /\ UNCHANGED <<opt, pc, killer, more, timesout, timers, child, cause, kept, status, stops,
                   fired>>

Next ==
    \/ Program
    \/ ChildExec \/ ChildExit \/ ChildStop \/ ChildContinue
    \/ (\E t \in {1, 2} : Expire(t))
    \/ Outside

\* The program runs, the command's process gets to exec() and timers expire.
\* Nothing is assumed of the command: it may run, or stay stopped, for ever.
Spec ==
    /\ Init /\ [][Next]_vars
    /\ WF_vars(Program) /\ WF_vars(ChildExec)
    /\ \A t \in {1, 2} : WF_vars(Expire(t))
-----------------------------------------------------------------------------
(* Properties *)

\* As long as no signal comes from outside, a command is killed by -k only when
\* the time for tolerance has passed: the signal the program sends itself, to
\* its group, does not count for the second timer (timeout.1, option -k).
GraceKept ==
    terms = 0 /\ opt.killer # "KILL" /\ cause = "KILL" => 2 \in fired

\* A command that was ended by the program, and not by a signal from outside it
\* passed on, is reported as timed out, unless the status is preserved; and
\* nothing else is (timeout.1, DIAGNOSTICS).
TimeoutReported ==
    pc = "exit" /\ status # "error" /\ terms = 0 =>
        /\ cause \in Killer /\ ~opt.preserve => status = "timedout"
        /\ status = "timedout" => 1 \in fired /\ ~opt.preserve

\* The end of the command is noticed and the program ends.  A SIGCHLD that
\* comes before the signals are blocked sets its flag and wakes nobody: then it
\* takes the timer, and with a duration of 0 there is none.
EndNoticed ==
    child = "zombie" ~> ~Runs \/ (opt.zero /\ "early" \in impeded)

\* What was promised to end is ended: a command that does not withstand the
\* signal, or any command with -k or -s KILL.  What the program does not cope
\* with is listed in impeded: a command stopped, or not yet in exec(); its own
\* session to lead; and, with -f, a signal from outside, which takes the place
\* of SIGKILL from then on.
TimeLimitKept ==
    ~opt.zero /\ (~opt.stubborn \/ opt.more \/ opt.killer = "KILL") /\ child = "forked"
        ~> child \in {"zombie", "reaped"} \/ status = "error"
             \/ impeded \cap {"stopped", "unready", "nogroup", "again"} # {}

\* What the manual says of -k, without the proviso of GraceKept.
KillAfterGrace ==
    opt.killer # "KILL" /\ cause = "KILL" => 2 \in fired
=============================================================================
