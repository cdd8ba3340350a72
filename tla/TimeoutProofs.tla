---------------------------- MODULE TimeoutProofs ----------------------------
(***************************************************************************)
(* Proofs about Timeout: its types, and that -k keeps the time for         *)
(* tolerance as long as no signal comes from outside.                      *)
(***************************************************************************)
EXTENDS Timeout, TLAPS

Starting == pc \in {"fork", "block", "arm"}
Looping == pc \in {"fork", "block", "arm", "suspend", "act", "wait"}

\* Until the timer of -k expires there is nothing for the loop to act on but the
\* first timer, once: no signal has set a flag, and the one the program sent
\* itself is going to be ignored.
Quiet ==
    /\ cause # "KILL"
    /\ siglist.term = None
    /\ Starting => /\ timers = {} /\ fired = {} /\ killer # "KILL"
                   /\ "ALRM" \notin pending /\ ~siglist.alrm
    /\ 1 \in timers => "ALRM" \notin pending /\ ~siglist.alrm
    /\ "ALRM" \in pending => ~siglist.alrm
    /\ killer # "KILL" /\ Looping => "TERM" \notin pending /\ siglist.ign = None
    /\ killer = "KILL" =>
         /\ "ALRM" \notin pending /\ ~siglist.alrm /\ 1 \notin timers
         /\ "TERM" \in pending => siglist.ign = "TERM"

GraceInv ==
    /\ "KILL" \notin kept
    /\ terms = 0 /\ opt.killer # "KILL" /\ 2 \notin fired => Quiet

-----------------------------------------------------------------------------
(* Types *)

Flags == [alrm : BOOLEAN, chld : BOOLEAN, term : {None, "TERM"}, ign : {None} \cup Killer]
Places == {"fork", "block", "arm", "suspend", "act", "wait", "final", "exit", "killed"}
Statuses == {None, "error", "command", "signal", "timedout"}
Children == {"none", "forked", "running", "stopped", "zombie", "reaped"}
Causes == {None, "exit", "noexec", "TERM", "USR1", "KILL"}
Impediments == {"early", "stopped", "unready", "nogroup", "again"}

\* What the handler makes of the flags has their type.
LEMMA HandledTypes ==
    ASSUME TypeOK, NEW s \in Signal
    PROVE  Handled(s) \in Flags
  BY DEF TypeOK, Handled, Signal, Flags

\* Every step keeps the types.
LEMMA TypesStep == TypeOK /\ [Next]_vars => TypeOK'
<1> SUFFICES ASSUME TypeOK, [Next]_vars PROVE TypeOK'
  OBVIOUS
<1>1. CASE Fork
  <2>1. pc' \in Places
    BY <1>1 DEF Fork, Places, TypeOK
  <2>2. child' \in Children /\ cause' \in Causes
    BY <1>1 DEF Fork, Children, Causes, Killer, TypeOK
  <2>3. QED
    BY <2>1, <2>2, <1>1 DEF Fork, Places, Children, Causes, TypeOK
<1>2. CASE Block
  <2>1. pc' \in Places
    BY <1>2 DEF Block, Places, TypeOK
  <2>2. QED
    BY <2>1, <1>2 DEF Block, Places, TypeOK
<1>3. CASE Arm
  <2>1. timers' \subseteq {1, 2}
    BY <1>3 DEF Arm, TypeOK
  <2>2. status' \in Statuses
    BY <1>3 DEF Arm, Statuses, TypeOK
  <2>3. pc' \in Places
    BY <1>3 DEF Arm, Places, TypeOK
  <2>4. QED
    BY <2>1, <2>2, <2>3, <1>3 DEF Arm, Statuses, Places, TypeOK
<1>4. CASE Suspend
  <2>1. siglist' \in Flags
    BY HandledTypes, <1>4 DEF Suspend, Flags, Signal, TypeOK
  <2>2. pending' \subseteq Signal
    BY <1>4 DEF Suspend, Signal, TypeOK
  <2>3. QED
    BY <2>1, <2>2, <1>4 DEF Suspend, Flags, TypeOK
<1>5. CASE ActOnChild
  <2>1. siglist' \in Flags
    BY <1>5 DEF ActOnChild, Flags, TypeOK
  <2>2. QED
    BY <2>1, <1>5 DEF ActOnChild, Flags, TypeOK
<1>6. CASE ActOnNothing
  <2>1. pc' \in Places
    BY <1>6 DEF ActOnNothing, Places, TypeOK
  <2>2. QED
    BY <2>1, <1>6 DEF ActOnNothing, Places, TypeOK
<1>7. CASE ActOnTimeout
  <2>1. siglist' \in Flags
    BY <1>7 DEF ActOnTimeout, SignalCommand, KilledToo, LeaveLoop, ArmKill, NoSecondTimer, Sent, Own, Reaches, Flags, Killer, TypeOK
  <2>2. pc' \in Places
    BY <1>7 DEF ActOnTimeout, SignalCommand, KilledToo, LeaveLoop, ArmKill, NoSecondTimer, Sent, Own, Reaches, Places, TypeOK
  <2>3. timers' \subseteq {1, 2}
    BY <1>7 DEF ActOnTimeout, SignalCommand, KilledToo, LeaveLoop, ArmKill, NoSecondTimer, Sent, Own, Reaches, TypeOK
  <2>4. status' \in Statuses
    BY <1>7 DEF ActOnTimeout, SignalCommand, KilledToo, LeaveLoop, ArmKill, NoSecondTimer, Sent, Own, Reaches, Statuses, TypeOK
  <2>5. pending' \subseteq Signal
    BY <1>7 DEF ActOnTimeout, SignalCommand, KilledToo, LeaveLoop, ArmKill, NoSecondTimer, Sent, Own, Reaches, Signal, Killer, TypeOK
  <2>6. child' \in Children /\ cause' \in Causes
    BY <1>7 DEF ActOnTimeout, SignalCommand, KilledToo, LeaveLoop, ArmKill, NoSecondTimer, Sent, Own, Reaches, Children, Causes, Killer, TypeOK
  <2>7. kept' \subseteq Killer
    BY <1>7 DEF ActOnTimeout, SignalCommand, KilledToo, LeaveLoop, ArmKill, NoSecondTimer, Sent, Own, Reaches, Killer, TypeOK
  <2>8. killer' \in Killer /\ more' \in BOOLEAN
    BY <1>7 DEF ActOnTimeout, SignalCommand, KilledToo, LeaveLoop, ArmKill, NoSecondTimer, Sent, Own, Reaches, Killer, TypeOK
  <2>9. impeded' \subseteq Impediments
    BY <1>7 DEF ActOnTimeout, SignalCommand, KilledToo, LeaveLoop, ArmKill, NoSecondTimer, Sent, Own, Reaches, Impediments, TypeOK
  <2>10. timesout' \in BOOLEAN
    BY <1>7 DEF ActOnTimeout, SignalCommand, KilledToo, LeaveLoop, ArmKill, NoSecondTimer, Sent, Own, Reaches, TypeOK
  <2>11. QED
    BY <2>1, <2>2, <2>3, <2>4, <2>5, <2>6, <2>7, <2>8, <2>9, <2>10, <1>7 DEF ActOnTimeout, SignalCommand, Flags, Places, Statuses, Children, Causes, Impediments, TypeOK
<1>8. CASE Reap
  <2>1. status' \in Statuses
    BY <1>8 DEF Reap, StatusOf, Statuses, TypeOK
  <2>2. child' \in Children /\ cause' \in Causes
    BY <1>8 DEF Reap, StatusOf, Children, Causes, Killer, TypeOK
  <2>3. QED
    BY <2>1, <2>2, <1>8 DEF Reap, Statuses, Children, Causes, TypeOK
<1>9. CASE NobodyToReap
  <2>1. pc' \in Places
    BY <1>9 DEF NobodyToReap, Places, TypeOK
  <2>2. QED
    BY <2>1, <1>9 DEF NobodyToReap, Places, TypeOK
<1>10. CASE ChildExec
  <2>1. siglist' \in Flags
    BY HandledTypes, <1>10 DEF ChildExec, Notify, Unblocked, Runs, Flags, Signal, TypeOK
  <2>2. pending' \subseteq Signal
    BY <1>10 DEF ChildExec, Notify, Unblocked, Runs, Signal, TypeOK
  <2>3. child' \in Children /\ cause' \in Causes
    BY <1>10 DEF ChildExec, Notify, Unblocked, Runs, Children, Causes, Killer, TypeOK
  <2>4. impeded' \subseteq Impediments
    BY <1>10 DEF ChildExec, Notify, Unblocked, Runs, Impediments, TypeOK
  <2>5. QED
    BY <2>1, <2>2, <2>3, <2>4, <1>10 DEF ChildExec, Flags, Children, Causes, Impediments, TypeOK
<1>11. CASE ChildExit
  <2>1. siglist' \in Flags
    BY HandledTypes, <1>11 DEF ChildExit, Notify, Unblocked, Runs, Flags, Signal, TypeOK
  <2>2. pending' \subseteq Signal
    BY <1>11 DEF ChildExit, Notify, Unblocked, Runs, Signal, TypeOK
  <2>3. child' \in Children /\ cause' \in Causes
    BY <1>11 DEF ChildExit, Notify, Unblocked, Runs, Children, Causes, Killer, TypeOK
  <2>4. impeded' \subseteq Impediments
    BY <1>11 DEF ChildExit, Notify, Unblocked, Runs, Impediments, TypeOK
  <2>5. QED
    BY <2>1, <2>2, <2>3, <2>4, <1>11 DEF ChildExit, Flags, Children, Causes, Impediments, TypeOK
<1>12. CASE ChildStop
  <2>1. siglist' \in Flags
    BY HandledTypes, <1>12 DEF ChildStop, Unblocked, Runs, Flags, Signal, TypeOK
  <2>2. pending' \subseteq Signal
    BY <1>12 DEF ChildStop, Unblocked, Runs, Signal, TypeOK
  <2>3. child' \in Children /\ cause' \in Causes
    BY <1>12 DEF ChildStop, Unblocked, Runs, Children, Causes, Killer, TypeOK
  <2>4. impeded' \subseteq Impediments
    BY <1>12 DEF ChildStop, Unblocked, Runs, Impediments, TypeOK
  <2>5. stops' \in 0..MaxStops
    BY TimeoutAssumption, <1>12 DEF ChildStop, Unblocked, Runs, TypeOK
  <2>6. QED
    BY <2>1, <2>2, <2>3, <2>4, <2>5, <1>12 DEF ChildStop, Flags, Children, Causes, Impediments, TypeOK
<1>13. CASE ChildContinue
  <2>1. siglist' \in Flags
    BY HandledTypes, <1>13 DEF ChildContinue, Notify, Unblocked, Runs, Flags, Signal, TypeOK
  <2>2. pending' \subseteq Signal
    BY <1>13 DEF ChildContinue, Notify, Unblocked, Runs, Signal, TypeOK
  <2>3. child' \in Children /\ cause' \in Causes
    BY <1>13 DEF ChildContinue, Notify, Unblocked, Runs, Children, Causes, Killer, TypeOK
  <2>4. kept' \subseteq Killer
    BY <1>13 DEF ChildContinue, Notify, Unblocked, Runs, Killer, TypeOK
  <2>5. impeded' \subseteq Impediments
    BY <1>13 DEF ChildContinue, Notify, Unblocked, Runs, Impediments, TypeOK
  <2>6. QED
    BY <2>1, <2>2, <2>3, <2>4, <2>5, <1>13 DEF ChildContinue, Flags, Children, Causes, Impediments, TypeOK
<1>14. ASSUME NEW t \in {1, 2}, Expire(t) PROVE TypeOK'
  <2>1. siglist' \in Flags
    BY HandledTypes, <1>14 DEF Expire, Notify, Unblocked, Runs, Flags, Signal, TypeOK
  <2>2. pending' \subseteq Signal
    BY <1>14 DEF Expire, Notify, Unblocked, Runs, Signal, TypeOK
  <2>3. timers' \subseteq {1, 2}
    BY <1>14 DEF Expire, Notify, Unblocked, Runs, TypeOK
  <2>4. fired' \subseteq {1, 2}
    BY <1>14 DEF Expire, Notify, Unblocked, Runs, TypeOK
  <2>5. impeded' \subseteq Impediments
    BY <1>14 DEF Expire, Notify, Unblocked, Runs, Impediments, TypeOK
  <2>6. QED
    BY <2>1, <2>2, <2>3, <2>4, <2>5, <1>14 DEF Expire, Flags, Impediments, TypeOK
<1>15. CASE Outside
  <2>1. siglist' \in Flags
    BY HandledTypes, <1>15 DEF Outside, Notify, Unblocked, Runs, Flags, Signal, TypeOK
  <2>2. pending' \subseteq Signal
    BY <1>15 DEF Outside, Notify, Unblocked, Runs, Signal, TypeOK
  <2>3. terms' \in 0..MaxTerms
    BY TimeoutAssumption, <1>15 DEF Outside, Notify, Unblocked, Runs, TypeOK
  <2>4. impeded' \subseteq Impediments
    BY <1>15 DEF Outside, Notify, Unblocked, Runs, Impediments, TypeOK
  <2>5. QED
    BY <2>1, <2>2, <2>3, <2>4, <1>15 DEF Outside, Flags, Impediments, TypeOK
<1>16. CASE UNCHANGED vars
  BY <1>16 DEF vars, TypeOK
<1>17. QED
  BY <1>1, <1>2, <1>3, <1>4, <1>5, <1>6, <1>7, <1>8, <1>9, <1>10, <1>11, <1>12, <1>13, <1>14,
     <1>15, <1>16 DEF Next, Program

\* timeout keeps to the values of its state, whatever signals come and go.
THEOREM TimeoutTypes == Spec => []TypeOK
<1>1. Init => TypeOK
  <2> SUFFICES ASSUME Init PROVE TypeOK
    OBVIOUS
  <2>1. killer \in Killer /\ more \in BOOLEAN
    BY DEF Init, Options
  <2>2. siglist \in Flags
    BY DEF Init, Flags
  <2>3. terms \in 0..MaxTerms /\ stops \in 0..MaxStops
    BY TimeoutAssumption DEF Init
  <2>4. QED
    BY <2>1, <2>2, <2>3 DEF Init, TypeOK, Flags
<1>2. QED
  BY <1>1, TypesStep, PTL DEF Spec

-----------------------------------------------------------------------------
(* The time for tolerance *)

\* Nothing that happens takes an expiry or an outside signal back.
LEMMA NothingTakenBack ==
    ASSUME TypeOK, [Next]_vars
    PROVE  opt' = opt /\ (terms' = 0 => terms = 0) /\ (2 \notin fired' => 2 \notin fired)
<1>1. CASE Program
  BY <1>1 DEF Program, Fork, Block, Arm, Suspend, ActOnChild, ActOnNothing, ActOnTimeout, Reap,
              NobodyToReap
<1>2. CASE ChildExec \/ ChildExit \/ ChildStop \/ ChildContinue
  BY <1>2 DEF ChildExec, ChildExit, ChildStop, ChildContinue
<1>3. ASSUME NEW t \in {1, 2}, Expire(t)
      PROVE  opt' = opt /\ terms' = terms /\ (2 \notin fired' => 2 \notin fired)
  BY <1>3 DEF Expire
<1>4. CASE Outside
  BY <1>4 DEF Outside, TypeOK
<1>5. CASE UNCHANGED vars
  BY <1>5 DEF vars
<1>6. QED
  BY <1>1, <1>2, <1>3, <1>4, <1>5 DEF Next

\* The command keeps no SIGKILL for later: it ends by it.
LEMMA NoKillKept == TypeOK /\ "KILL" \notin kept /\ [Next]_vars => "KILL" \notin kept'
<1> SUFFICES ASSUME TypeOK, "KILL" \notin kept, [Next]_vars PROVE "KILL" \notin kept'
  OBVIOUS
<1>1. CASE Fork \/ Block \/ Arm \/ Suspend \/ ActOnChild \/ ActOnNothing \/ Reap \/ NobodyToReap
  BY <1>1 DEF Fork, Block, Arm, Suspend, ActOnChild, ActOnNothing, Reap, NobodyToReap
<1>2. CASE ActOnTimeout
  BY <1>2 DEF ActOnTimeout, SignalCommand
<1>3. CASE ChildExec \/ ChildExit \/ ChildStop \/ ChildContinue
  BY <1>3 DEF ChildExec, ChildExit, ChildStop, ChildContinue
<1>4. ASSUME NEW t \in {1, 2}, Expire(t) PROVE "KILL" \notin kept'
  BY <1>4 DEF Expire
<1>5. CASE Outside
  BY <1>5 DEF Outside
<1>6. CASE UNCHANGED vars
  BY <1>6 DEF vars
<1>7. QED
  BY <1>1, <1>2, <1>3, <1>4, <1>5, <1>6 DEF Next, Program

\* The program's steps keep Quiet while the second timer has not expired.
LEMMA QuietProgram ==
    ASSUME TypeOK, Quiet, opt.killer # "KILL", Program
    PROVE  Quiet'
<1>1. CASE Fork
  BY <1>1 DEF Fork, Quiet, Starting, Looping, TypeOK, None
<1>2. CASE Block
  BY <1>2 DEF Block, Quiet, Starting, Looping, TypeOK, None
<1>3. CASE Arm
  BY <1>3 DEF Arm, Quiet, Starting, Looping, TypeOK, None
<1>4. CASE Suspend
  BY <1>4 DEF Suspend, Handled, Quiet, Starting, Looping, TypeOK, None
<1>5. CASE ActOnChild
  BY <1>5 DEF ActOnChild, Quiet, Starting, Looping, TypeOK, None
<1>6. CASE ActOnNothing
  BY <1>6 DEF ActOnNothing, Quiet, Starting, Looping, TypeOK, None
<1>7. CASE ActOnTimeout
  <2> USE <1>7 DEF Quiet, Starting, Looping, TypeOK, None, Killer
  <2>1. siglist.alrm /\ killer # "KILL" /\ Sent = killer
    BY DEF ActOnTimeout, Sent
  <2>2. cause' # "KILL"
    BY <2>1 DEF ActOnTimeout, SignalCommand
  <2>3. "ALRM" \notin pending' /\ siglist'.alrm = FALSE /\ siglist'.term = None
    BY <2>1 DEF ActOnTimeout, KilledToo, LeaveLoop, ArmKill, NoSecondTimer
  <2>4. 1 \notin timers'
    BY <2>1 DEF ActOnTimeout, KilledToo, LeaveLoop, ArmKill, NoSecondTimer
  <2>5. pc' \notin {"fork", "block", "arm", "act", "wait"}
    BY <2>1 DEF ActOnTimeout, KilledToo, LeaveLoop, ArmKill, NoSecondTimer
  <2>6. CASE pc' # "suspend"
    <3>1. killer' = killer
      BY <2>6 DEF ActOnTimeout, KilledToo, LeaveLoop, ArmKill, NoSecondTimer
    <3>2. QED
      BY <2>1, <2>2, <2>3, <2>4, <2>5, <2>6, <3>1
  <2>7. CASE pc' = "suspend"
    <3>1. killer' = "KILL" /\ siglist'.ign = killer
      BY <2>7 DEF ActOnTimeout, KilledToo, LeaveLoop, ArmKill, NoSecondTimer
    <3>2. "TERM" \in pending' => killer = "TERM"
      BY <2>1 DEF ActOnTimeout
    <3>3. QED
      BY <2>1, <2>2, <2>3, <2>4, <2>5, <2>7, <3>1, <3>2
  <2>8. QED
    BY <2>6, <2>7
<1>8. CASE Reap \/ NobodyToReap
  BY <1>8 DEF Reap, NobodyToReap, Quiet, Starting, Looping, TypeOK, None
<1>9. QED
  BY <1>1, <1>2, <1>3, <1>4, <1>5, <1>6, <1>7, <1>8 DEF Program

\* So do the command's, the first timer's, and nobody else's.
LEMMA QuietOthers ==
    ASSUME TypeOK, Quiet, "KILL" \notin kept,
           \/ ChildExec \/ ChildExit \/ ChildStop \/ ChildContinue
           \/ Expire(1)
    PROVE  Quiet'
<1> USE DEF Quiet, Starting, Looping, TypeOK, None, Unblocked, Runs
<1>1. CASE ChildExec
  BY <1>1 DEF ChildExec, Notify, Handled
<1>2. CASE ChildExit
  BY <1>2 DEF ChildExit, Notify, Handled
<1>3. CASE ChildStop
  BY <1>3 DEF ChildStop, Handled
<1>4. CASE ChildContinue
  BY <1>4 DEF ChildContinue, Notify, Handled
<1>5. CASE Expire(1)
  BY <1>5 DEF Expire, Notify
<1>6. QED
  BY <1>1, <1>2, <1>3, <1>4, <1>5

\* GraceInv is inductive.
LEMMA GraceStep == TypeOK /\ GraceInv /\ [Next]_vars => GraceInv'
<1> SUFFICES ASSUME TypeOK, GraceInv, [Next]_vars PROVE GraceInv'
  OBVIOUS
<1>1. "KILL" \notin kept'
  BY NoKillKept DEF GraceInv
<1>2. ASSUME terms' = 0, opt'.killer # "KILL", 2 \notin fired' PROVE Quiet'
  <2>1. terms = 0 /\ opt.killer # "KILL" /\ 2 \notin fired /\ Quiet
    BY <1>2, NothingTakenBack DEF GraceInv
  <2>2. CASE Program
    BY <2>1, <2>2, QuietProgram
  <2>3. CASE ChildExec \/ ChildExit \/ ChildStop \/ ChildContinue
    BY <2>1, <2>3, QuietOthers DEF GraceInv
  <2>4. ASSUME NEW t \in {1, 2}, Expire(t) PROVE Quiet'
    <3>1. t = 1
      BY <1>2, <2>4 DEF Expire
    <3>2. QED
      BY <2>1, <2>4, <3>1, QuietOthers DEF GraceInv
  <2>5. CASE Outside
    BY <1>2, <2>5, <2>1 DEF Outside, TypeOK
  <2>6. CASE UNCHANGED vars
    BY <2>1, <2>6 DEF vars, Quiet, Starting, Looping
  <2>7. QED
    BY <2>2, <2>3, <2>4, <2>5, <2>6 DEF Next
<1>3. QED
  BY <1>1, <1>2 DEF GraceInv

\* Whatever the options, the order of the signals and the times of their
\* arrival: with no signal from outside, the command is not killed by -k before
\* the second timer has expired.
THEOREM TimeoutGrace == Spec => []GraceKept
<1>1. Init => GraceInv
  BY DEF Init, GraceInv, Quiet, Starting, Looping, Options, None
<1>2. TypeOK /\ GraceInv => GraceKept
  BY DEF GraceInv, Quiet, GraceKept
<1>3. QED
  BY <1>1, <1>2, GraceStep, TimeoutTypes, PTL DEF Spec

-----------------------------------------------------------------------------
(* The report *)

\* Without a signal from outside, everything the program does begins with the
\* first timer: an alarm, the signal it sends itself, the timer of -k and a
\* command that ends by a signal all come after it has expired.
BeginsWithTimer ==
    /\ timesout => 1 \in fired
    /\ siglist.alrm \/ "ALRM" \in pending => 1 \in fired
    /\ 2 \in timers \/ 2 \in fired => timesout
    /\ siglist.term # None \/ "TERM" \in pending => timesout
    /\ cause \in Killer \/ kept # {} => timesout

\* The status is what timesout was when the command was reaped, and that is
\* the last thing the program does.
StatusKept ==
    /\ pc = "exit" => status # None
    /\ child = "reaped" => pc = "exit"
    /\ status \in {"command", "signal", "timedout"} =>
         child = "reaped" /\ (status = "timedout" <=> timesout /\ ~opt.preserve)

ReportInv == (terms = 0 => BeginsWithTimer) /\ StatusKept

\* The program's steps keep BeginsWithTimer.
LEMMA BeginsProgram ==
    ASSUME TypeOK, BeginsWithTimer, Program
    PROVE  BeginsWithTimer'
<1> USE DEF BeginsWithTimer, TypeOK, None
<1>1. CASE Fork \/ Block \/ Arm
  BY <1>1 DEF Fork, Block, Arm
<1>2. CASE Suspend
  BY <1>2 DEF Suspend, Handled
<1>3. CASE ActOnChild \/ ActOnNothing
  BY <1>3 DEF ActOnChild, ActOnNothing
<1>4. CASE ActOnTimeout
  <2>1. timesout'
    BY <1>4 DEF ActOnTimeout
  <2>2. 1 \in fired'
    BY <1>4 DEF ActOnTimeout
  <2>3. QED
    BY <2>1, <2>2
<1>5. CASE Reap \/ NobodyToReap
  BY <1>5 DEF Reap, NobodyToReap
<1>6. QED
  BY <1>1, <1>2, <1>3, <1>4, <1>5 DEF Program

\* So do those of the command and the timers.
LEMMA BeginsOthers ==
    ASSUME TypeOK, BeginsWithTimer,
           \/ ChildExec \/ ChildExit \/ ChildStop \/ ChildContinue
           \/ \E t \in {1, 2} : Expire(t)
    PROVE  BeginsWithTimer'
<1> USE DEF BeginsWithTimer, TypeOK, None, Unblocked, Runs
<1>1. CASE ChildExec
  BY <1>1 DEF ChildExec, Notify, Handled, Killer
<1>2. CASE ChildExit
  BY <1>2 DEF ChildExit, Notify, Handled, Killer
<1>3. CASE ChildStop
  BY <1>3 DEF ChildStop, Handled
<1>4. CASE ChildContinue
  BY <1>4 DEF ChildContinue, Notify, Handled
<1>5. ASSUME NEW t \in {1, 2}, Expire(t) PROVE BeginsWithTimer'
  BY <1>5 DEF Expire, Notify, Handled
<1>6. QED
  BY <1>1, <1>2, <1>3, <1>4, <1>5

\* StatusKept is inductive.
LEMMA StatusStep ==
    ASSUME TypeOK, StatusKept, [Next]_vars
    PROVE  StatusKept'
<1> USE DEF StatusKept, TypeOK, None
<1>1. CASE Fork \/ Block \/ Arm \/ Suspend \/ ActOnChild \/ ActOnNothing
  BY <1>1 DEF Fork, Block, Arm, Suspend, ActOnChild, ActOnNothing
<1>2. CASE ActOnTimeout
  <2>1. pc = "act" /\ child # "reaped" /\ status \in {None, "error"}
    BY <1>2 DEF ActOnTimeout
  <2>2. child' # "reaped"
    BY <1>2, <2>1 DEF ActOnTimeout, SignalCommand
  <2>3. status' \in {None, "error"} /\ (pc' = "exit" => status' # None)
    BY <1>2, <2>1 DEF ActOnTimeout, KilledToo, LeaveLoop, ArmKill, NoSecondTimer
  <2>4. QED
    BY <2>2, <2>3
<1>3. CASE Reap
  BY <1>3 DEF Reap, StatusOf
<1>4. CASE NobodyToReap
  BY <1>4 DEF NobodyToReap
<1>5. CASE ChildExec \/ ChildExit \/ ChildStop \/ ChildContinue
  BY <1>5 DEF ChildExec, ChildExit, ChildStop, ChildContinue
<1>6. ASSUME NEW t \in {1, 2}, Expire(t) PROVE StatusKept'
  BY <1>6 DEF Expire
<1>7. CASE Outside
  BY <1>7 DEF Outside
<1>8. CASE UNCHANGED vars
  BY <1>8 DEF vars
<1>9. QED
  BY <1>1, <1>2, <1>3, <1>4, <1>5, <1>6, <1>7, <1>8 DEF Next, Program

\* ReportInv is inductive.
LEMMA ReportStep == TypeOK /\ ReportInv /\ [Next]_vars => ReportInv'
<1> SUFFICES ASSUME TypeOK, ReportInv, [Next]_vars PROVE ReportInv'
  OBVIOUS
<1>1. StatusKept'
  BY StatusStep DEF ReportInv
<1>2. ASSUME terms' = 0 PROVE BeginsWithTimer'
  <2>1. terms = 0 /\ BeginsWithTimer
    BY <1>2, NothingTakenBack DEF ReportInv
  <2>2. CASE Program
    BY <2>1, <2>2, BeginsProgram
  <2>3. CASE \/ ChildExec \/ ChildExit \/ ChildStop \/ ChildContinue
             \/ \E t \in {1, 2} : Expire(t)
    BY <2>1, <2>3, BeginsOthers
  <2>4. CASE Outside
    BY <1>2, <2>1, <2>4 DEF Outside, TypeOK
  <2>5. CASE UNCHANGED vars
    BY <2>1, <2>5 DEF vars, BeginsWithTimer
  <2>6. QED
    BY <2>2, <2>3, <2>4, <2>5 DEF Next
<1>3. QED
  BY <1>1, <1>2 DEF ReportInv

\* timeout's exit status tells the truth: whatever the options and the order of
\* events, a command the program ended is reported as timed out unless -p was
\* given, and nothing else is, as long as no signal comes from outside.
THEOREM TimeoutReports == Spec => []TimeoutReported
<1>1. Init => ReportInv
  BY DEF Init, ReportInv, BeginsWithTimer, StatusKept, None, Killer
<1>2. TypeOK /\ ReportInv => TimeoutReported
  BY DEF ReportInv, BeginsWithTimer, StatusKept, TypeOK, None, TimeoutReported
<1>3. QED
  BY <1>1, <1>2, ReportStep, TimeoutTypes, PTL DEF Spec
=============================================================================
