--------------------------------- MODULE Shl ---------------------------------
(***************************************************************************)
(* shl/shl.c: the shell layer manager.  Layers, each a process with a      *)
(* pseudo-terminal, are kept in a doubly linked list whose last member is  *)
(* meant to be the current layer.  doio() polls the terminal and every     *)
(* layer; await() waits for the child behind a pseudo-terminal that hung   *)
(* up.                                                                     *)
(*                                                                         *)
(* A layer stands for its structure, its pseudo-terminal and its process.  *)
(* Names are left out: a command is given the layer that its name finds.   *)
(* A command for several layers is several commands.                       *)
(***************************************************************************)
EXTENDS Naturals, FiniteSets, Sequences

CONSTANTS
    Layer,      \* the layers there can ever be at a time
    Null,       \* no layer
    MAXLAYER,   \* maximum layers
    Talking,    \* bound: the layers with output, which block is used for
    Leaving     \* bound: the layers whose process may leave its terminal

ASSUME LayerAssumption ==
    /\ IsFiniteSet(Layer)
    /\ Null \notin Layer
    /\ MAXLAYER \in 1..Cardinality(Layer)
    /\ Talking \subseteq Layer /\ Leaving \subseteq Layer

VARIABLES
    list,       \* l0, lcur, and the l_next and l_prev of every layer
    alloc,      \* the layers that are allocated; lcount is their number
    proc,       \* the layers' processes
    blk,        \* the layers with l_blk
    utmp,       \* the layers with an entry in the utmp file
    hadquit,
    pc,
    layermode,  \* doio() passes input to lcur (cmdptr is NULL)
    typed,      \* cmdbuf: nothing, a part of a line, a line
    endloop,
    pfd,        \* the layers doio() polls, by position
    muted,      \* those with no events to poll for
    ins,        \* revents: POLLIN
    hups,       \* revents: POLLHUP without POLLIN
    deleted     \* history: the layers a delete command has sent SIGHUP

doiovars == <<endloop, pfd, muted, ins, hups>>
vars == <<list, alloc, proc, blk, utmp, hadquit, pc, layermode, typed, endloop, pfd, muted,
          ins, hups, deleted>>

Pointer == Layer \cup {Null}

TypeOK ==
    /\ list \in [l0 : Pointer, lcur : Pointer,
                 next : [Layer -> Pointer], prev : [Layer -> Pointer]]
    /\ alloc \subseteq Layer /\ Cardinality(alloc) <= MAXLAYER
    /\ proc \in [Layer -> {"none", "running", "away", "exiting", "zombie"}]
    /\ blk \subseteq alloc /\ utmp \subseteq Layer
    /\ hadquit \in BOOLEAN
    /\ pc \in {"poll", "event", "await", "execute", "quit", "crash"}
    /\ layermode \in BOOLEAN
    /\ typed \in {"none", "part", "line"}
    /\ endloop \in BOOLEAN
    /\ pfd \in Seq(Layer) /\ Len(pfd) <= MAXLAYER
    /\ muted \subseteq Layer /\ ins \subseteq Layer /\ hups \subseteq Layer
    /\ deleted \subseteq Layer

-----------------------------------------------------------------------------
(* The list of layers *)

Walk(h) ==
    LET at[i \in 1..Cardinality(Layer) + 1] ==
          IF i = 1 THEN h.l0 ELSE IF at[i - 1] = Null THEN Null ELSE h.next[at[i - 1]]
    IN at

\* The layers a walk from l0 finds: what lbypid(), lbypty() and lbyname() see.
Chain(h) == {Walk(h)[i] : i \in 1..Cardinality(Layer)} \ {Null}

\* Their pseudo-terminals in that order.
Listed(h) == [i \in 1..Cardinality(Chain(h)) |-> Walk(h)[i]]

\* lalloc(): a new layer goes to the end of the list.
AddLast(h, l) ==
    IF h.l0 = Null
      THEN [h EXCEPT !.l0 = l, !.next[l] = Null, !.prev[l] = Null]
      ELSE LET lp == CHOOSE k \in Chain(h) : h.next[k] = Null
           IN  [h EXCEPT !.next[lp] = l, !.next[l] = Null, !.prev[l] = lp]

\* lfree(): a layer is unlinked.  Its own fields are forgotten with it.
Free(h, l) ==
    LET p == h.prev[l]
        n == h.next[l]
        next1 == IF p # Null THEN [h.next EXCEPT ![p] = n] ELSE h.next
        prev1 == IF n # Null THEN [h.prev EXCEPT ![n] = p] ELSE h.prev
    IN  [h EXCEPT !.l0 = IF l = h.l0 THEN n ELSE h.l0,
                  !.next = [next1 EXCEPT ![l] = Null],
                  !.prev = [prev1 EXCEPT ![l] = Null]]

\* A slip of setcur(): the next layer still has the moved one before it.
SlipSetCur(h, l) ==
    IF h.next[l] = Null THEN [h EXCEPT !.lcur = l]
    ELSE LET end == CHOOSE k \in Chain(h) : h.next[k] = Null
         IN  [h EXCEPT !.l0 = IF h.prev[l] = Null THEN h.next[l] ELSE h.l0,
                       !.next = [k \in Layer |-> IF k = l THEN Null
                                                 ELSE IF k = end THEN l
                                                 ELSE IF k = h.prev[l] THEN h.next[l]
                                                 ELSE h.next[k]],
                       !.prev[l] = end,
                       !.lcur = l]

\* setcur(): the current layer is moved to the end of the list.
SetCur(h, l) ==
    IF h.next[l] = Null THEN [h EXCEPT !.lcur = l]
    ELSE LET end == CHOOSE k \in Chain(h) : h.next[k] = Null
         IN  [h EXCEPT !.l0 = IF h.prev[l] = Null THEN h.next[l] ELSE h.l0,
                       !.next = [k \in Layer |-> IF k = l THEN Null
                                                 ELSE IF k = end THEN l
                                                 ELSE IF k = h.prev[l] THEN h.next[l]
                                                 ELSE h.next[k]],
                       !.prev = [k \in Layer |-> IF k = l THEN end
                                                 ELSE IF k = h.next[l] THEN h.prev[l]
                                                 ELSE h.prev[k]],
                       !.lcur = l]

\* setprev(): the layer before the current one becomes current.  If there is
\* none, the list is taken for empty: with nullok the caller is to free lcur.
SetPrev(h, nullok) ==
    LET p == h.prev[h.lcur]
    IN  IF p # Null THEN [h EXCEPT !.lcur = p]
        ELSE IF nullok THEN [h EXCEPT !.l0 = Null, !.lcur = Null]
        ELSE [h EXCEPT !.lcur = h.l0]

Empty == [l0 |-> Null, lcur |-> Null,
          next |-> [l \in Layer |-> Null], prev |-> [l \in Layer |-> Null]]

\* Layers that are allocated and that no walk finds.
Orphans == alloc \ Chain(list)

Init ==
    /\ list = Empty
    /\ alloc = {}
    /\ proc = [l \in Layer |-> "none"]
    /\ blk = {}
    /\ utmp = {}
    /\ hadquit = FALSE
    /\ pc = "poll"
    /\ layermode = FALSE
    /\ typed = "none"
    /\ endloop = FALSE
    /\ pfd = <<>>
    /\ muted = {}
    /\ ins = {}
    /\ hups = {}
    /\ deleted = {}

-----------------------------------------------------------------------------
(* doio() *)

\* The start of doio(), for the layers of list h.
DoIO(h, inlayer) ==
    /\ pc' = "poll"
    /\ layermode' = inlayer
    /\ typed' = "none"
    /\ endloop' = FALSE
    /\ pfd' = Listed(h)
    /\ muted' = {}
    /\ ins' = {}
    /\ hups' = {}

Polled == {pfd[i] : i \in 1..Len(pfd)}

\* A slip: the descriptor of a freed layer is not closed.
SlipHungUp == {l \in Polled : l \notin alloc \/ proc[l] \in {"away", "exiting", "zombie"}}

\* The descriptors that hang up: nobody has the slave open.  That of a freed
\* layer is closed, which doio() ignores.
HungUp == {l \in Polled \cap alloc : proc[l] \in {"away", "exiting", "zombie"}}

\* poll() returns, and doinput() reads what was typed: nothing; text for the
\* layer or for the command line; or the end of the input, by a newline or,
\* in a layer, by the switch character.
Poll ==
    /\ pc = "poll"
    /\ \E readable \in SUBSET ((Talking \cap Polled \cap alloc) \ muted), key \in {"no", "text", "end"} :
         /\ readable \cup HungUp # {} \/ key # "no"
         /\ ins' = readable
         /\ hups' = HungUp \ readable
         /\ typed' = CASE layermode \/ key = "no" -> typed
                       [] key = "text" -> "part"
                       [] key = "end" -> "line"
         /\ endloop' = (key = "end")
    /\ pc' = "event"
    /\ UNCHANGED <<list, alloc, proc, blk, utmp, hadquit, layermode, pfd, muted, deleted>>

\* The next descriptor that has something.
First(i) ==
    /\ i \in 1..Len(pfd)
    /\ pfd[i] \in ins \cup hups
    /\ \A j \in 1..(i - 1) : pfd[j] \notin ins \cup hups

\* Output of the current layer, or of one whose layer must be looked up: that
\* may be blocked, and it may be gone from the list since poll() returned.
Output ==
    /\ pc = "event"
    /\ \E i \in 1..Len(pfd) :
         LET l == pfd[i]
             lookup == i # Len(pfd) \/ ~layermode
         IN  /\ First(i)
             /\ l \in ins
             /\ ins' = ins \ {l}
             /\ muted' = IF lookup /\ l \in blk THEN muted \cup {l} ELSE muted
             /\ pc' = IF lookup /\ l \notin Chain(list) THEN "crash" ELSE pc
    /\ UNCHANGED <<list, alloc, proc, blk, utmp, hadquit, layermode, typed, endloop, pfd,
                   hups, deleted>>

Hup ==
    /\ pc = "event"
    /\ \E i \in 1..Len(pfd) :
         /\ First(i)
         /\ pfd[i] \in hups
         /\ hups' = hups \ {pfd[i]}
    /\ pc' = "await"
    /\ UNCHANGED <<list, alloc, proc, blk, utmp, hadquit, layermode, typed, endloop, pfd,
                   muted, ins, deleted>>

\* A slip: the utmp entry stays.
SlipBury(l) ==
    /\ list' = Free(IF l = list.lcur THEN SetPrev(list, TRUE) ELSE list, l)
    /\ alloc' = alloc \ {l}
    /\ blk' = blk \ {l}
    /\ endloop' = (endloop \/ l = list.lcur)
    /\ UNCHANGED utmp

\* What doio() does with the layer that await() returns.
Bury(l) ==
    /\ list' = Free(IF l = list.lcur THEN SetPrev(list, TRUE) ELSE list, l)
    /\ alloc' = alloc \ {l}
    /\ blk' = blk \ {l}
    /\ endloop' = (endloop \/ l = list.lcur)
    /\ utmp' = utmp \ {l}

\* await(): any child is waited for, not the one behind the descriptor.  One
\* that is not in the list is passed over; so is "none yet", without a pause.
Await ==
    /\ pc = "await"
    /\ \E l \in Layer :
         /\ proc[l] = "zombie"
         /\ proc' = [proc EXCEPT ![l] = "none"]
         /\ IF l \in Chain(list)
              THEN Bury(l) /\ pc' = "event"
              ELSE UNCHANGED <<list, alloc, blk, endloop, utmp, pc>>
    /\ UNCHANGED <<hadquit, layermode, typed, pfd, muted, ins, hups, deleted>>

\* There is no child: NULL, which is lcur if there is no layer.
AwaitNone ==
    /\ pc = "await"
    /\ \A l \in Layer : proc[l] = "none"
    /\ endloop' = (endloop \/ list.lcur = Null)
    /\ pc' = "event"
    /\ UNCHANGED <<list, alloc, proc, blk, utmp, hadquit, layermode, typed, pfd, muted, ins,
                   hups, deleted>>

\* The descriptors have been looked at.  getaline() calls doio() again if it
\* ended with nothing typed; with a part of a line, it takes that.
RoundOver ==
    /\ pc = "event"
    /\ ins \cup hups = {}
    /\ CASE ~endloop -> pc' = "poll" /\ UNCHANGED <<layermode, typed, doiovars>>
         [] endloop /\ (layermode \/ typed = "none") -> DoIO(list, FALSE)
         [] endloop /\ ~layermode /\ typed # "none" ->
              pc' = "execute" /\ UNCHANGED <<layermode, typed, doiovars>>
    /\ UNCHANGED <<list, alloc, proc, blk, utmp, hadquit, deleted>>

-----------------------------------------------------------------------------
(* The commands *)

\* c_create(): the new layer is current, and gets the terminal.
Create ==
    /\ pc = "execute"
    /\ Cardinality(alloc) < MAXLAYER
    /\ \E l \in Layer \ alloc :
         /\ list' = SetCur(AddLast(list, l), l)
         /\ alloc' = alloc \cup {l}
         /\ proc' = [proc EXCEPT ![l] = "running"]
         /\ utmp' = utmp \cup {l}
         /\ deleted' = deleted \ {l}
    /\ DoIO(list', TRUE)
    /\ hadquit' = FALSE
    /\ UNCHANGED blk

\* There is no pseudo-terminal or no process to be had.
CreateFails ==
    /\ pc = "execute"
    /\ Cardinality(alloc) < MAXLAYER
    /\ \E l \in Layer \ alloc : list' = Free(SetPrev(SetCur(AddLast(list, l), l), TRUE), l)
    /\ DoIO(list', FALSE)
    /\ hadquit' = FALSE
    /\ UNCHANGED <<alloc, proc, blk, utmp, deleted>>

\* c_resume(), or a name for a command.
Resume ==
    /\ pc = "execute"
    /\ \E l \in Chain(list) : list' = SetCur(list, l)
    /\ DoIO(list', TRUE)
    /\ hadquit' = FALSE
    /\ UNCHANGED <<alloc, proc, blk, utmp, deleted>>

\* c_toggle().
Toggle ==
    /\ pc = "execute"
    /\ list.lcur # Null
    /\ LET p == list.prev[list.lcur]
       IN  list' = SetCur(list, IF p = Null THEN list.lcur ELSE p)
    /\ DoIO(list', TRUE)
    /\ hadquit' = FALSE
    /\ UNCHANGED <<alloc, proc, blk, utmp, deleted>>

\* ldelete(): SIGHUP, which the layer may survive; it stays in the list until
\* it has been waited for, but is no longer current.
Delete ==
    /\ pc = "execute"
    /\ \E l \in Chain(list) :
         /\ list' = IF l = list.lcur THEN SetPrev(list, FALSE) ELSE list
         /\ deleted' = deleted \cup {l}
    /\ DoIO(list', FALSE)
    /\ hadquit' = FALSE
    /\ UNCHANGED <<alloc, proc, blk, utmp>>

\* lblock() and lunblock().
Block ==
    /\ pc = "execute"
    /\ \E l \in Chain(list) \cap Talking : blk' \in {blk \cup {l}, blk \ {l}}
    /\ DoIO(list, FALSE)
    /\ hadquit' = FALSE
    /\ UNCHANGED <<list, alloc, proc, utmp, deleted>>

\* A command that changes nothing, or none.  An empty line leaves hadquit.
NoCommand ==
    /\ pc = "execute"
    /\ hadquit' \in {FALSE, hadquit}
    /\ DoIO(list, FALSE)
    /\ UNCHANGED <<list, alloc, proc, blk, utmp, deleted>>

\* quit(): SIGHUP to the layers of the list, which are taken out of utmp.
QuitNow ==
    /\ utmp' = utmp \ Chain(list)
    /\ pc' = "quit"
    /\ UNCHANGED <<list, alloc, proc, blk, layermode, typed, doiovars, deleted>>

\* c_quit(): at first it warns.
Quit ==
    /\ pc = "execute"
    /\ list.l0 = Null \/ hadquit
    /\ QuitNow
    /\ UNCHANGED hadquit

QuitWarns ==
    /\ pc = "execute"
    /\ list.l0 # Null /\ ~hadquit
    /\ hadquit' = TRUE
    /\ DoIO(list, FALSE)
    /\ UNCHANGED <<list, alloc, proc, blk, utmp, deleted>>

Runs == pc \notin {"quit", "crash"}

\* onhup(), while shl is in poll(), where it spends its time.
OnHup ==
    /\ pc = "poll"
    /\ QuitNow
    /\ UNCHANGED hadquit

-----------------------------------------------------------------------------
(* The layers' processes *)

LayerStep(l, from, to) ==
    /\ proc[l] = from
    /\ proc' = [proc EXCEPT ![l] = to]
    /\ UNCHANGED <<list, alloc, blk, utmp, hadquit, pc, layermode, typed, doiovars, deleted>>

\* It closes its terminal and runs on; it ends, in two steps: the terminal is
\* closed before the process can be waited for.
Leave(l) == Runs /\ l \in Leaving /\ LayerStep(l, "running", "away")
Exit(l) == Runs /\ \E from \in {"running", "away"} : LayerStep(l, from, "exiting")
Die(l) == LayerStep(l, "exiting", "zombie")

Handle == Output \/ Hup \/ Await \/ AwaitNone \/ RoundOver

Command ==
    \/ Create \/ CreateFails \/ Resume \/ Toggle \/ Delete \/ Block
    \/ NoCommand \/ Quit \/ QuitWarns

Next ==
    \/ Poll \/ Handle \/ Command \/ OnHup
    \/ \E l \in Layer : Leave(l) \/ Exit(l) \/ Die(l)

Spec == Init /\ [][Next]_vars

-----------------------------------------------------------------------------
(* Properties *)

\* The list is one: it ends, l_prev is l_next backwards, it holds allocated
\* layers only, and lcur is in it, or there is no layer in it.
OneList ==
    /\ Walk(list)[Cardinality(Layer) + 1] = Null
    /\ Chain(list) \subseteq alloc
    /\ \A l \in Chain(list) :
         /\ list.prev[l] = Null <=> l = list.l0
         /\ list.next[l] # Null => list.prev[list.next[l]] = l
    /\ list.lcur \in Chain(list) \/ (list.lcur = Null /\ list.l0 = Null)

\* A layer gets lost from the list (and its place with it, for ever) only after
\* it was sent SIGHUP by a delete command: setprev() is right in what it takes
\* for the end of the list for all others.
OrphanWasDeleted == Orphans \subseteq deleted

\* What a comment in doio() claims: while a layer has the terminal, the last
\* descriptor is that of the current layer.
LastIsCurrent ==
    Runs /\ layermode /\ ~endloop =>
        Len(pfd) > 0 /\ list.lcur = pfd[Len(pfd)] /\ list.next[list.lcur] = Null

\* The list of layers is sound, and doio() may rely on it.
ListSound == TypeOK /\ OneList /\ OrphanWasDeleted /\ LastIsCurrent

\* The utmp file has an entry for every layer in the list, and none for a layer
\* whose process was waited for, unless it was lost from the list.
UtmpFollows ==
    /\ Runs => Chain(list) \subseteq utmp
    /\ utmp \subseteq alloc

\* await() comes back: it does not spin, with the terminal unserved, where no
\* layer of the list is about to end, unless a process has left its terminal
\* without ending, or a layer was lost.  Any child is waited for, so the child
\* behind the descriptor may have been buried for another one by then.
AwaitReturns ==
    pc = "await" =>
        \/ \E l \in Chain(list) : proc[l] \in {"exiting", "zombie"}
        \/ \A l \in Layer : proc[l] = "none"
        \/ Orphans # {}
        \/ \E l \in Layer : proc[l] = "away"

\* What a comment in ldelete() says: the utmp entry is removed once the process
\* has been waited for.
UtmpRemoved == \A l \in Layer : proc[l] = "none" => l \notin utmp
=============================================================================
