# Heirloom NG in TLA+

Heirloom NG is a collection of about 140 traditional Unix utilities in C. Most of them are sequential filters. This project models the ones in which several processes, signals or crashes meet over shared state, checks the models with TLC and proves what matters most about them with TLAPS.

## The system

The utilities are separate programs. They share libraries (`libcommon`, `libuxre`, `libwchar`) and, at run time, only what the file system and the kernel hold for them: a mailbox and its lock, temporary files, process groups, pseudo-terminals, `utmp`. The parts with a core logic of their own:

| part | state it keeps | operations | what it interacts with | what is hard |
|---|---|---|---|---|
| mail: lock (`maillock.c`, `lock.c`, `done.c`) | the lock file; per process the lock's name and a flag | `lock`, `unlock`, the five-minute rule, `done` on every way out | all mail processes of one user | races between check and removal; crashes; an unlock by a process that holds nothing |
| mail: session (`cksaved.c`, `printmail.c`, `copymt.c`, `copyback.c`) | mailbox, save file in `:saved`, temporary file, table of letters with addresses and marks | restore, load, load new mail, mark, copy back | lock; deliveries | size read before the lock; interrupts by `longjmp`; crash between unlink and rename |
| mail: delivery (`sendlist.c`, `createmf.c`) | the descriptor of the mailbox | lock, open, append, unlock | lock; session | the mailbox replaced under an open descriptor |
| mail: composing and routing | headers, recipients | `sendmail`, `goback`, `gendeliv` | transport programs | text |
| timeout | flags set by a signal handler, two timers, the killer signal | start, suspend, signal, wait | the command, its process group | lost wake-ups, own signals, stopped commands |
| shl | list of layers, current layer, `utmp`, poll set | `doio`, `await`, the commands | layers' processes and terminals | events in another order than the list; layers ending while commands move them |
| ed (`ed.c`) | line array, temporary file, marks, undo copies, addresses | commands, `g`, `u`, `w`, interrupt, hang-up | signals; the file it writes | `longjmp` in the middle of a change; pointers moved by `realloc()`; a file half written |
| sort (`sort.c`) | lines in memory, numbered temporary files, the merge buffers | runs, merge passes, `-m`, `-c`, `-u`, `-o`, clean-up | signals; an output that is an operand | numbering against clean-up; what is emptied before it is read |
| mv (`cp.c`) | link table, the tree it walks, error bits | rename, copy, remove | the file system; others in the source | failure of one step of several; the source removed by a second walk |
| cp, ln, rm | as mv, without the removal | copy, link, remove | the file system | - |
| cpio (`cpio.c`) | link tables of writer and reader, links that wait for data, the names of the file being made and of the old one | `-o`, `-i`, clean-up at SIGINT | archives of others; the target; signals | links counted twice over; data that goes to one of several links; names kept in globals that point into buffers |
| pax, tar, the rest of cpio | volume state, formats | in, out, pass | archives on several volumes | end of volume |
| find, xargs | argument batches | execute and wait | child processes | limits, waiting |
| sed, awk, dc, bc | pattern space, program, digit blocks | interpret | - | semantics only |
| pagers, filters, reports, file tools, libraries | - | - | - | formatting and parsing |

What makes each of the modelled parts correct:

- lock: one process at a time between `lock()` and `mailunlock()`; no lock survives its owner's knowledge of it; a lock left by a crash is removed in the end.
- session and delivery: no letter is lost or comes back; the session's table tells the truth about the mailbox; the rewrite of the mailbox is alone; a delivery ends.
- timeout: the command is ended in time, by the right signal, not too early; its end is noticed; the status says what happened.
- shl: the list is one list; a layer leaves it only by ending; `utmp` follows the layers; `await()` comes back to the terminal.
- ed: `u` brings back what was there before; marks follow their lines; `w` does not touch the old file until the new one is complete; `q` does not end the editor over an unsaved change; a hang-up saves the text; `g` ends.
- sort: every line of the input is in the output, in order; operands that are also the output are read before they are emptied; no temporary file stays.
- cpio: every file and link that was listed comes out as it went in, or there is an error; an old file is there until the new one is complete; no temporary file stays.
- mv: what was in the source is there, or whole in the target, at every moment; hard links stay; an exit status of 0 says that all was moved.

## Modules

```
MailLock ---- MailLockProofs        the lock
   |  INSTANCE      |  INSTANCE
Mailbox ----- MailboxProofs         session and deliveries around the lock
   |  refines
MailStore                           what a mailbox promises
Timeout ----- TimeoutProofs         timeout
Shl --------- ShlProofs             shl
EdLines -- Ed -- EdProofs           ed: the buffer and its operations; the commands and signals
Sort -- SortProofs                  sort
Mv -- MvProofs                      mv
   |  refines
MoveStore                           what mv promises of the data
CpioOut -- Cpio -- CpioProofs       cpio: the archive; its extraction
MCMailLock, MCMailbox, MCTimeout, MCShl, MCEd, MCSort, MCMv, MCCpio    instances for TLC
```

Definitions keep the names of the C functions where there are such. A definition that starts with `Slip` is a plausible mistake in the one that follows it, and nothing uses it; it is there to show that a property would notice.

### MailLock

The file that carries the lock's name is one variable, `lockfile`: `None`, the process that made it, or `Orphan` when that process was killed. `lpc[p]` is where process `p` is in `maillock()`: about to `link`, to `stat`, to remove (`break`). `locked[p]` and `curlock[p]` are the statics of `maillock.c`. `done()` is `Exit`: it unlocks whether or not the process holds the lock. The file and its flag change in two steps, as in the code: `Link` makes the file and `Note` sets the flag (`maillock.c:142` and 77), `Unlock` removes the file and `Unnote` clears the flag (112 and 113); `lpc[p]` is `linked` or `removed` in between. `Abandon` is every way on without an unlock: `longjmp` from an interrupt (`delete.c:33`), at any of these places, and the early return of `cksaved()`. `cut` is history: the processes that were interrupted between a change of the file and that of the flag, until the flag is set or cleared again. The file's age counts up to `Stale`, which stands for the five minutes; `seen[p]` is the age that `p` compares, which belongs to the moment at which it made its temporary file.

`clobbers` records that the lock of a live process was removed: `"break"` by the five-minute rule, `"unlock"` by an unlock. The code permits both, so `Exclusion` is what can be promised as long as neither has happened, of the processes that are not `cut`: one that was interrupted after `remove()` and before `locked = 0` has a flag without a file, its next `lock()` returns at once, and another may be inside. `NoForgottenLock` names the other half: after `link()` and before `locked = 1` the file has an owner whose flag is not set.

### Mailbox

One session of the user at a time (`rpc` is where it is) and any number of deliveries, one letter each (`dpc`). Files are sequences of letters; their size is their length; `Torn` is the rest of a letter whose writing failed. `adr` is the array `let[].adr`, and letters are found again by these addresses only, as in `copylet()`. Each call the programs make on a shared file is a step. The load of new mail (`printmail.c:207-235`) has four places: in `lock()` (`newmail`), the letters copied into the temporary file's buffer and the table (`loaded`), `file_size` set and the file closed and the mailbox being unlocked (`reopen`), the file opened again (`command`); an interrupt has an action for each of them, among them one after `file_size` is set and before the file is flushed and closed (`InterruptSized`). `linked[d]` is FALSE when the file that delivery `d` has open has lost its name. A crash and an exit (signals, errors) may come at every step, and within the writing of a letter (`LeavesTorn`, `LeavesPart`).

`mishaps` records what the program does not act on: a short write that `fclose()` or `copystream()` reports to nobody, a save file that could not be restored, and an interrupt that leaves the session with something it does not know of. The last are: in the middle of `copymt()`, which leaves the last address of the table 0; between the calls that open the temporary file anew, which leaves no stream; after `file_size` is set and before the temporary file is flushed, which leaves the file shorter than the table; and in `unlock()`, which leaves the flag set with no file, and the temporary file closed. An interrupt in `lock()`, or one before `file_size` is set, leaves all as it is, but for the lock and its flag.

`MailStore` is the abstract specification: letters arrive, the user chooses some, chosen ones go, and nothing else goes or comes back, until the store is impaired. `MCMailbox` gives the refinement: stored is what lies whole in the mailbox or the save file; chosen is what lies in a marked part of the temporary file; impaired is `clobbers` or `mishaps` not empty. `Store` is at the end of `Mailbox`.

### Timeout

The program from `fork()` on. `opt` is the options together with two facts about the world: whether the program leads its session (then `setpgid()` fails) and whether the command withstands all signals but SIGKILL. `pending` holds the signals that are blocked; `siglist` is the structure of that name. Before `SIG_BLOCK` a signal is handled at once and wakes nobody (`Notify`). `killpg()` reaches the program too (`Own`). `impeded` records what can keep the program from ending its command, each named by its cause, for the one property that must except it.

### Shl

`list` holds `l0`, `lcur` and both pointers of each layer; the list operations (`AddLast` for `lalloc()`, `Free`, `SetCur`, `SetPrev`) are operators on it, and `Walk` follows `l_next` as the look-up functions do. `pfd` is the poll set, made at the start of `doio()` and kept while layers come and go. `Poll` chooses what is ready; `Output`, `Hup`, `Await` handle it in the order of the descriptors. A layer's process runs, closes its terminal and runs on (`away`), closes it by ending (`exiting`), can be waited for (`zombie`). A look-up that finds nothing and whose result is used is `pc = "crash"`.

### EdLines and Ed

`EdLines` is the line array: a buffer is `zero` (as the function `line` from 0 on), `dot`, `dol`, the marks `names`, and the low bits of the lines, by which `g` marks them. A line is the number that `putline()` gave it; two lines with the same text are different lines. `Put`, `Deleted`, `Packed`, `Moved` are `append()`, `rdelete()`, `gdelete()` and the three `reverse()`s of `move()`; the operator that ends in `Parts` gives the states a signal may find in the middle of each.

`Ed` has one action per command up to its `checkpoint()` (`Change`), then the steps of what it does: `Checkpoint`, `AppendLine` once per line, `Delete`, `Join`, `Move`, `SubLine` once per line, and for `g` `GlobalMark`, `GlobalNext` with the commands of its list in between (`pc = "inner"`), and `GlobalPack` for `g/.../d`. `w` opens (`WriteOpen`: under another name, or cut to nothing, or for append), writes, and ends. `Interrupt`, `Terminate` and `HangUp` may come at any place; they take a state of `Midway`, which lists what the running function may have done, and leave by `error()`, `quit()` or `onhup()`. `Undefined` and `pc = "wild"` are for pointers that point into the other array. `u` is the undo copy: the line array, and `unddot` and `unddol` as numbers of lines, which `append()` moves with `realloc()` by the way of `zero` (`Room`); `Moves` are the ways `zero` may go.

`before`, `torn`, `dirty` and `why` are history: the text before the last command, whether a signal came into `checkpoint()`, whether there is an unsaved change, and what makes `fchange` wrong about it.

### Sort

`pc` goes through `main()` (`Pass`), `sort()` (`Fill`, `WriteRun`), `newfile()` in two steps, the file and then its count, `oldfile()`, `merge()` and `term()`. Files have the numbers of `setfil()`: the operands from 0, the temporary files from `eargc` on, their names from `Name`, which has `Letters` letters in place of 26. A line is its place in the order; with `-u` two lines of the same place are equal. `quicksort()` of the lines in memory is any sequence that is in order and has the lines as often as they are there, with `-u` once (`Sortings`); `quicksort()` of the merge buffers is any arrangement by the first lines (`Arrangements`), as it is not stable. `safeoutfil()` counts from `eargc - N`, which may be before the first operand; what lies there is undefined, and `Unsafe` lets it be the output file or not. `Stop` is a signal, or any call that fails, at any step.

### Mv and MoveStore

The names in the source are a forest (`Node`, `Up`), operands are its roots, and what is made of a name has the same name in the target. `there` is what is in the source, `here` what mv has made in the target, with the name that each was first linked to, and `whole` those with all their data. `dir` and `todo` are the recursion of `cpmv()` and of `trydelete()`: the directory that is open, and for each open directory the names that `readdir()` has yet to give. `old` is what lay at the target before. `near` are the operands that `rename()` can move; all others are copied. `slots` is the table of `canlink()`. `errcnt` and `saverrs` are as in `main()`, where they decide on the removal and on the status.

Every call may fail (`Bound.fail` of them); others put files into the source and take some (`Come`, `Take`); mv may be killed and started again (`Kill`, `Again`). A name that comes to a directory that is being read may be met by `readdir()` or not. `excused` holds what fails without a trace in `errcnt`, and what the user refused.

`MoveStore` is the abstract specification: names come, are taken, arrive, may be made again while their source is there, and are removed only when all of the operand has arrived. `late` are the names that came to a directory after `cpmv()` had read it: `trydelete()` reads again and removes them, which `MoveStore` allows, since no call of mv could know. `unread` are the names, with all below them, that `cpmv()` was not given because `readdir()` failed (`cp.c:989`; `AtEnd` in `Closedir`): the code takes that for the end of the directory, counts no error, and `trydelete()` removes them. `MoveStore` has a step for it (`Miss`); its promise is what is left, that nothing else is removed uncopied. `ImplementsMove` is the refinement, with the variables under the same names.

### CpioOut and Cpio

`CpioOut` is `-o`: `kept` are the slots of `outfile()`, with the links that are held back until the last one (`KeepLink`, `LastLink`), and `LFlush` is what `lflush()` does with files that have links outside the list. An entry of `tape` is a name and whether data follows; the older formats put the data with each link.

`Cpio` is `-i` on that archive, or on one of another implementation (`Foreign`), into a target of any past (`Targets`: for each name an inode, old, and of the archive's age or not). `isl` is the link table of the reader: `i_nlk`, the links that wait in `i_lnk`, and `i_name`, the name under which the file was first made. `ReadHeader` is followed by what `doinp()` chooses: `TakeFile`, `StoreLink`, `FlushLinks`, `FlushEmpty`, at the end `FlushRest`. `todo` are then the links of `flushnode()`, `own` the name in the header, and `tgt` the one that `filein()` is at. From `NewFile` on each call on the target is a step: `Mkstemp`, `SetOfile`, `SetTfile`, `RenameOld`, `Create`, `Write`, `Forget`, `UnlinkTemp`; and `Link`, `UnlinkTarget` for `linkunlink()`. Each may fail (`Failures`). `ofile` is what `cur_ofile` points to: the name of a link, the header's buffer, which the next header overwrites (`Reread`), or memory that was freed, whose text may be any name. `Interrupt` is SIGINT at any of these steps, and `TapeEnds` an archive that is cut off: at a header, or where data is read (`InData`), be it to be written or to be passed over by `skipdata()` and `skipfile()`.

`was` is the target before. `atRisk` is history: the names whose old file the code gave up while it had nothing better, in the ways that `GivenUp` lists: `linkunlink()` removes the target before `link()` has been seen to work; data that comes with a link is written through it into the first file, which may be an old one; a later link is made empty (below), or is made a link to one that is; `rename()` back fails, and `tunlink()` removes the only copy; SIGINT comes after `cur_tfile` was set and before `rename()`, so that the empty temporary file is put over the old one; `close()` of the temporary file fails after `mkstemp()` (`cpio.c:2975`), when `temp` stays set and the way to `restore` does the same with no signal at all (`CloseFails`, `PutEmpty`); and `cur_ofile` is an old name.

## Runs

| run | what it asks | bounds | result |
|---|---|---|---|
| lock (`MCMailLock.cfg`) | `Exclusion`, `NoForgottenLock`, `OrphanBroken`, types | 3 processes, stale after 1 tick, one forgiven `stat()` failure | holds; 365,480 states |
| mailbox (`MCMailbox.cfg`) | `ImplementsStore`, `TmpMirrorsBox`, `NoDeliveryDuringRewrite`, `DeliveryEnds`, types | 2 old letters, 1 delivery, 2 sessions, a table of 2 letters | holds; 793,322 states |
| secured (`MCMailboxSecured.cfg`) | `MailfileSecured` | as above | violated |
| timeout (`MCTimeout.cfg`) | `GraceKept`, `TimeoutReported`, `EndNoticed`, `TimeLimitKept`, types | all options, 2 outside signals, 1 stop | holds; 323,560 states |
| grace (`MCTimeoutGrace.cfg`) | `KillAfterGrace` | 1 outside signal | violated |
| shl (`MCShl.cfg`) | `ListSound` (with types, `OneList`, `OrphanWasDeleted`, `LastIsCurrent`), `UtmpFollows`, `AwaitReturns` | 3 layers, 1 with output, 1 that may leave its terminal | holds; 1,681,124 states |
| shl_utmp (`MCShlUtmp.cfg`) | `UtmpRemoved` | 2 layers | violated |
| ed (`MCEd.cfg`) | `UndoKeeps`, `QuitWarned`, `HupSaves` (with types), `WriteSafe`, `MoveRearranges`, `MarksStay`, `GlobalEnds` | 2 lines, 5 line numbers, 1 mark, 2 commands (a `g` counts for two), 1 signal | holds; 329,640 states |
| sort (`MCSort.cfg`) | `NothingLost` (with types), `OutputRight`, `CheckRight`, `NoTempLeft`, `Ends` | 2 lines, merges of 2 files, 2 letters, memory for 1 line, up to 5 lines or 4 operands | holds; 468,160 states |
| mv (`MCMv.cfg`) | `DataSafe`, `StatusTells`, `LinksKept`, `ImplementsMove`, `Ends` | 8 names, 2 operands, 1 failing call, 1 step of others, 1 second run | holds; 626,581 states |
| cpio (`MCCpio.cfg`) | `OnTape`, `DataAwaited`, `StatusTells`, `NothingLost`, `NoTempLeft`, types | 7 names of 4 files, 6 lists, 3 other archives, up to 48 targets, 2 failing calls | holds; 1,308,585 states |
| cpio_links (`MCCpioLinks.cfg`) | `LinkHasData` | as above, no failing call | violated |

Why the bounds are enough for the cases that matter:

- lock: with three processes one can hold the lock, and two can find it stale and race to remove it, or one can exit while the two others are in turn inside. An age of 1 lets a lock be young, then stale, and the age that a waiter has seen be another than the file's by the time it acts on it. `StatTries` is 5 in the code; 0 makes giving up reachable in two failures.
- mailbox: two letters in the mailbox fill the table (`MaxLet` = 2), so that a delivery makes it full; with one of them, or none, marked there are kept and discarded letters. The second session finds what the first left in `:saved`. `MaxSessions` bounds the run, and so do two guards: an interrupt is a mishap only as long as there was none (`Mishap`), and comes between `link()` and the flag only while the flag is not cut off already (`InterruptNewMail`). One delivery is enough to be inside while the session rewrites; the lock alone is checked with three processes.
- timeout: a second outside signal is needed to find the first one remembered; one stop is enough to block `wait()`.
- shl: three layers are the least at which a layer has one before it and one behind it. `MAXLAYER` is 7 in the code. `Talking` limits the layers with output and `Leaving` those whose process may leave its terminal; both kinds of layer meet each other and a third one.

- ed: a text of two lines is the least for which a move, a join and a `g` with a line before and behind have something to do, and 5 line numbers let two commands store lines. Two commands are a change and `u`, a change and `w`, `w` and `u`, or two changes; a `g` may have any number of commands in its list, one per line it visits, and costs two. `Nlall` = 4 makes the arrays grow at the first line that is added. One signal may come at every step of every command.
- sort: with two files to a merge, five runs of one line take a pass over runs and then one over what it made (`a + N < nfiles` three times), and the fifth temporary file needs a name of three letters. Two lines are enough for equal lines in the same file, in two files, and in another order. Four operands of `-m` let one be the output file and be among the last `N` or not.
- mv: the directory `d` has two names of one file, a directory below it with a symbolic link, and places for two newcomers, one on each level; `g` is a second operand. At one start only `a` of the two is there, so that `b` may come after `a` was copied (`joined`). One failure meets one step of others and one kill with a second run.

- cpio: the lists have all links of a file, all of them twice, two of three, those of an empty file, one of these, and a file by itself between links; the targets have any of a and b, of the archive's age or older, as links of one old file or not, so that a first link can be skipped, fail, or be an old file's. The archives of others have the data with the first link, with each, or with none. Two failures let a first link fail and the way back from it fail as well, or leave `cur_ofile` set and then meet another error.

Deadlock is checked for the mail runs; `AllDone` is their end. The other runs say `CHECK_DEADLOCK FALSE`: the programs end, the commands and signals of a run of ed are bounded, cpio comes to the end of its archive, and `timeout 0` waits for a command that may never end.

### Fairness

- lock: time passes, and a process in `maillock()` goes on after its `sleep(5)`. Nothing obliges a process to enter, leave or be restarted.
- mailbox: time passes; a session runs while it is not waiting for its user (`SessionRuns` has no `Command` or `Quit`); a delivery that has begun runs. So `DeliveryEnds` says that no session can hold up a delivery for good, even one that was interrupted and sits at its prompt with the lock.
- timeout: the program runs, the child gets to `execvp()`, and timers expire. The command itself owes nothing: it may run, or stay stopped, for ever.
- shl: none; all its properties are safety.
- ed: what has begun goes on, and the commands of a `g` come, since they are in its list; text that is typed, and a file that is read, end. Nothing obliges the user to give a command.
- sort: the program runs; it waits for its input only, which ends.
- cpio: none; its properties say what holds when it ends.
- mv: the program runs; the user who is asked answers. Nobody has to start it again. Readers of a directory see no more names than are put there, and others put a bounded number.

### Disagreements with the sources' own words

- secured: `done()` calls `unlock()` on every way out, and `mailunlock()` removes whatever carries the lock's name (`done.c:70`, `maillock.c:112`). A process that is ended while it waits for the lock removes the lock of another. TLC's trace: a session has unlinked the mailbox, its lock is removed by a process on its way out, a delivery makes a new mailbox and appends, and the rename puts the old letters in its place. `printmail.c:145`: "Secure the mailfile to guarantee integrity".
- grace: `siglist.sig_term` is never cleared (`timeout.c:315`). After an outside SIGTERM with `-k` and without `-f`, the program is woken by its own copy of the signal, which it ignores, finds `sig_term` still set and sends SIGKILL at once. `timeout.1:30`: "Sets a complementary time for tolerance before sending a final signal 9 (SIGKILL)".
- shl_utmp: `setprev(1)` takes a current layer without a predecessor for the only layer (`shl.c:597`). A layer that was deleted but has not ended may follow it; it is lost from the list, `await()` does not know it, and its `utmp` entry and its place stay. `shl.c:891`: "this will be done once the process has been waited for".
- cpio_links: `flushnode()` takes the data of a file for written as soon as `inpone()` returns 0 for one of its links (`cpio.c:3630`). It returns 0 also when `filein()` has skipped the link, because an existing file is of the same age or newer; `skipdata()` has then thrown the data away, `canlink()` knows no name, and the next link is created with no data. An archive of the links a and b, extracted where a is still there and b is not, leaves b empty, with no message but "Existing "a" same age or newer". `cpio.c:3617`: "Write out the file data with the first link the user wants to be extracted".

Three more are kept inside runs that hold, each as an exception that the property names and that the run needs:

- ed, `QuitWarned`: `undo()` exchanges the two texts and leaves `fchange` (`ed.c:2161`): after `w` and `u` the text is not what was written, and `q` ends without a warning. `r` sets `fchange` to what it read, which is 0 for a file read into an empty text (`ed.c:618`). `ed.1:939`: "To protect against throwing away valuable work, a q or e command is considered to be in error, unless a w has occurred since the last buffer change". `why` holds `undo` and `empty` from then until a change sets `fchange` again; every other way to lose a change at `q` is checked.
- mv, `DataSafe`, `StatusTells`, `ImplementsMove`: a `readdir()` that fails in `cpmv()` passes for the end of the directory (`cp.c:989`); the source is removed with all that was not read, and mv exits with 0. `mv.1:122`: "If source and target lie on different file systems, mv must copy the file and delete the original". The names are in `unread`.
- cpio, `NothingLost`: a `close()` that fails after `mkstemp()` (`cpio.c:2975`) ends in `rename(temp, tgt)`, which puts the empty temporary file over the old one that nothing had touched. What the code prints there is "Restoring existing" (`cpio.c:3057`). `GivenUp` has it as `skip`.

What the properties except, because the code does otherwise than one would expect of it:

- ed: `unddot` and `unddol` point into `undzero`, a block of its own, but `append()` moves them by the way that `zero` went in `realloc()` (`ed.c:1212`). When that way is not the one of `undzero`, `u` takes a text of another length. `ed.1:719`: "The undo command restores the contents of the buffer before the last command was executed". This is what `Moves` is for: with `{0, 1}` `UndoKeeps` does not hold. In the `ed` run it is `{0}`, and all else is checked as if `realloc()` left the arrays in place.
- sort: `merge()` keeps the line before for `-mu`, and the bit 0400 of `muflg` says so; when one file is left, `muflg = uflg` clears the bit (`sort.c:671`), and the next line is written without being compared. `sort -mu` of a file with a and b and one with b writes b twice. `sort.1:64`: "Suppress all but one in each set of equal lines". `OutputRight` asks for the rest: all lines, in order.
- cpio: what `GivenUp` lists (above), for `NothingLost`.
- mail: an interrupt between the lock's file and its flag, for `Exclusion`, `NoForgottenLock` and `NoDeliveryDuringRewrite` (`cut`); interrupts of the load of new mail at the moments named above, for `TmpMirrorsBox` and `ImplementsStore` (`mishaps`). No text promises that these are safe, and the code does nothing about them.
- Where the sources promise nothing: a `rmdir()` that fails sets no bit of `errcnt`, so that mv exits with 0 with the source still there (`StatusTells`); `sort -c -o` empties its operand when both are one file (`NothingLost`, `CheckRight`); a list that has a name twice may be extracted as two files, and a name that an error left without its data may be linked to (`StatusTells`, `NothingLost`).

## Proofs

All theorems hold for every value of the constants that the modules' assumptions allow: any set of processes or deliveries, any number of letters, any `Stale`, `StatTries`, `MaxLet`, `MaxTerms`, `MaxStops`; any layers of shl; any number of lines, commands and signals of ed; any operands, `N`, memory and number of letters of sort; any forest of names, operands, failures, kills and runs of mv; any files, lists, archives and targets of cpio.

The assumptions are about the constants alone: that the symbols that stand for nothing (`None`, `NoFile`, `Torn`) are none of the values they stand beside; that a table, a bound or an age is a number; that names form a forest, in which only directories have names below them; that the operands of mv are roots of it, and what is there at the start has its directories; that only a file with data has data in an archive.

Mail:

- `LockTypes`, `LockExclusion`, `LockNotForgotten` (`MailLockProofs`). `Exclusion` is not inductive: that two processes cannot both be inside follows from the file being the holder's, and that one from the flag. The invariant is `LockInv`: the types; whoever is inside has its flag, and whoever waits has not; a flag implies a name in `curlock`; as long as nothing was clobbered, a flag implies that the file is its owner's, unless the owner is about to clear it or was interrupted before it could (`HolderOwnsFile`); and `NoForgottenLock`. The proofs allow an interrupt at every step, those between the file and the flag included.
- `ImplementsLock` (`MailboxProofs`): every step of a session or a delivery is a step of `MailLock` or leaves the lock alone, so `Mailbox` implements `MailLock!Safety`.
- `RewriteAlone` (`MailboxProofs`): `NoDeliveryDuringRewrite`. From `ImplementsLock` and `LockExclusion`'s invariant, with `PlaceInv`: at the places in the programs where the mailbox is written, the process is inside the lock.
- `MailboxTypes` (`MailboxProofs`): `TypeOK`, from `FilesInv`: files are sequences of letters or not there, the mailbox is there wherever the code takes it to be, and all that lies in a file was once delivered. The lengths that the code keeps as numbers are numbers because of it.
- `TmpMirrors` (`MailboxProofs`): `TmpMirrorsBox`. The invariant `StoreInv` says what lies where as long as nothing went wrong: what a delivery appends to has its name; the save file is a beginning of the mailbox until it is restored; the temporary file is what was loaded, and its addresses are where its letters begin; what `copyback()` has copied are the letters that are kept. It rests on `AloneInv`, which is `RewriteAlone` and the places, and on `CutInv`: without mishaps, an interrupt has cut the session's flag off from the file only while the flag was not set, so that the session never takes a lock for its own that is not there.
- `KeepsStore` (`MailboxProofs`): the refinement of `MailStore`, step by step, under the same invariant. A load is a choice of letters by their marks, the unlink of the mailbox is the loss of the chosen ones and no others; what a crash leaves is in the save file.

timeout:

- `TimeoutTypes` and `TimeoutGrace` (`TimeoutProofs`): `GraceKept`. The invariant is `Quiet`: until the second timer expires, and without outside signals, there is nothing for the loop to act on but the first timer, once; in particular the signal the program sent to its own group is still to be ignored when it is pending.
- `TimeoutReports` (`TimeoutProofs`): `TimeoutReported`. The invariant is `ReportInv`: without outside signals all begins with the first timer (`BeginsWithTimer`: an alarm, a pending signal, the second timer and an end by signal come after it), and the status is what `timesout` was when the command was waited for.

shl:

- `ListStaysSound`, `UtmpIsRight`, `AwaitComesBack` (`ShlProofs`): `ListSound`, `UtmpFollows`, `AwaitReturns`. The list is not described by following its pointers but by ranks: there is a function from the layers to the numbers that counts up by one along `l_next` and down along `l_prev`, from the one `l0` points to (`Sound`). Each operation on the list gives its new ranks; that `Walk` meets every layer of the list, once, follows from them. The invariant `Inv` adds that `lcur` is one of the list and only layers that were sent SIGHUP are behind it, that layers of the list have their places, and that `await()` is called as often as terminals have hung up, as long as no layer was lost (`HupInv`), so that there is a process it can wait for.

ed (whatever `Moves` is, but for `UndoRestores`):

- `UndoRestores` (`EdProofs`): `UndoKeeps`, if `Moves = {0}` (with other ways it is false). The invariant `UndoInv` says that both buffers and the command have the shape of such (each operation leaves it: `PutShape` to `SubstitutedShape`), that no line is without its number, so that `Sane` can tell a right `unddol`, what commands `checkpoint()` is called for, that `c`, `d` and `j` go over lines of the text; and that the undo copy holds the text of before at every place. What a signal may leave (`Midway`) keeps all of it.
- `OldFileKept` (`EdProofs`): `WriteSafe`, from the invariant that the file to be renamed is there only in `WriteLines` and `WriteEnd`.
- `QuitTells` (`EdProofs`): `QuitWarned`. The invariant `WarnInv` is that `fchange` is set for every unsaved change, unless `why` tells how it came to be wrong since it was last set, that what `e` reads is none, and that ed ends when it is not set. Where an operation leaves `fchange`, the text must be seen to stay: a move to where the lines are, and `g/.../d` of no line.
- `MoveIsRight` (`EdProofs`): `MoveRearranges`. That three reversals are one rotation is `TurnedLines`, line by line (`Source` is the line that comes to a place), and what `m` promises, in parts of a text, is the same (`RearrangedLines`). The invariant `PlaceInv` says that `move()` gets lines of the text: for `t` they are those that `append()` has just added, of which there is at least one.
- `MarksFollow` (`EdProofs`): `MarksStay`, under the same invariant. No line is lost when one is put in or when lines are moved, and the one line that `substitute()` replaces takes its marks with it.
- `HangUpSaves` (`EdProofs`): `HupSaves`, and with it `TypeOK`. `TypeInv` adds to the invariants of the other theorems what a command and its addresses may be (`CtlInv`), how the flags go together (`FlagInv`) and that the bits of `g` are on lines of the text (`BoundInv`), so that no operation leaves the array or the numbers that the lines may have. `MidwayLacks` counts, for what a signal may find in the middle of each operation, the lines of the text that the array does not have: one while a range is turned round or a line replaced, those that were counted out twice while `rdelete()` closes a gap or `join()` waits for its line, the marked ones while `gdelete()` packs the array. Proving it showed that the model had left out a signal in `s` at the end of the text, and one while `realloc()` is under way; they are states of `SubParts` now.

sort:

- `NoLineLost`, `OutputIsRight` (`SortProofs`): `NothingLost` with its `TypeOK`, and `OutputRight`. `SortInv` says which files there are: where `a`, `upto` and `os` are at each place (`PlaceInv`), what `sort()` still has to read (`RunInv`), that the files that are left exist and the operands among them are as they were (`FileInv`; here `OperandMergedFirst` comes from), that the buffers are files in a row by their first lines (`RowInv`). `FlowInv` adds where the lines are: all of them are not read yet, in memory, in a file that is left or in the output (`LeftInv`); while files are merged, what was written and what is in the buffers is what the files hold (`CountInv`); each file is in order (`OrderInv`), and what is in the buffers follows what was written (`BufferInv`). With `-u` a line counts as there or not, and what may be dropped is a line that was written or is at the head of another buffer.
- `CheckIsRight` (`SortProofs`): `CheckRight`. `CheckInv` says that the one buffer holds the operand from some line on, and that all lines up to that one are in order.
- These rest on lemmas about what the model is made of: no two temporary files have the same name, whatever the number of letters and of files (`NamesDiffer`: the name is the number, written with `Letters` digits); counts of disjoint families add up (`TotalApart`), and a file moved, or a line taken from it, changes them by what was taken; the joined operands have each line as often as the operands (`JoinedCounts`); the insertion of the last buffer into a row leaves a row of the same files (`InsertedRow`), and so does a round of dropping twins (`WithoutKeeps`). The proof needed `opt.c` to go without an operand as its output file in `FileInv`: `oldfile()` would have emptied it.
- `CleanExit` (`SortProofs`): `NoTempLeft`. The invariant is that every temporary file has the name of a number from `eargc` to `nfiles`, the last included, because the file is there before it is counted (`Create`, `Counted`); these are the numbers that `term()` goes over, at whatever step it is called.
- `OperandMergedFirst` (`SortProofs`): when `oldfile()` empties an operand of `-m`, that operand is before `a`: it has been merged into a temporary file. It is part of `PlaceInv`, from the shape of the passes, with `Until` and `safeoutfil()`'s `AmongLast`.

mv:

- `MvTypes`, `MvKeepsToStore`, `MvLosesNothing` (`MvProofs`): `TypeOK`, `ImplementsMove`, `DataSafe`. The invariant says where the walk is (`PlaceInv`: what is open is a chain from the operand), what the world may have done, and that what lies below an unread name is unread too (`WorldInv`), what has been copied while `errcnt` is 0 (`CopyInv`: every name of the operand that is not whole, late, unread or gone is yet to be read, in some open directory, or is being copied), and that removal begins with all of it whole (`RemoveInv`). `DataSafe` follows.
- `MvStatus` (`MvProofs`): `StatusTells`. `StatusInv` says which operands are gone as long as `saverrs` is 0; that they are whole in the target then is `DataSafe`.
- `MvKeepsLinks` (`MvProofs`): `LinksKept`. `LinkInv` follows a pair of links through the copy: a name that has not come was neither read nor made (`YetInv`); what is made is of a name of the same file (`MadeInv`); a name is met once (`OnceInv`); an inode has one slot (`SlotInv`), with which all its links are made as long as `link()` works (`PairInv`, `MovedInv`). Blame is with what `excused` lists: a `link()` that failed, and a name that joined a file when it had been copied already.

cpio:

- `CpioTypes` (`CpioProofs`): `TypeOK`. That the links counted for an inode stay between 0 and `st_nlink` needs the list of names that wait, and that all names of the target lead to inodes needs what each call adds to them.
- `CpioCleans` (`CpioProofs`): `NoTempLeft`. The invariant `TempInv` says at which places there is a temporary file, and that `cur_tfile` and `cur_ofile` say so from before `rename()` until `tunlink()`, so that `onint()` finds the right name; `NameInv`, with `OutInv` for what `-o` writes, says that what is extracted are names, which the temporary one is not.
- `CpioKeeps` (`CpioProofs`): `NothingLost`. The invariant `LossInv` is that, at every place, each name but the one that is being made is what it was, whole, or given up (`OthersKept`); that the one that is being made has its old file under the temporary name, if it had one (`TgtKept`, `TgtInv`); and that the first link of an inode, to which later ones are linked, has its data, or there is an error (`FirstInv`). The proof is what found one of the cases of `GivenUp`: a link to a link that was given up, in an archive that has no data for it.
- `CpioWrites` (`CpioProofs`): `OnTape`. `CountedInv` says that each name is in the archive, held back in a slot, or still to come, as often as it was listed; `KeptInv` that a slot counts down from `st_nlink` by just the links that it holds; `FollowInv` that no entry of a file with data is behind its last data, and that never `st_nlink` of them come without data in between.
- `CpioAwaits` (`CpioProofs`): `DataAwaited`. `SlotInv` says that the reader's `i_nlk` and the links in `i_lnk` make `st_nlink` + 1, but for the inode that `flushnode()` is at; `AwaitInv` that the links in `i_lnk` are as many as the entries of the file behind its last data so far. With `FollowInv`, from the writer, `storelink()` cannot take one of them for the last.
- `CpioTells` (`CpioProofs`): `StatusTells`. It follows a name from the list through the archive, the links that wait and the target, in four invariants, each for as long as there is no error.
  - `FillInv`, for the data: what was extracted and does not wait any more is whole, unless it is at work (`SettledInv`); for the name at work the data is still to come, or was written under another name to which `canlink()` will link it (`DataInv`, `FilledInv`).
  - `LastInv`, for the writer, and `ReadInv`, for the reader, if no name is listed twice: of a file with links only the last entry has data, and no link is still held back behind it; what waits in `i_lnk` is just what has been read of the file, so that when its data has come it is done with.
  - `JoinInv`, for the links, under the same condition: the names of a file that are done are one inode (`Joined`), namely that of `i_name` (`HomeInv`); while another is extracted, it is linked to that one, and is not made anew (`TgtHome`, `TgtJoin`). For the old formats, which count down `i_nlk` without waiting for data, it needs that the count is above the names still to come (`OldLinks`).

  These counts are right only if no more names are in the list than `st_nlink` says: assumption `NamesFit` of `Cpio`, that `st_nlink` counts the directory entries of a file. (A mount of one directory at two places would break it, and so would `-L`, which lists the name of a symbolic link for the file it leads to; symbolic links are left out.) No other theorem uses it.

Induction. The library's theorems for it cannot be instantiated by the provers that are used, but the least element of a set of numbers can be had from its theorem on well-founded relations (`LeastNat` in `ShlProofs` and `SortProofs`): what is to be proved for all numbers is proved for the least one for which it fails. This is how `Walk` is shown to be the list, and what `Joined` and `Name` of sort are.

Only model-checked: everything under fairness (`OrphanBroken`, `DeliveryEnds`, `EndNoticed`, `TimeLimitKept`, `GlobalEnds`, `Ends`), which the provers cannot do. Every other property of the runs that hold, invariant, action property or refinement, is a theorem.

## What the models leave out

- mail: `-f` and other mailboxes; several sessions of one user at a time (a second one would replace the file that the first has open before its lock); a part of a letter that is left behind (`Torn`) ends where a line ends, so that the next letter is still found; bytes within a letter and `Content-Length`; `chown`, `chmod`; forwarding; the search for another name when `:saved` cannot be written. A deliverer that fails is not started again. A second signal while `done()` is on its way out.
- lock: the text of the lock file, NFS, `touchlock()`, which nothing calls.
- timeout: parsing of durations and signal names; `-k 0`; `TERM` stands for HUP, INT, QUIT and TERM, `USR1` for any other signal of `-s`; only the signals of `sigsused[]`.
- shl: layer names (a command is given the layer its name finds) and with them `name` and `rename`; a command on several layers is several commands; the text of `utmp`; the branch of `dooutput()` for systems other than Linux; SIGHUP to `shl` outside `poll()`; what a process in a layer writes.
- ed: addresses as text and regular expressions (a command has any addresses that `address()` accepts); what only prints or moves dot; `v`, `G`, `V` (`g` with another choice); in the command list of a `g` the commands `r`, `w`, `W`, `q` and `e`, and more than one command for a line; the blocks of the temporary file; `!`; a second `w` of one part after another.
- sort: keys, comparison and `quicksort()`; lines without a newline but for what they do to the end of the input; directories for temporary files, and the file that is made and unlinked to try one before the handlers are set (`sort.c:397-405`), which a signal then may leave; `-y`, `-z`.
- mv: two operands with the same last part (the second takes the place of the first, `cp.c:1226`), a target that is not a directory, the operand's own target; `cp` and `ln`; rm; modes, owners, times, devices, sockets, FIFOs; others at the target; a newcomer that is a link to a file that was there, or has the number of an inode that is gone.
- cpio: `-p`, `-t`, `-m` and all attributes; directories (but `imdir()`'s failure), symbolic links, devices; the formats of tar, bar, zip and pax and the limits of the formats; checksums, `-k`, `-r`, patterns as text; several volumes; a read error while a file is added, which is filled with zeros and reported; files that change while `-o` runs.
- everything else in the table of parts. Interpreters, regular expressions, reports and filters are functions of their input and have no interaction; the parts named in the plan are to come.

## Plan

In this order; what is marked done is in the modules above.

1. Mail lock, mailbox, their abstract store, exclusion proved. Done.
2. timeout, with its grace period proved. Done.
3. shl: list, poll set, `utmp`, `await()`, all proved. Done. To come: layer names and their uniqueness; where the crash in `Output` can come from.
4. ed: buffer, undo, marks, `g`, `w`, signals; undo, marks, moves, the warning, the old file and what a hang-up saves proved. Done. To come: the temporary file's blocks.
5. sort: runs, passes, merge, `-c`, clean-up; all of its safety proved. Done. To come: keys, and `quicksort()` itself.
6. mv across file systems, its abstract store, status and links, all proved. Done. To come: `cp` with an existing tree at the target; operands of the same name.
7. cpio: hard links with `-o` and `-i`, the old file and SIGINT; all of its safety proved. Done. To come: `-p`, whose link table is the one of `canlink()` alone; several volumes; tar.
8. find and xargs: batches under the limits of `ARG_MAX`, waiting for the child.
9. Operators: split (its empty last file when the input is a multiple of the size, `split.c:175`), tsort, uniq, comm, `parse_interval()` of timeout, checked against reference definitions; `iblok`/`oblok` of `libcommon`.
