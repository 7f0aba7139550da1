# A verification project for the operating-systems exercises (046209)

The repository holds three programs: a shell (`wet01`), a bank with many ATM
threads (`wet02`) and a TFTP upload server (`wet03`).  This directory holds TLA+
modules that model them, the TLC configurations that check the modules on small
instances, and theorems proved with TLAPS for every value of the constants.
File names without a directory below are those of `src/wet0N/src`.

## 1. The system

### wet02, the bank

| part | state | operations | hard because |
|---|---|---|---|
| account lock (`account.h`) | `number_of_readers`, `read_access_lock`, `write_access_lock` | `lock_for_writers`, `unlock_for_writers`, `lock_for_readers`, `unlock_for_readers` | two mutexes and a count are taken and given back by different threads |
| ATM threads (`atm.cpp`) | the map of accounts, `log.txt`, each function's copies of a balance | `O D W B Q T`, one line of a file each | a balance is copied under a lock, checked after its release, and changed under another |
| commission and status threads (`bank.cpp`) | `current_balance_bank`, `is_atm_finished` | every 3 s charge all accounts, every 0.5 s print them | they walk over a map that ATMs change; the bank's own balance has no lock |
| `main` (`bank.cpp`) | threads and objects | create, join, set the flag, delete | threads use objects that `main` and other threads delete |

All threads share `mutex_global_accounts` and `mutex_log_print`; accounts have a
lock of their own.  An ATM takes the global mutex for a whole command.  The code
calls `lock_for_writers` to *read* an account and `lock_for_readers`, which admits
many threads, to *write* it: what protects a balance is the global mutex alone, and
the properties below say that it is enough.

What makes the bank correct: writers exclude everyone; no data race on a balance; no
account closed under another thread's iterator; no deadlock; no overdraft; every log line true;
every screen of one moment; commands that take effect one at a time; no money made
or lost; a program that ends, and deletes nothing that is still used.

### wet03, the upload server

One process with one socket.  State: `clients_array` (200 slots with address key,
file name, block number and stream), `client_index`, the loop it is in,
`resendCounter`, the address of the last sender, the files.  Operations: a packet
received or `select`'s timeout, in the outer loop (wants a WRQ) or in a session
(wants DATA).  Hard because packets are lost, repeated and reordered, because all
clients share the session, and because clients are registered before their request
is checked and are deleted only after a complete upload.

The process has no end of its own: it exits on a failing call, crashes when it writes to
a stream that was never opened, or is killed.

What makes it correct: a file is created once, grows block by block, in order, from one
client, and when it is complete never changes again, not even by the end of the server;
what is acknowledged is in a file; the session's timeout speaks to the client of the
last packet; a session ends, and no packet keeps it for nothing.

### wet01, the shell

State: the list `jobs` with the counter `jobIndex`, `waite_for_fg` and `fg_pid`, the
children, the seconds each job has run, and the previous working directory.  Operations: the built-in commands, an
external program in the foreground or background, and handlers of ctrl-C and ctrl-Z that
interrupt the main loop, and each other, at any statement.  Hard because the handlers
act on globals that the main loop updates one at a time, walk and change the list that
it walks and changes, and because children stop, continue and end on their own.

What makes it correct: job-ids that are given once and a list that keeps to its limit;
no child that lives and is in nobody's hands; no entry removed whose process goes on; no
iterator whose node is gone, but by a handler's doing; a
shell that waits only for what runs; a `quit kill` that ends; a ctrl-C that kills the
process in the foreground; run times that count no second twice and none in which the
job was stopped; a `cd -` that leads back.

### Left aside

`dry0*` (written answers), `check_submission.py` (checks the layout of a handed-in
archive), test inputs, make files: no state of the three programs.

## 2. Modules

| module | models | extends or uses |
|---|---|---|
| `ReadersWriterLock` | the lock that the comments of `account.h` promise | |
| `AccountLock` | `account.h:57-74`, one action per statement | implements `ReadersWriterLock` |
| `AccountLockProofs` | theorems on `AccountLock` | TLAPS |
| `Bank` | all threads of wet02 between two accesses to shared state | |
| `BankProperties` | what must hold of `Bank`, and its inductive invariant | `Bank` |
| `AtomicBank` | the bank of which every command and commission happens at once | |
| `BankHistory` | `Bank` with three history variables, and its inductive invariant | `BankProperties`; implements `AtomicBank` |
| `BankMain` | `main()` around the threads | `BankHistory`; implements `Bank` |
| `Sums` | sums without recursion, for the money and the fees | |
| `BankProofs` | theorems on `Bank` | `BankProperties`, TLAPS |
| `BankHistoryProofs` | theorems on `BankHistory` | `BankProofs`, `BankHistory` |
| `BankMainProofs` | theorems on the whole program of wet02 | `BankHistoryProofs`, `BankMain` |
| `FileStore` | what an upload server promises of the files it takes | |
| `Ttftps` | server, network and clients of wet03 | |
| `TtftpsProperties` | what must hold of `Ttftps`, and its inductive invariant | `Ttftps`; implements `FileStore` |
| `TtftpsProofs` | theorems on `Ttftps` | `TtftpsProperties`, TLAPS |
| `JobTable` | the table of jobs that job control promises | |
| `Smash` | main loop, handlers, job list and processes of wet01 | |
| `SmashProperties` | what must hold of `Smash`, and its inductive invariant | `Smash`; implements `JobTable` |
| `SmashProofs` | theorems on the list of `Smash` | `SmashProperties`, TLAPS |
| `SmashLossProofs` | theorems on the children and the iterators of `Smash`, and on `JobTable` | `SmashProofs` |
| `Builtins` | `cd`, `jobs` and the clocks of jobs in wet01 | |
| `BuiltinsProofs` | theorems on `Builtins` | TLAPS |
| `MC*` | constants for TLC | |

### How `Bank` corresponds to the code

`pc[t]` names the next access of thread `t` to shared state.  `getline` is the loop of
`all_functions_caller`; `lock_global` the `pthread_mutex_lock` with which each function
and routine starts; `find` the look-up in the map; `lock_acc`/`read_acc` the copy
under `lock_for_writers`; `check`, `funds` the decisions; `lock_upd`/`update` the
change under `lock_for_readers`; the same with `tgt` for the target of a transfer;
`lock_log`/`log` the message; `erase` the erasure; `leave` the unlock of the bank.
For the service threads `next` is the head of the loop over the map, `read` the copy
of an account, `lock_charge`/`charge` the commission, `credit` the update of
`current_balance_bank`, `flag` the test of `is_atm_finished`.  `writers` and `readers`
are the threads inside each account's lock: its implementation is the business of
`AccountLock`, whose refinement of `ReadersWriterLock` justifies the abstraction.
`seen`, `seenTarget`, `outcome` are the locals of a function, `shown` the
screen.

`find` and the loop that searches the same key again are one step: nobody changes
the map in between, and the iteration of a thread that holds the mutex is not
observable.  In `EraseAccount` the account and its locks go together.

### How `Ttftps` corresponds to the code

An action is one turn of a receive loop; the turn of a last block takes two, because its
ACK is on its way (477) before the file is closed (486) and the client deleted, and the
process may end in between (`closing`, `CloseFile`).  `packets` holds everything the clients ever
sent; receiving does not remove, so a packet arrives at any later time, any number of
times, or never.  `files[f]` holds the blocks that were written to `f`.  A block of odd size, 508 to
511 bytes of data, is written each time it arrives and neither counted nor acknowledged
(`OddBlock`): the file then holds it as often, and `FileInOrder` says what a file looks
like with such blocks in it.  `OddBlockAtHand` says that one is under way.  `index` is main's variable of that
name, which is not always set before it is used.  `mode` is the loop the server is in,
or how it has come to its end: `exited` (a call failed; `exit` writes out what stdio
has buffered), `broken_off` (killed, crashed, or out of room: files that are open lose any
part of their end, `BreakOff`) or `overrun` (a 201st registration, beyond which the
model says nothing).  `Key` is what `strcmp` sees of an address: `sa_data` up to its first
zero byte, so two clients may share a key, and one may have the empty key of the slots
not in use.  `BlockRange` stands for 2^16.  Error packets, whose opcode the code never
sets (`ttftps.c:278-280` set the one of `ACK_msg_inst`), are ignored by the clients.
Packet sizes are three classes: 516 bytes, 512 to 515, less than 512.  A file is its
name, as it is for the `strcmp` of line 132: clients that give one file two paths (`f` and
`./f`) are not modelled, and would have two streams write to it.  An `fclose` after
the last block is taken to succeed: the code does not look.

`FileStore` is the server from outside: a file is `none`, `open` or `complete`; it is
created once, empty; each further step adds one block; `Crash` shortens open files and
nothing else.  `FileState` maps the slots to these states: a slot with a stream is
an open file, one that was deleted but keeps its `File_Name` a complete one.

### How `Smash` corresponds to the code

There are three contexts: `main` and the two handlers.  `active` is the stack of handlers
in progress, of which only the last one runs; `Signal` puts one there between any two
steps (`sa_mask` is empty, so they interrupt each other; `sa_flags` is 0, so a `waitpid`
that blocks ends with EINTR).  `pc[c]` names the next access of a context to the globals
or its next system call: `prune`, `test`, `erase`, `next` are `remove_finished_jobs`;
`count`, `index`, `push` are `add_job_to_jobs_list`; `fork`, `flag`, `set_pid`, `wait`,
`unflag` are `ExeExternal` and the end of `fg`; `jobs*`, `fg*`, `bg*`, `kill*`, `quit*` the
built-in commands; `test_fg` and `send` what a handler does once the list is pruned.  An
iterator is the job-id of its node: another context may have erased it, and then its use
is undefined behaviour (`Dangling`), after which the model says nothing.  Every loop over
the list takes a step for each node, so that a handler may come in anywhere in it.  Reads
through one iterator that follow each other are one step, for it makes no difference
whether the node goes before the first or between two of them.

`bg` is another matter, for it walks with a `reverse_iterator`, which holds the node
*after* the job it looks at (its base; `it` is that node's id, 0 for `jobs->end()`, and
`NodeBehind` the job before it).  When a handler erases the node after the job, the
iterator dangles; when it erases the job, the iterator looks at the job before that one,
if there is one.  Hence its accesses are steps of their own: the job found (282), tested
(284), read (286), marked (287) and resumed (289) need not be the same.

The signal that `kill` sends is any that may be typed; `RUNSIG`, `STOPSIG` and `FINSIG` are
those after which the code changes the status of the entry, and after the others it does
not (`KillSend`).  `Outcome` says what a signal may do to a process: SIGKILL, SIGSTOP and
SIGCONT what they must, all others what they do by default, or nothing.

Which command the line holds is chosen at `ExeCmd`, for it plays no part before.  A child
ends when it likes, may ignore SIGTERM, and may be stopped or continued by others (`Outside`): the
terminal stops a background job that reads from it.  `SIGCONT` leaves a process
"continued" until a `waitpid` with WCONTINUED reports it.  `refused` and `outside` are
history variables that only the properties read.

`JobTable` is job control from outside: a table of at most `MaxJobs` jobs, numbered one
after the other and entered in one step each, and at most one process in the shell's
hands.  `ImplementsJobTable` maps `jobs` to the table; `jobIndex` to the last number given,
less the one that a context between `index` and `push` has drawn and not yet used
(`Given`); the `pID` of main, between `fork` or `fg` and the next prompt, to the process in
hand (`InHand`); zombies and reaped children to those that are over (`Ended`).

### How `Builtins` corresponds to the code

An action is one command line, with the `remove_finished_jobs` before it (`Remaining`), one
ctrl-Z, or a thing that happens to a process, a directory or the clock.  `startTime` and
`runTime` are the fields of `job`, one per process; `update_run_time` is called by `jobs`
for all entries and by `bg` for one *before* it changes the status, and by nobody else:
`fg` drops the entry, `kill` changes its status and leaves its clock running.  `prev_path`
starts empty; `getcwd` fails, unnoticed, when the path does not fit or the directory is
gone, and then `strcpy` copies whatever was on the stack (`CurrentPath`).  `added`, `ran`,
`unmarked` and `left` are history variables that only the properties read.

## 3. What the runs show

| run | cfg | instance | shows |
|---|---|---|---|
| `account_lock` | `MCAccountLock` | 3 threads | `IInv` (with `ReadersCounted`), `Exclusion`, `NobodyStuck`, refinement, `ReaderGetsIn`, `EveryoneGetsOut` |
| `bank` | `MCBank` | 2 ATMs, 2 accounts, 2 lines each of 6 | `IInv`, `NoBalanceRace`, `NoDanglingIterator`, `NonNegative`, `LogTruth`, `ScreenIsSnapshot`, `InsideNeverWaits`, `HolderAdvances` |
| `bank_atomic` | `MCBankHistory` | 2 ATMs, 2 accounts, 2 lines each of 7 (without deposits), no status thread | `ImplementsAtomicBank`, `MoneyConserved` |
| `bank_main` | `MCBankMain` | 2 ATMs, 1 account, 1 line each | `BankOutlivesThreads`, `BooksClosed`, `NobodyStuck`, `ImplementsBank`, `MainReturns` |
| `bank_screen` | `MCBankScreen` | 1 ATM | `ScreenAddsUp` is violated |
| `tftp` | `MCTtftps` | 4 clients (two with one key, one with the empty key, two pairs with one file name, one with an odd last block), 2 block numbers beside 0, 3 slots, 2 resends, an odd block written twice | `IInv` (with `OneSlotPerClient`), `FileInOrder`, `AckedIsWritten`, `SessionPeer`, `ImplementsFileStore`, `SessionEnds`, `SessionAdvances` |
| `tftp_last_block` | `MCTtftpsLast` | as `tftp` | `LastBlockEndsSession` is violated |
| `tftp_resend` | `MCTtftpsResend` | as `tftp` | `ResendsLastAck` is violated |
| `tftp_existing` | `MCTtftpsExisting` | as `tftp`, with a file left by an earlier run | `ExistingFileKept` is violated |
| `smash` | `MCSmash` | 2 processes, list of 2, job-id 2 and the signals 1, 6, 9, 18, 20 typed, 2 signals | `IInv` (with `JobListBounded`), `JobIdsIncrease`, `NoSilentLoss`, `OnlyFinishedRemoved`, `OnlyHandlersDangle`, `ImplementsJobTable`, `WaitsForRunning`, `QuitKillReturns` |
| `smash_ctrl_c` | `MCSmashCtrlC` | as `smash` | `CtrlCKillsForeground` is violated |
| `builtins` | `MCBuiltins` | 1 process, 3 directories, one with a long path, 3 seconds | `IInv`, `NoSecondTwice`, `StoppedNotCounted`, `DashLeadsBack` |

The invariants that serve a proof only, `LocksInv`, `HistoryInv`, `MainInv` and `LossInv`, and
the corollaries `UndisturbedDefined` and `SessionBounded`, have no run: section 4 has the theorems that they hold.

Bounds and why they are enough.  Three threads at the lock: a first reader, a last
reader that is another thread, and a writer.  Two ATMs and two accounts: a transfer
between accounts of different ATMs, a second command between the check and the update
of the first, and a service thread between accounts; two lines per ATM, because a
command must find the account another one opened, and the next must find it changed.
Transfers of an account to itself are in `bank_atomic`.  One rate: the
rate only scales the fee, and 5 % of 20 is a fee of one.  The proofs
lift these bounds for everything they cover.  `bank_atomic` leaves the status thread
unscheduled, for it changes nothing that the abstract bank has.  `Ttftps` has one
upload per client address (TFTP clients take a new port for each); `CLIENTS` is 3 instead
of 200, so that the array fills within a run, and one file has more blocks than there are
block numbers, so that the number wraps; `MaxWrites` bounds how often a repeated odd block
is written: twice is once too often, and the proofs are for any bound.
`Smash`: two processes, one listed and one in the foreground or on its way into the
list; two entries, so that the list fills (a process can be listed twice); two signals,
so that one handler interrupts the other, or ctrl-Z lists a process that is then
continued or stopped from outside, or one lists it and another interrupts the shell.
The typed job-id is 2, so that the job may have one before it or after it, as `bg`'s walk
backwards needs; the typed signals are one for each status (18, 6 and 20, 9) and one that
sets none.
`Builtins`: the entries do not touch each other, so one process shows what can happen to
one, and the proof is for all; three seconds, to run, to be stopped and to run again;
three directories, so that the one before is neither the one now nor the one that
cannot be named.

TLC's own deadlock check is on for the lock.  It is not for the others: the program of
wet02 ends, with every thread exited, a server of wet03 whose process has ended does
nothing any more, and neither does a shell that has exited.  What may not happen *before*
the end is stated as `NobodyStuck`, for the lock and for the whole program of wet02.  It
names the guards of the blocking calls (`Blocked`, `Waits`, `Awaited`) instead of ENABLED,
which the prover does not take, and so is proved as well as checked.

Fairness.  `AccountLock`: a thread inside a method runs on (weak), a free mutex is in the
end given to each thread that waits for it (strong); calling the lock is never
forced.  `BankMain`: every thread is scheduled; a waiting thread gets the global mutex
because each holder leaves it after a bounded number of steps, waiting for nobody
(`HolderBounded`, `HolderAdvances`, `InsideNeverWaits`, all proved), and then sleeps for
half a second or more.  `Ttftps`: a session times out in the end, because `select` returns
`wait_for_packet_time` after the last packet and a session gets only so many of them: each
that does not end it uses up a block number (`SessionAdvances`, `SessionBounded`, both
proved).  The exception are blocks of odd size, which use up nothing: while one is at hand
(`OddBlockAtHand`) no timeout is assumed, and `SessionEnds` promises no end.  Once its last
block is acknowledged the file is closed; nothing is assumed of the network, of the clients
or of a `sendto` that may fail.  `Smash`: the shell runs
on once a line is read, and the time that `quit kill` measures passes; nobody has to
type a line or a signal, and no process has to end.

## 4. What is proved

`AccountLockProofs`, for any finite set of threads: `Inductive` (`Spec => []IInv`),
`ExclusionHolds`, `ReadersCountedHolds`, `NobodyStuckHolds`, and `Refinement`
(`Spec => ImplementsReadersWriterLock`).  Exclusion alone is not inductive: the
mutexes record no owner, so `IInv` adds who holds each of them by program point
(`OneHolder`, `ReadAccessHeld`, `WriteAccessHeld`) and what the two tests of the count
know once they have succeeded (`CountTested`).  That nobody gets stuck follows from the same
invariant: `ReadAccessHeld` and `WriteAccessHeld` name, for each mutex that is locked, a
thread that will give it back, and a first reader that waits waits for a writer, never for
a reader that needs `read_access_lock` to leave.

`BankProofs`, for any number of ATMs, any files of commands without negative amounts and any rates up
to 5 %: `Inductive`, and from it `NoBalanceRaceHolds`, `NoDanglingIteratorHolds`,
`NonNegativeHolds`, `LogTruthHolds`, `ScreenIsSnapshotHolds`.  The invariant says that
the thread inside the bank is the owner of `mutex_global_accounts` (`Ownership`) and that
all it has found and copied is still so (`AtmInv`, `CommissionInv`, `StatusInv`).  The
proof has three kinds of lemmas: a step of an ATM keeps its own part (one per
action); a step of a thread inside the bank does not touch those outside, and a step
of one outside does not touch the books (`OtherAtm`, `AtmFrame`, `ServiceFrame`); a
commission of at most 5 % leaves a balance that is not negative (`ChargeBound`).
A second argument is about the locks inside the bank.  `LocksInvHolds`: the accounts' locks
are held by exactly the threads between their statements, the log's mutex only by one that is
logging.  All of these are inside the bank, and `Ownership` leaves room for one thread there:
so it never waits (`InsideNeverWaitsHolds`), each of its steps brings it closer to the unlock
and no other thread sets it back (`HolderAdvancesHolds`), and the steps it has left are at
most four for each account and 15 (`HolderBounded`).  The measure is `MovesLeft`: the
program points of a command in order, and for a service thread the accounts beyond its
iterator, of which none can be added while it is inside.
The assumptions are those of the modules: `ThreadAssumption`, `BankAssumption` (a finite
set of account numbers, none of which is 0).

`BankHistoryProofs`, from the same assumptions: `ThreadsAreAtomicBank`, the refinement, and
`MoneyConservedHolds`.  A command takes effect in the abstract bank when its thread leaves
`mutex_global_accounts`, and a commission when its thread does (`LeaveCharged`); every other
step is a stutter, because `committed` holds the books of the last moment at which the
mutex was free.  `HistoryInv` says how the books differ from those: not at all until an
update, then by the whole command (`Done`), in a transfer by one half of it (`HalfDone`), and
in a commission by the fees of the accounts before the iterator (`Charged`).  It also says
that the reply in the making is the one the abstract bank gives (`ReplyOf`), and that what
is in the books and in a thread's hands makes the cash (`MoneyInv`).  A sum is
the number of its coins (`Sums`): no recursion, and one lemma on how it changes with one
account or one term gives the rest.

`BankMainProofs`, for the whole program: `MainImplementsBank` maps the program, which
creates, joins and stops its threads, to the bank of threads that all run from the
beginning; hence `ProgramIsAtomicBank`, and `ProgramSafe`, which carries over the theorems of
`BankProofs`.  `MainInv` says which threads main has created and seen end, and when the
flag is set; with `LocksInv` from `BankProofs`, by which a thread that has ended holds no
mutex, there follow `BankOutlivesThreadsHolds` and, with `MoneyInv`,
`BooksClosedHolds`.  `NobodyStuckHolds` says that the joins close no circle: what main waits
for has been created and not ended; if one of the threads is inside the bank it can
move, and if none is, the mutex is free for whoever stands before it.

`SmashProofs`, for any number of processes and signals and any limit of the list:
`Inductive`, `JobIdsIncreaseHolds`, `JobListBoundedHolds`.  `add_job_to_jobs_list` counts,
steps the counter, and pushes in three steps, with no signal blocked, and both main and
the handler of ctrl-Z call it.  What saves the list is `waite_for_fg`, a flag made for
another purpose: the handler adds only while it is set, and main sets it only after
anything it has to add (`FlagInv`).  `StackInv` says that main stands still while a
handler is at work, `LabelInv` that the handler of ctrl-C never adds, and `AddInv` what
an addition in progress knows: there is room, and the counter is beyond every id.  The
proof takes the parts one after the other (`TypeStep`, `ControlStep`, `ListStep`), with one
lemma for each way in which control moves and in which the list changes.  The assumption
is `BoundAssumption`.

`SmashLossProofs`, under the same assumption: `LossInvHolds`, and from it `NoSilentLossHolds` and
`OnlyFinishedRemovedHolds`.  An iterator that another context may have overtaken is
sound for a reason that is nowhere in the code: an id never comes back, so the node that
is erased is the one that was tested, or there is none (`IteratorInv`; no iterator holds
the id that is being given).  `ForegroundInv` says that `fg_pid` is what main waits for from
`set_pid` until it prompts.  `ChildInv` says where a living child is: on the list or known to
have been disturbed from outside, in main's hands, or announced as refused.  When a handler
ends main's `waitpid` the child is in hand only as long as the handler is under way, and
by the time it returns it has killed the child, listed it, or said that the list is full
(`HandlerToAct`).

The same module proves what becomes of the iterators.  Each step of a context leaves its own
iterator where it was or at an entry of the list (`Anchored`; the erasing loop of
`remove_finished_jobs` goes on at the entry *after* the erased one), so that it can lose its
node only by a step of another context.  Only the contexts in `remove_finished_jobs` and
fg erase, a handler runs only while main stands still, and an erasure takes the one node
whose id the iterator has.  For `bg`'s reverse_iterator the argument is about places
(`BehindIs`): a step of its own goes to a place that has a job (`BackWalk`), a step that
erases nothing keeps it there (`BackKept`), and an erasure leaves a job before the base
unless it takes the base itself, or the first job when that is the one looked at
(`BackErased`, `Needs`).  Hence `OnlyHandlersDangleHolds`, and, as without a signal there is no
handler, `UndisturbedDefinedHolds`.  `RefinesJobTable` maps each step to one of `JobTable` or
to none; it rests on `AddInv` (of two contexts only one is between `index` and `push`, so
numbers come without a gap), on `JobListBounded`, and on `IteratorInv` (what is erased is
what was tested, or what fg has taken in hand).

`TtftpsProofs`, for any clients, keys (shared and empty ones too), files, array size,
resends, and range of block numbers: `Inductive`; from it `OneSlotPerClientHolds`,
`FileInOrderHolds`, `AckedIsWrittenHolds`, `SessionPeerHolds`; `Refinement`
(`Spec => ImplementsFileStore`); and from that `CompleteFilesKept`, the promise that matters:
no packet and no end of the server changes a file that is complete.  `FileInOrder` says that
the blocks of a file are of one client and in order (`Sequenced`), each number once, but for
an odd block, which is written each time it arrives and which no block of a higher number
follows.  `SessionAdvancesHolds` and `SessionBounded` are about the length of a session: a
measure, the timeouts and the block numbers that are left (`TurnsLeft`), of which each turn
without an odd block uses one up and none gives one back.  This is what the fairness
of section 3 rests on.  `FileInOrder` and
`AckedIsWritten` need two things that the code nowhere says.  `ArrayInv`: no two slots
have a file of one name, because `is_filename_exist` also finds the names of completed
uploads and of refused clients.  `WrapInv`: a packet whose number has wrapped exists only
when its client has been told of block `BlockRange - 1`, and then its slot waits for a
number that no packet can have, so that the wrapped number is never taken for the
expected one.  The assumption is `TtftpsAssumption`.

`BuiltinsProofs`, for any processes, directories and time: `Inductive`,
`NoSecondTwiceHolds`, `StoppedNotCountedHolds`, `DashLeadsBackHolds`.  The invariant is that of
each process (`ProcInv`): its clock started after its entry was made, `runTime` holds
nothing but seconds before that start (`ClockInv`), and an entry that does not say STOPPED
is of a process that runs (`MarkInv`), but for the marks that `kill` takes away and the
stops of which the shell is not told.  The assumption is `BuiltinsAssumption`.

Only model-checked: everything under fairness (`ReaderGetsIn`, `EveryoneGetsOut`,
`MainReturns`, `SessionEnds`, `WaitsForRunning`, `QuitKillReturns`), which is out of the
prover's reach.

## 5. What the code does otherwise than it says

* `bank.cpp:57` credits the bank after releasing both mutexes: the screen can
  show accounts that have paid and a bank that has not received (`bank_screen`).
  When the program ends the books do add up (`BooksClosed`).
* `ttftps.c:468` compares the size of a packet with that of its data: a file whose
  last block has 508 to 511 bytes never ends (`tftp_last_block`).  The block is written
  each time the client repeats it, and as long as it does so the server stays with it.
* `ttftps.c:541` resends ACK 0 whatever was acknowledged last (`tftp_resend`).
* `ttftps.c:324` empties a file that an earlier run of the server left, although
  `is_filename_exist` is said to "check if filename exists on server side": it knows the
  names of this run only (`tftp_existing`).
* `commands.cpp:485` sets `waite_for_fg` before line 486 sets `fg_pid`: a ctrl-C in between
  kills another process than the one in the foreground, and at the first command, when
  `fg_pid` is 0, the shell's own process group (`smash_ctrl_c`).

Met while modelling, in the models as the code has it, but without a run of its own:

* `commands.cpp:268`: `bg` without a job-id gives up at the last job if that one runs; the
  comment at line 256 says it takes the last *stopped* one.
* `commands.cpp:338`: `kill(job_pid, KILLSIG_9 == -1)` sends signal 0, not SIGKILL, so
  `quit kill` leaves alive what ignores SIGTERM, and prints that it killed it; and a job
  that ends in the sixth second (line 330) makes it give up quitting.
* `atm.cpp:459`: a transfer from an account to itself logs two balances that the account does
  not have; `LogTruth` leaves such lines out.
* `signals.cpp:26`: a process that ctrl-C kills while main is blocked in `waitpid` stays a
  zombie, for `waitpid` has returned EINTR and the process is on no list.
* `commands.cpp:399`: `kill -18` marks a stopped job as running and leaves its clock where
  it was, so that `jobs` later counts the seconds it was stopped; so does the answer of
  `kill -15` to a stopped job.  `StoppedNotCounted` excepts these entries (`unmarked`).
* `signals.cpp:40`: a handler may erase the node that the interrupted loop refers to (for
  `bg`, the one after it); that nothing else can is `OnlyHandlersDangle`.
* `commands.cpp:282-289`: when a handler erases the job that `bg` has found, its
  reverse_iterator looks at the one before it, which is then marked and resumed.
* `bank.cpp:58` and `85` read `is_atm_finished` after giving the global mutex back: the last
  command can come after the last commission and the last screen, if the flag is set
  between the two.
* `ttftps.c:132` compares paths as strings: `./f` is accepted while `f` is being
  written, or when it is complete, and line 324 empties it.
* `bank.cpp:186` copies an `atm` that its thread may have deleted already.

## 6. Not modelled

Text: messages, formatting, the parsing of lines and packets.  In wet02: overflow of
balances, short lines that reuse the numbers of an earlier one, failing
`pthread_create`, the copying of initialised mutexes (`atm.cpp:132-133`), the owner that a
mutex may check for (the last reader gives back what the first one took).  In
wet03: the buffer of error messages, which the code only ever appends to; the check of
file names, which is commented out in the code; what happens after the array is
overrun; two paths of one file; a failing `fclose` of a complete file.  In wet01: `fg_cmdString`, what a child
whose `execvp` fails does as a second shell on the same terminal (it would be a second
instance of the whole model), the buffer of an `fgets` that returns nothing, a pid that is
used again, and what follows undefined behaviour.

## 7. Plan

1. Done: the account lock, the bank and the program around it with the atomic bank that
   they implement, the server with its abstract store, the built-in commands, the list,
   the children and the table of jobs of the shell, all with proofs.
2. Left: a second shell in a child whose `execvp` fails, files with more than one path on
   the server, and integers of the width that balances have in the code; they enlarge a
   model for cases the properties above do not speak of.
