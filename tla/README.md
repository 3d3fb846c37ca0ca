# Ferry-OS in TLA+

Ferry-OS simulates a small computer and its operating system in one C++ program:
a processor that interprets FSE executables, memory with paging and a swap area
on disk, an interrupt controller with a timer, and a kernel with processes and
semaphores, driven from a shell. This directory holds TLA+ modules of its core,
the TLC configurations that check them on small instances, and proofs, checked by
TLAPS, of the properties that matter most.

Paths below are relative to the repository.

## 1. Inventory

| Component | State | Operations | Talks to |
|---|---|---|---|
| Kernel (`src/os/oscore/OSCore.cpp`) | `mIsRunning`, statistics | `start`, `processCreate/Delete/Quit/Delay`, `semCreate/Delete/Accept/Pend/Post`, `callIntService`/`timeTick` | called by the processor (CallCore, Pause, Quit, interrupts) and by the shell's thread (create, kill, top); calls everything below |
| Control blocks (`OSPcb`, `OSPcbManager`) | array of blocks, created flags, free list, counter | `getFreePCB`, `returnPCB`, `getPCB`, setters | kernel, scheduler, semaphores (mutual pointers) |
| Scheduler (`src/os/scheduler`) | current process, ready FIFO, waiting list, idle process | `sched`, `caculateDelay`, `toSwapOutCurr`, list operations | kernel; writes the blocks |
| Semaphores (`OSSem`, `OSSemManager`) | counters, queue, pool | `wait`, `signal`, `removeWaiting`, `getFreeSem`, `returnSem` | kernel, scheduler (time-outs); writes the blocks |
| Interrupt controller (`src/device/interrupter`), timer | registers `mIrr`, `mIsr`, `mIrq`, `mIntNum` | `setIntReq` (timer's thread), `hasIrq`, `respondInt` (processor's thread) | no lock |
| Processor (`src/device/processor`) | registers | `exec`: fetch, interpret, `handleIrq`; `saveContext`, `reloadContext` | kernel, memory, interrupt controller |
| Memory (`src/device/memory`) | frames, page table with its LRU list, a page table per process | `allocProcess`, `freeProcess`, `alloc/freeSystemMemory`, `pageFault`, `schedule`, `usedPage`, reads and writes | kernel (loading), processor (every access), swap space |
| Swap space and files (`src/device/fs`) | swap bitmap and counter, swap file; host files | `allocSwapPage`, `clearSwapPage`, `dumpPageIntoSwap`, `loadPageIntoMemory`; file operations | memory, shell, loader |
| Compiler (`src/os/compiler`) | one object `FASM`: lexer, tables of instructions, functions, labels, variables, strings and kernel calls, the instructions written, and pointers that outlive a call | `Exec`: `LoadSourceFile`, two passes over the source, `BuildFSE` | called by the shell; its file is what `loadExecFile` reads and the processor executes |
| Shell, booter, configuration, printer, voicer | (terminal) | commands, boot and shutdown sequences | kernel, files |

There are three threads: the timer's (`Timer::exec`), the processor's
(`OSCore::start`, then `Processor::exec` for ever) and the shell's (`main`). The
processor's thread polls the interrupt controller after every instruction, so a
clock interrupt is served between two instructions and never inside a kernel call
of a program. `mMtx` guards `processCreate`, `processDelete` and `processDelay`.

What is hard here, and what makes each component correct:

* **Kernel, scheduler, semaphores.** One process is at any time in up to three
  lists held by three objects, and is described by a state field that a fourth
  keeps. Blocking, waking, timing out, deletion and the end of a slice each change
  some of them. Correct: every process is in exactly one place, the state tells
  which, a semaphore's queue holds just the processes blocked on it, no unit and no
  wake-up is lost, lists are served in order, ready processes run, time limits end.
* **Pools** (blocks, semaphores). Two or three redundant records of what is free.
  Correct: they agree after any sequence of calls, failed ones included.
* **Interrupt controller.** Two threads on unlocked registers. Correct: a request
  is served, and once.
* **Memory and swap.** Replacement, swapping and frame ownership over several
  tables. Correct: no two pages share a frame, no two owners a swap page, a page
  read back holds what was written, replacement finds a page when there is one.
* **Processor.** Correct: a process resumes with the registers it had.
* **Compiler.** Two passes that must read each line alike, addresses computed in one
  place and used in another (by the loader and the processor, too), and one object for
  all compilations. Correct: the passes agree, jumps, calls, variables and texts are
  those of the source, the file is a program, and an error leaves the compiler
  as it was.

The full list, line by line, is `hazards` in `PROJECT.json`.

## 2. Modules

| Module | Models | Extends |
|---|---|---|
| `OSPcb` | `OSPcb`, `OSPcbManager`; the constants of `OS.h` | |
| `OSScheduler` | `OSScheduler` | `OSPcb` |
| `OSSem` | `OSSem`, `OSSemManager` | `OSPcb` |
| `Kernel` | the promise: what the kernel is to programs | |
| `OSCore` | the kernel: all of the actions, and the properties | `OSScheduler`, `OSSem`; instantiates `Kernel` |
| `MCOSCore` | `OSCore` for TLC | `OSCore` |
| `OSCoreProofs` | lemmas (about lists, then about the kernel's operations) and theorems about `OSCore`; then the theorem that it implements `Kernel` | `OSCore` |
| `IntController` | `IntController`, `Timer::exec`, `Processor::handleIrq` | |
| `MCIntController` | `IntController` for TLC | `IntController` |
| `IntControllerProofs` | theorems about `IntController` | `IntController` |
| `Paging` | `MMU`, `PageTable`, `PageTableItem`, `ProcessTableItem`, the swap part of `FS` | |
| `MCPaging` | `Paging` for TLC | `Paging` |
| `PagingProofs` | lemmas and theorems about `Paging` | `Paging` |
| `Machine` | the instructions and contexts of `Processor`, and what `loadExecFile` prepares, as operators | |
| `Processor` | `Processor::exec` and the part of the kernel that switches contexts | `Machine` |
| `VirtualCpus` | the promise: a processor for every process | `Machine` |
| `Outlines` | what can be told of a program without executing it: that it keeps to its stack, to its variables and to its code | `Machine` |
| `MCProcessor` | `Processor` for TLC: four small programs and the idle one, and outlines of them | `Processor`, `Outlines` |
| `ProcessorProofs` | lemmas and theorems about `Processor` | `Processor` |
| `OutlineProofs` | theorems about `Processor` when all programs have outlines | `Outlines`, `ProcessorProofs` |
| `FasmTables` | the tables of the assembler, its instruction table, tokens and error codes | |
| `FseFile` | the executable file: how `BuildFSE` writes it and `loadExecFile` reads it | `FasmTables` |
| `Fasm` | the assembler: a call of `Exec`, line by line, and the properties | `FseFile`; instantiates `Machine` |
| `MCFasm` | `Fasm` for TLC: the sources of the repository and others, and outlines of the shipped programs | `Fasm`; instantiates `Outlines` |
| `FasmProofs` | lemmas and theorems about the two passes and the types of `Fasm` | `Fasm` |
| `FasmTablesProofs` | theorems about the operands that `Fasm` writes | `FasmProofs` |
| `FasmFileProofs` | theorems about the file that `Fasm` writes | `FasmTablesProofs` |

### The kernel

`OSPcb`, `OSScheduler` and `OSSem` hold the state of one class each and one
operator per method, with the method's name. `OSCore` composes them: a call of the
kernel is one action, which makes every change the call makes, in the code's order.
A call whose outcomes differ (a unit there or not, somebody waiting or not) has one
action per outcome, and a call that is refused changes nothing and has none.

| Code | Actions |
|---|---|
| `OSCore::start` | `Start` |
| `processCreate` with `loadExecFile` | `ProcessCreate`, `ProcessCreateFails` |
| `processDelete`, `processQuit` | `DeleteCurrent`, `DeleteReady`, `DeleteWaiting` |
| `processDelay` (Pause) | `ProcessDelay` |
| `semCreate`, `semDelete`, `semAccept` | `SemCreate`, `SemDelete`, `SemAccept` |
| `semPend` | `SemTake`, `SemWait` |
| `semPost` | `SemRelease`, `SemWake` |
| `timeTick` (clock interrupt) | `TimeTick`, then `SkipOrCount` or `Expire` for each entry of the waiting list, then `EndTick` |

A process is its pid; `mPcbs` is the function `pcb`, and the lists are sequences of
pids. The variable `tick` is the iterator of `caculateDelay`. The macros
`PROC_STATE_WAITING_ANY` and `PROC_STATE_SUSPEND_ANY` are modelled as the compiler
expands them (`st & A | B`), which is why an expired Pause ends in
`SWAPPED_READY`.

Abstracted: names, priorities and statistics (written, never read by the kernel);
the memory image and saved registers of a process; `processCreate` either loads or
is rejected. The idle program is taken to load at boot, as it does when `IDLE.FSE`
is on the disk, and its instructions only count free cycles. Undefined or
unchecked inputs are explicit: the counters of a semaphore never created have any
value of `Counts` (its constructor does not set them), and the constant `Unguarded`
names the calls that the kernel accepts and cannot carry out (delete the idle
process, delete a process whose Pause has expired, use a free semaphore, create one
with a counter above its largest). With `Unguarded = {}` programs and the shell
make only the calls that the kernel handles; `core_expired` adds one.

Two restrictions of the environment are not choices of a constant. Calls of the
shell come between the instructions of the processor's thread, though
only three of the calls take the lock (`hazards`). And no deletion comes before
`start`: `processDelete` would read through the NULL `mPcbCurr`.

`Kernel` is the abstract specification. A process is ready, has the CPU, has paused,
or waits for one semaphore; a semaphore is a number of units and a largest number;
there are no lists, blocks, slices, delays or ticks. Who comes first, when
a slice or a limit ends and who is woken are left open: the orders are
properties of their own (`ReadyInOrder`, `WakeInOrder`). `OSCore` maps to it by
`Paused` (in the waiting list and in no queue), `Waiters` (a queue as a set), `Open`,
`Units` and `Largest` (0 for a semaphore that is free, whatever its fields still hold).
A failed load, a tick that ends no slice, and the steps of a tick that only count map to
stuttering; a slice that ends is `Yield`.

### The interrupt controller

A step is one access to a field shared by two threads, since the build
(`CMAKE_BUILD_TYPE DEBUG`) does each with a load or a store of its own: `mIrr |= x`
is a load and a store. Memory is taken to be sequentially consistent. Registers are
sets of lines. `mIntNum` starts with any value, as `init` does not set it. Nothing
in the program calls `setIM`, so interrupts are never masked. `written` is a
history variable: has a device written since the processor last began to respond?

### The memory

The state of the memory is one record, `mmu`, so that a method is an operator from a
memory to the next one and operators compose as the methods call one another; an
action is a call of the program, or one page of a call that goes through several.

| Code | Definition |
|---|---|
| `allocProcess`, up to the allocation | `AllocProcess`, which leaves in `todo` the pages to allocate and to copy |
| `allocUserMemory` | `CountFrames` (of the unused ones), then `AllocPage` for each page |
| the copy of the code, per page | `CopyPage`; `CopyLost` when `getPhysicalPointer` gives NULL |
| `ProcessTableItem::write`, per page | `Write` |
| `readByte`, `readHalfWord`, `readWord` | `ReadHit`, `ReadFault` |
| `pageFault`, `insertPage`, `schedule`, `usedPage`, `updateAll`, `swapOutMemory` | operators of the same names |

| Field of `mmu` | Code |
|---|---|
| `pti` | the items of the processes' own tables: frame, swap page, swapped, in memory |
| `table`, `item` | `mPageTableMap`; the page and pid of each global item |
| `used` | `mUsed`, the items in use |
| `lru` | `mLRUStackHead` and the links `pre` and `next` of the global items |
| `frames`, `swap` | the contents of the frames and of the swap file |
| `swapAlloced` | `mSwapAllocPage`, which the bitmaps follow |

A page is one cell that holds a version of somebody's data, or `Clean` (filled with
zeros, or the rubbish of a new page). Global items and frames are numbered alike:
an item gets its frame when it is made and keeps it. `written` is a history variable,
what was last stored for each page. Reading starts an access again after a fault;
an access fails, and changes nothing, when no page can be replaced, so it
has no action then. `fresh` is the number of unused frames that `allocUserMemory` has counted and
not taken yet: it takes them whether or not a fault has done so since. If one has,
`getNeedAllocFrame` gives NULL, which is used unchecked (`mmu.cpp:319-320`) and ends the simulator;
`AllocPage` has no step then.

The shell's thread loads a process while the processor's thread reads and writes
the pages of others. `ReadHit`, `ReadFault` and `Write` come between the pages of
a loading, and may replace those that are not copied yet; the process that is being
loaded makes none, as it is not in the ready list before.

Three restrictions. A pid is created once. The free list of pids is a FIFO and nothing
frees a process table, so a pid that comes back finds the table of its predecessor:
`mProcessTable.insert` changes nothing, and its pages are "in memory" in frames long
given away. What its process should find there no text says (`hazards`). Accesses do
not come between the pointer that `getPhysicalPointer` gives for a page and the copy
into it; two unlocked threads could do that too. Reads and writes stay inside one page, as
aligned ones do. And code and stack fit: `StackPageCount + CodePages <= PageCount`.

### The processor

`OSCore` says who gets the CPU; `Processor` says what happens to the registers then.
It executes programs. A machine (module `Machine`) is the registers with the stack of
the process that has them, an instruction is an operator from a machine to a machine,
and a step of `Processor` is one instruction with the kernel call it makes, or one
interrupt, which comes after any instruction or before the first.

| Code | Definition |
|---|---|
| `fetchIstr`, `interprete` for Mov to Iret | `Execute`, with `Executed` |
| `handleApiCall` and the `api_*` functions | `CallKernel`, `CallWakes`, `CallCreates`, `CallDeletes`, `CallDeletesSelf`, `CallWaits`; what they pop and return is `Called` |
| Quit, Pause | `Quit`, `Pause` |
| `callIntService` | `Interrupt` |
| `saveContext`, `reloadContext` | `SaveContext`, `ReloadContext`; `SwitchFrom`, `Dispatch` |
| `loadExecFile` | `Loaded`, `Load` |
| `processCreate`, `processDelete` from the shell | `ShellCreate`, `ShellKill` |

| Variable | Code |
|---|---|
| `cpu` | `mPC`, `mBP`, `mSP`, `mReg`; `mCS`, `mDS`, `mFS`, `mAS` |
| `curr` | `mPcbCurr` of the scheduler |
| `mem`, `stackTop` | the stack part of each process's memory, and the stack top in its block |
| `alive`, `blocked` | created flags, waiting list |
| `prog` | the code and the tables in the low part of the process's memory |
| `frames` | history: of each call that has not returned, BP, SP and PC before it, SP after it |

The stack is words, the first one at the highest address; `Machine` says which address
a position stands for. `Ret` reads the size of the caller's frame as the code
does, from an address that is not a word's: three bytes of one word and one of the next.

Abstracted: the scheduler and the semaphores are a choice, so that the properties
hold under any scheduler (which lists there are, and in what order, is `OSCore`'s); the
results of kernel calls are those in `Results`, and a name in the table of
calls is the operand itself. Frames of the memory are `Paging`'s: here a stack keeps
what is written. All stacks have the same size. What a process leaves behind in
its memory when it ends is forgotten, as nothing reads it before it is overwritten.

Restrictions: programs are those the compiler lets pass (`WellFormed`), with array
indices that are multiples of 4, and stay in their code; they do not divide by 0, which
ends the simulator; numbers do not overflow; the idle process is the one on the disk,
which neither waits nor ends, and nobody kills it (nothing prevents `kill 1`: see the
list of disagreements at the end of section 3). The shell
does not kill the process that is executing (`hazards`). The constant `SelfDelete` says
whether a process may end itself by PROCESSDELETE also when this changes a
register of the next one; if FALSE, it does only when there is a 0 in it already.

`VirtualCpus` is the abstract specification. There every process has a machine of its
own, of which only what it can see is kept, and each step changes the machine
of one process by one of its instructions. Interrupts, contexts, SP of a
process that does not run, and the CPU itself do not exist. `Processor` maps to it by
`MachineOf`: the registers of the current process are in the CPU, those of the others
in the ten words on top of their stacks.

### The assembler

The shell compiles a file by calling `Exec` of the one object `FASM` that there is. A
step of `Fasm` is one line in one of the two passes, or one of the steps around them.

| Code | Actions |
|---|---|
| `Exec` with `Init`, `LoadSourceFile` | `Exec`; `SourceMissing`; `LookupOverflows` (no room in the lookup table) and `LoadOverruns` (a line never written), when they end the simulator |
| `AssmblSourceFile`, first pass, by the first token of a line | `SetStackSize`, `DefineString`, `DefineInt`, `BeginFunction`, `EndFunction`, `CountInstr`, `DefineLabel`, `SkipBlank`, `InvalidInput` |
| between the passes | `AllocateStream` |
| second pass | `WriteInstr`, `EnterFunction`, `LeaveFunction`, `SkipOther`; `EndSecondPass` |
| `BuildFSE`, `ShutDown` | `BuildFSE`, `BuildFails` |
| `ExitOnError`, `ExitOnCodeError`, `Exit` | `ExitOnError`, a part of the actions above |

| Variable | Code |
|---|---|
| `phase` | where in `Exec`; `"aborted"` once the simulator has ended: memory freed or written to after it was freed, or that is not the assembler's |
| `source`, `sourceSize`, `line` | `g_ppstrSourceCode`, `g_iSourceCodeSize`, `iCurrSourceLine` |
| `scope`, `header` | the locals of the first pass about the current function; `g_ScriptHeader` |
| `streamSize`, `stream` | `g_iInstrStreamSize`, and what is written of `g_pInstrStream` |
| `tables` | the linked lists, as sequences of nodes |
| `heap` | whether the pointers to the source and the stream are NULL, live, or dangle |

A line is the sequence of its tokens (`GetNextToken`); characters and the lexer's states
are not modelled. A text has a length, which the layout of strings depends on and which is
not 0, as a lexeme has a character at least (between two quotes with nothing in between there
is no token STRING); and a register is one of the four that the lexer knows. An
error has an operator that says which one a line gives (`DefineIntError` ..., in the
order of the code's tests); the action goes on only with `"NO_ERR"`.

Undefined values are constants: `Residue` is what memory from `malloc` may hold, line
by line (`LoadSourceFile` counts a line too many for a file that ends in a newline, and
never resets the count, so that lines are read that were never written); `Junk` is
what a variable holds that nobody has set (`iCurrFuncIndex` before the first function,
the size of a function until it ends, the value of a string without its second quote). A double free,
a write before the lookup table and `StripComments` on a line never written may each end
the simulator or go unnoticed; both are possible steps. `Files`
says which files the n-th call may find and, by its length, bounds the calls.

`FseFile` is a file as a sequence of fields with their sizes, written as `BuildFSE` does,
and read by byte as `loadExecFile` does; what the kernel gets from it is a program for
`Machine`, in whose terms `Loadable` and `Shipped` are stated. So the three components
that must agree on the format are compared: assembler, loader, processor.

## 3. Runs

Deadlock is checked in all but `fasm` and `fasm_survives`, whose shell makes no more
calls after the last one, or is gone.

| Run | Instance | Distinct states | Result |
|---|---|---|---|
| `core` | 4 blocks (idle and 3 processes), 2 semaphores, slice 2, delays {0, 2}, counters {0, 1} | 1,110,300 | all eleven properties hold |
| `core_live` | 4 blocks, 1 semaphore, slice 2, delays {0, 2}, counters {0, 1}, fairness | 109,458 | `PromiseKept`, `ReadyRuns`, `TimedWaitEnds` hold |
| `core_expired` | 3 blocks, 1 semaphore | | `TerminatedLeaves` violated |
| `interrupt` | the timer on line 0, fairness | 360 | `TypeOK`, `NoEcho`, `RequestServed` hold |
| `paging` | 2 processes of 2 pages (1 of code, 1 of stack), 1 frame of the system and 2 others, 3 swap pages, 1 version | 570,489 | all five properties hold |
| `paging_schedule` | the same | | `ScheduleFinds` violated |
| `paging_leak` | the same | | `NoLeak` violated |
| `processor` | the idle process and 2 others, stacks of 18 words, programs `Worker` and `Creator` | 93,866 | all nine properties hold |
| `processor_frame` | the same with program `Caller` | | `FrameRestored` violated |
| `processor_result` | the same with programs `Leaver`, `Creator`, `SelfDelete` | | `OwnResult` violated |
| `fasm` | 43 sources, then 6 on the same object, then one that finds no room in the lookup table | 33,664 | all nine properties hold |
| `fasm_survives` | a source with an error, then a file that is not there | | `Survives` violated |

No counter is bounded by a guard: the constants make the state spaces finite.

*Why the bounds are enough.* Three processes besides the idle one are the fewest
with which a list has a middle: one leaves from between two others (time-out,
deletion, wake-up) while the iterator of a tick stands on it, before it or behind
it. With two semaphores a pointer to the wrong one is possible, and one can be
free and recreated while the other has waiters. Delay 2 and slice 2 are the fewest
that are counted down without expiring at once; 0 is the special value. Counter 1
reaches its largest value, and 0 is the empty semaphore. The pool of four blocks is
exhausted and its free list goes round. In `paging` four pages compete for two
frames, so that both frames change hands; with three swap pages a page
is swapped out, loaded again and read while another goes the same way, and the fourth
finds the swap space full (with two, no page would ever come back before one is
dropped, and `Transparent` would say little). Instances with 4 frames (3.4 million
states) and with two versions (1.6 million), on a swap of two pages, and with a third page
for each process, which no loading allocates and only a fault brings (1.8 million states, a
swap of one page), gave no error either. In the run itself no page is left for a fault to bring
in between the count of the frames and their use; with a third page and 4 frames there is one, and
`AllocPage` is then stopped as above. In `processor` 18 words are room for the deepest calls of `Worker` (a main
function that calls a function that calls another one with a local variable), a
context and a global variable, with no word to spare. Two processes besides the
idle one are enough for each to be interrupted, waiting, or saved with any
registers while the other executes any instruction, ends, or is created with
the same pid again. In `fasm` the first call finds one of the three sources in `src/fasm/src`, one (`Rich`)
that uses what these do not (the same names in two functions and outside, arrays, a
label at the end of a function, a text twice, a brace on the line of the function, a function
after the main one), two accepted ones with something missing, and one source for
each error that a line can give; a source of the repository also with a newline at its
end. The second call is on what the first has left, whether it failed or not. A third one finds the lookup
table full: it holds `MAX_INSTR_LOOKUP_COUNT` instructions, 256 in the code,
that each call enters anew (the code's 17, so that it takes a 16th call there, and
with 40 a third one here). `SetOpType` then writes through a pointer that it reads from before
the table; this ends the simulator or hits nothing, and both happen in the run: a third call goes on with the
instructions that the calls before it have entered. Lengths do not matter: each property relates a line to lines before it.
Proved results (section 4) do not depend on these bounds.

*What `core` shows.* `OnePlace`, `StateTells`, `QueuesAgree`, `PointersAgree`,
`PoolAccounted`, `SemPoolAccounted` relate the redundant records of one fact to one
another, after every step, those in the middle of a tick included.
`NoUnitWhileWaiting` says that units and waiters do not coexist. `ReadyInOrder`,
`WakeInOrder` and `IdleLast` are action properties: round robin, FIFO semaphores
except for those who time out or die, idle only when nothing is ready.

*What `core_live` shows.* `PromiseKept` is the refinement of `Kernel`: in every
interleaving of calls and ticks each step is one that the abstract kernel makes, or
nothing. A woken process that stays blocked, a unit both counted and handed over, a
deleted process that is scheduled or one that skips a wait are no such steps.
`ReadyRuns` and `TimedWaitEnds` are the liveness that `Kernel` leaves open.

*What `paging` shows.* `MapTells` relates the three records of where a page is. It
makes a frame the property of one page of the page table. `SwapOwned` does
it for swap pages. `HostedStay` says that replacement never takes a frame of the
system, whatever has become of the LRU links. `Transparent` compares what each page
holds with what was last stored in it. It is conditional: once a page has been
`Dropped` (its frame given away without saving it, because it had been swapped out
before or because the swap space was full) the code keeps no such promise, and
`paging_leak` shows what happens.

*What `processor` shows.* `OwnProcessor` is the refinement: `Processor` implements
`VirtualCpus`, so that no process can tell that it shares the CPU. `Unnoticed` says
directly that an interrupt, and the steps of others, leave what a process can see
as it was, at every point at which one may come. `StackRestored` follows calls over all the
switches in between: a function returns with the stack and to the place of its
call. `WithinStack` says that a context always finds room, `ReadsOwn` that no instruction
reads what lies below the pointer of its stack (where the simulator leaves contexts
behind, and where the promise of `VirtualCpus` keeps nothing), `KeepsFrames` that a program leaves
the frames of its functions alone (pops none of their words, stores nothing in the first
and the last, returns with just the frame on the stack), `WithinCode` that it executes
nothing but its code (nothing in the processor ends a process whose PC runs out of it), and
`OwnSegments` that tables are looked up in one's own program. Mutants of the code (registers reloaded in
the wrong order, a context that stays on the stack, an interrupt that does not save)
break each of them. When the run starts TLC also evaluates the assumption `ProgramsOutlined`: all
of its programs have outlines. So the theorems of `OutlineProofs` apply to them.

*What `fasm` shows.* `StreamFits`: the two passes agree, so the instructions
written fit the memory allocated for them. `TargetsFollow` and `OwnVariables` compare the operands written
with a reference that looks at the source alone: a jump leads to what follows
its label, a call to the function, a variable is the one a reader of the source would
take. `Disjoint` says that variables do not overlap and lie in the data or the frame whose
sizes the file states. `TextsFound` follows texts through the file into memory. `Loadable`
says that what the kernel loads is a program that `Processor` takes for granted
(`WellFormed`), whose functions keep to themselves. `Shipped` compares with the
files in `src/fasm/bin`; of the programs in them the assumption `ShippedOutlined` says that they
have outlines, on stacks of the size in `src/config.json`. `Returns`: neither pass stays on a line for ever. All of them hold also on an
object that an earlier call has left in any state.

*Fairness.* `FairSpec` assumes that the processor's thread starts and that a clock
interrupt is served whenever there may be one, to its end: the timer sets the request
for ever, the processor's thread never blocks, and `RequestServed` (run `interrupt`)
shows that requests go on being served despite the races. Nothing is assumed of
programs or of the shell: they may stop calling the kernel, or call it without end
between two ticks (not for ever: `WF_vars(Tick)`). `IntController`'s fairness is
that both threads run for ever, and `Fasm`'s that the shell's thread, which waits for
nothing in `Exec`, goes on with a call once it has made it.

*Violation runs.* Each contradicts a sentence of the repository, quoted in
`findings`: a deleted process stays in the ready list after an expired Pause
(`OS.h:39`); replacement fails for ever after two accesses to one page
(`page_table.cpp:122`); a page replaced twice shows another process's data
(`mmu.cpp:408`); a function that returns leaves BP wrong in a caller with local
variables (`processor.cpp:292`, `processor.h:40`); a process that deletes itself
overwrites register 1 of the next one (`processor.h:45`); an error does not end the
assembler, which then frees again what it has freed (`compiler.cpp:1440`).

*Disagreements that no run shows*, since the model reaches them by a constant that the
runs do not set, does not reach them, or no property is about them:

* The idle process can be killed (`"KillIdle"` in `Unguarded`): its pid is 1, and the test
  for it compares with `PID_IDLE`, 0 (`OS.h:58,70`).
* `mIrq` can be off with a request pending (`interrupter.h:9`), between the test of
  `mIrr` and the store after it; `RequestServed` shows that the request is served all
  the same.
* A file that ends with a newline has one line more than `fgets` reads. If the memory
  allocated for it begins with a null character, `StripComments` runs from there to the next
  semicolon or out of the memory, since the length less 1 is the largest number
  (`compiler.cpp:206`): `LoadOverruns`. Otherwise the line is what the memory holds, or a
  blank one (`Residue`).
* The assembler accepts a source whose last function does not end (`Unended`), a
  string without its second quote (`compiler.cpp:1547`) and a program without a main function,
  whose file then says that function number rubbish is the main one; and it refuses
  every variable as array index (the test at 914 compares a size in bytes, 4, with 1).
* In the shell, `mvDir` copies a directory without its contents and then removes both,
  `mvFile` removes the source even if the copy has failed, and `watch` notes the end of the file
  before it reads on to it, so that lines may be shown twice.

## 4. Proofs

`OSCoreProofs` proves, for every value of `MaxTasks`, `MaxSem`, `TicksPerSched`,
`Delays` and `Counts` that satisfies the assumptions of the modules, and under
`SoundDeletions` (neither `KillIdle` nor `KillExpired` is in `Unguarded`; the two
misuses of semaphores are allowed):

* `TypeCorrect`: `Spec => []TypeOK`
* `OnePlaceHolds`: `Spec => []OnePlace`
* `PoolAccountedHolds`: `Spec => []PoolAccounted`
* `StateTellsHolds`: `Spec => []StateTells`
* `QueuesAgreeHolds`, `PointersAgreeHolds`: `Spec => []QueuesAgree`, `Spec => []PointersAgree`
* `IdleLastHolds`, `ReadyInOrderHolds`, `WakeInOrderHolds`: `Spec => P` for each of these
  action properties

None of these is inductive alone. That a deleted process is in no list needs the
state to tell which list to look in; that the state tells needs the queues to
agree, since `semPost` moves whoever heads a queue; that the queues agree needs the
processes blocked to be pairwise distinct. `StructureInv` is their conjunction with
the typing, and `StructureHolds` proves it: the initial state satisfies it, and there
is one lemma per action. The actions share lemmas about their parts: `SchedResult`
(what `sched` leaves), the lemmas on a block put into a list or taken out of it, on
a queue that gains or loses a process, and on the pool. The module begins with what
these need of sequences: removal, appending, ranges and injectivity.
The assumption is needed: `core_expired` shows what happens without it. Of
the action properties, `IdleLast` holds as only steps that end in `sched` give the CPU away
(`SchedChoosesReady`). For the orders, the module defines `KeepsOrder(q, r)`
and proves it of appending, popping and erasing, all from one lemma: a list drawn
from increasing places of another, with what is new behind (`Drawn`).

The last part of the module proves that `OSCore` implements `Kernel`, for the same generality and
under `SoundCalls` (`Unguarded = {}`: programs and the shell make only calls that the
kernel can carry out):

* `NoUnitWhileWaitingHolds`, `SemPoolAccountedHolds`: `Spec => []P` for each
* `PromiseHolds`: `Spec => PromiseKept`

The invariant, `KernelInv`, is `StructureInv` with these two properties. They need it:
that a waiter who times out leaves a counter of 0 behind rests on the queues being what
the pointers say. `SoundCalls` is needed too, as a free semaphore has any counter. For the
refinement each action of `OSCore` has a lemma that names the action of `Kernel` that it is
(`StartBoots`, `CreateBegins`, `DeleteEndsCurrent`, `DelayPauses`, `TakesUnit`,
`ReleasePuts`, `CreateOpens`, `DeleteCloses`, `WaitWaits`, `WakeHands`,
`ExpireTimesOut`, `TickYields` ...); they share `PlacesAre`, that the places of a process
in `Kernel` are told by the lists and the state, and `Dispatches`, that `sched` is
`Dispatch`. `InitMaps` and `StepMaps` put them together.

`IntControllerProofs` proves `TypeCorrect` for any devices: what is marked as in service is a
device's line or line 0, since once something is, `mIntNum` is among it (`InServiceInv`). And it
proves, on a machine whose only device is the timer, `NoEchoHolds`: `Spec => []NoEcho`. (With a second
device this is false, as TLC shows: a number that stays in service keeps the other request from
being taken out, which is then found again.) The invariant says that as long as no
device writes, the one request found is taken out of the register, which is
then found empty, and `mIrq` is off when the processor polls again.

`PagingProofs` proves, for every value of the constants that satisfies the module's
assumptions and nothing else, `Spec => []P` for each `P` that `paging` checks
(`TypeCorrect`, `MapTellsHolds`, `SwapOwnedHolds`, `HostedStayHolds`,
`TransparentHolds`). The invariant, `PagingInv`, is

* `Good(mmu)`: the memory has its type (`Memories`); the tables agree (`Agrees`);
  swap pages have one owner (`Owned`); and frames (`Framed`): a page in memory is
  in a frame in use that is not the system's and is not swapped out, and pages have
  swap pages only when all of the frames are used. The last part is needed because
  a new frame must not be one that a dropped page still points to.
* `TodoInv`: what is left of a loading is pages of a known process, none allocated
  twice and no copy before an allocation (`Block` is a part of it, `BlockConcat` puts parts together). Without it `AllocPage` could
  insert a page that is in the table already.
* `Contents`: `Transparent`, with the typing of the history.

Operators take a memory to a memory, so there is one lemma for each operator rather
than for each action (`AccessKeepsTodo` says that accesses leave a loading in
progress as it is): `EvictGood`, `AssignGood`, `ScheduleGood`, `InsertPageGood`,
`PageFaultGood`, `UsePageGood`, `StoreGood`. In the middle of `schedule` the item
that changes hands is nobody's; `GoodBut(M, i)` is the invariant with that
exception. `Brought(M, N, k)` is what all of them have in common: `N` is good, no
page but `k` comes into memory, and unless a page is dropped every page holds
what it held. Nothing is said of the LRU links but their type: that the properties
hold with broken links is part of the result.

`ProcessorProofs` proves, for all well-formed programs, sizes of stacks and sets of
processes:

* `TypeCorrect`: `Spec => []TypeOK`, whatever programs do to their stacks
* `OwnSegmentsHolds`: `Spec /\ []WithinStack => []OwnSegments`
* `UnnoticedHolds`: `Spec /\ []WithinStack => Unnoticed`, unless `SelfDelete`
* `OwnProcessorHolds`: `Spec /\ []WithinStack /\ []ReadsOwn => OwnProcessor`, unless `SelfDelete`
* `StackRestoredHolds`: `Spec /\ []WithinStack /\ []KeepsFrames => StackRestored`

How deep a program recurses and how much it pushes is the program's own, and nothing
in the processor stops it, so `WithinStack` is an assumption here; `OutlineProofs` proves
it of programs that can be seen to keep to their stacks. The central lemma is `ReloadSaved`: `ReloadContext` gives back
exactly what `SaveContext` has put on a stack that has room for it, the words
below included. `MachineIs` reduces the machine of a process to
the CPU or to its context; `Stays` and `Switched` say what becomes of it when
the CPU changes hands, and each action is an instance of one of them
(`Others`, `InterruptUnnoticed`). `OwnSegments` is not inductive, since it speaks of the CPU
only: `AllSegments` says it of every process's machine, and is kept by
`CurrentSegments`, `NewSegments` and `Others`.

The refinement needs one more fact: `VirtualCpus` keeps of a stack only the words above its
pointer, so what an instruction does must not depend on the others. `Agree` and
`AgreeInterpreted` prove that two machines that agree on the words an instruction reads
(`InstrReads`, an operator of `Machine`) and on the registers agree after it. A program
that reads below its pointer could see a context that an interrupt has left there,
and there the promise would be broken: that a program does not is its own
(`ReadsOwn`), like the depth of its stack. `Live`
and `Sees` say what of a machine counts, there is one lemma for each action of `Processor`
that names the action of `VirtualCpus` that it is, and `VirtualInit` and `VirtualStep` put them
together. `SelfDelete` is excluded as `processor_result` shows what it breaks.

That functions return rests on `FramesInv`: on the stack of every process that exists,
whether it has the CPU or waits with its context on top, the frames of all of its calls
(`Kept`) lie one behind the other, each with the place to return to in its first word
and its size in the last. All frames are in the invariant, not the last one alone, as
`RET` uncovers the one below. `KeptUnder` says that what happens above the last frame
disturbs none, `KeptFront` and `KeptAppend` are return and call, and `KeptExecuted` is
any other instruction; `Others` gives what context switches leave alone. The simulator
does not stop a program that pops its own frame or overwrites it, so `KeepsFrames` is
assumed here: it is about the next instruction only.
Nothing is assumed of `SelfDelete`, which spoils a register and no frame.

`OutlineProofs` proves what the theorems above assume, of every execution in which all
programs have outlines (`AllHaveOutlines`), whatever the other processes do, wherever
they are interrupted, and also with `SelfDelete`:

* `WithinStackHolds`, `ReadsOwnHolds`, `KeepsFramesHolds`, `WithinCodeHolds`: `Spec => []P` for each
* `OwnSegmentsOutlined`, `StackRestoredOutlined`: `Spec => []OwnSegments`, `Spec => StackRestored`
* `UnnoticedOutlined`, `OwnProcessorOutlined`: `Spec => Unnoticed`, `Spec => OwnProcessor`,
  unless `SelfDelete`

The last four are the theorems of `ProcessorProofs` with nothing assumed of executions any more.

An outline says of each instruction that can be reached in which function it is, how many words
the function then has on the stack, and whether BP is known to be at its frame; and of
each function how many words it takes with all that it calls (`room`). `Outlines` asks only
that neighbouring lines fit: it looks at the program and executes nothing. After a call BP is
unknown, as `RET` leaves it wrong (`processor_frame`), so a program with an outline uses no local
variable between a call and the end of its function. What has no outline is a program that
recurses, that indexes an array by a variable, that has the same place reached with different numbers
of words on the stack, that returns from its main function, or that goes on behind its last
instruction. These are limits of outlines, not all of them errors. The hypothesis holds where it should:
TLC evaluates that the programs of `processor` have outlines (`ProgramsOutlined`, which `Worker`
needs all of its stack for), and that the three programs shipped with the simulator have (`ShippedOutlined`).

The invariant is `OutlinesKept`: types; `FramesInv`; and `AllOutlined`, that every process, whether it
has the CPU or not, stands at a line of its outline, SP and BP being where the line says, and so
does each of the callers in `frames`, at the line that it will return to. The callers are needed since
`RET` takes PC and SP from the stack, so that they say what `FramesInv` says lies there; and `FramesInv` needs the
outline to know that the next instruction leaves the frames alone. Neither is inductive without
the other. `StandsWithin` gives room for a context from the line (what is under the function, and
`room`), `OutlinedOwn` is an instruction within the function, `OutlinedCall` and `OutlinedRet` are those that
change it, `OutlinedCalled`, `OutlinedPause` and `OutlinedLoaded` the kernel's; `OwnPlace` and `FramesApart` say
that variables lie neither in a first nor in a last word of a frame. `OutlinesAlways` puts them together.

`FasmProofs` proves, for every set of lines, every source made of them, every
sequence of calls and whatever lines lie at the end of what is loaded:

* `StreamFitsHolds`: `Spec => []StreamFits`
* `TypeCorrect`: `Spec => []TypeOK`

`StreamFits` compares two numbers that are found at different times, by two passes
that look at different tokens: the first counts an instruction for each `Func` line,
the second writes one for each `}`. So the invariant, `PassInv`, is about counts over
the source: `FirstCounts` ties `streamSize` to the lines that have been read, and
keeps, line by line, what the first pass has found out about the nesting
(`WellPlaced`); `SecondWrites` ties `Len(stream)` to the lines read again, and needs
`WellPlaced` of the lines to come, since the second pass checks nothing. Both passes
skip the lines between a function's name and its brace, so `WellPlaced` says where that
brace is and that no line is skipped that counts. `FirstReads` and `SecondReads` are
the step of either pass, and each line action is an instance of one of them.

`TypeCorrect` needs of the passes that what is looked up is found: an
instruction written has the operands of its kind because the first pass has refused lines
that have others. So `RestTyped`, about the lines that are left, is in its invariant.

`FasmTablesProofs` proves, for the same generality:

* `TargetsFollowHolds`: `Spec => []TargetsFollow`
* `OwnVariablesHolds`: `Spec => []OwnVariables`
* `DisjointHolds`: `Spec => []Disjoint`

The properties look at what is written when the second pass has ended, and compare with the source;
the tables are the link between the two. `TablesInv` says, line by line and in
either pass, what each table tells of the lines that have been read: a function's
entry is the number of instructions before it (`FuncsTell`), a label's target the
same for its line, in its function (`LabelsTell`), a symbol's place and scope are those of
its declaration (`SymbolsTell`), the sizes of the data and of the frames are the sums of the
declarations so far and each variable lies between two of these sums (`Storage`),
`scope` and `header` speak of the function that the line is in (`ScopeTells`); and
of each instruction already written, that its operands are those of its line
(`Follow`, `UseOwn`). It rests on `PassInv`: a number of instructions is a place in the
stream only because the passes agree. `OperandsAre` and `OperandNumberIs` tie the operands of
an instruction to the tokens of its line, `SymbolMeant` the symbol found to the
declaration that the source means. `TablesHold` is the invariance of all
of it together.

`FasmFileProofs` proves, for the same generality and texts of any lengths:

* `TextsFoundHolds`: `Spec => []TextsFound`
* `LoadableHolds`: `Spec => []Loadable`

The first part is about the format alone. `FileRead` says, for any header, code and tables,
what `loadExecFile` finds in a file that `BuildFSE` has written: a field is found at the
byte that is the sum of the fields before it (`ReadsField`, for fields of one byte at least), the
code has fields of 32 bytes if no instruction takes more, and a table of strings is
walked from length to length through the places that `AddString` has computed
(`ListPlaced`, `TextsRead`), so the tables behind it are found too. The second part says what
the assembler has put there. `FileInv` keeps, line by line, that a string has a place in the
table (`StringsTold`) and so has the name of a kernel call, although tables grow
(`StringAdded`: no string is moved by another); that functions that have ended have a size
(`SizesTold`); that `iMainFuncIndex` is that of the function of that name (`MainTold`); and
that each instruction written has the operands of its kinds (`Shaped`) and is that of some line.
`ShapedBytes` gives the 32 bytes from the table of instructions. That functions keep to
themselves is counted over the source, with `WellPlaced` from `PassInv`: between the brace that
ends a function and the next `Func` no line counts (`LastEnds`), so the instruction that leaves it
is the last one before the next entry (`FunctionSpans`), and labels of the function lie
between (`WithinSpan`). With the theorems of `ProcessorProofs`, which assume `WellFormed`
programs, this goes from the source to the processor.

Facts by induction (on the place in a source, on a number of steps) are proved through
least counterexamples (`Inductively`, `Iterated`, `OffsetsAre`), as the library's induction theorems
cannot be instantiated here.

Only model-checked: `Shipped`, which compares with given files, and that given programs have
outlines. That a program the assembler makes has one is not a theorem, since sources need not:
`Loadable` is what holds of all of them.
Liveness (`RequestServed`, `ReadyRuns`, `TimedWaitEnds`, `Returns`) is out of the prover's
reach: fairness and ENABLED. So would be anything computed by a RECURSIVE operator; none is
used, and recursive functions only in `FasmTables` and `FseFile`.

## 5. Not modelled

* Execution beyond the code of a program (`WithinCode` shows that programs with outlines never get
  there), division by 0 and overflow.
* Freeing memory (`freeProcess`, `freeUserMemory`, `clearPageForPid`,
  `clearSwapPage`), the heap and the allocation of system memory: only tests call them.
* The characters of a source: how `GetNextToken` splits a line into tokens, and the
  comments and spaces it strips.
* The shell's commands, the booter, printer and voicer: host I/O and terminal output.
  Its file commands wrap one call of the host each; what they get wrong (section 3) takes
  no interleaving to see. The configuration is the constants.
* Shutting down, which releases objects that the detached processor's thread still
  uses: undefined behaviour with no outcomes to enumerate.
* `initTestProc`, `enterCritical`, `intEnter`/`intExit`, `setLargest`: never called,
  or empty.

## 6. Plan

1. Done: the kernel (`OSPcb`, `OSScheduler`, `OSSem`, `OSCore`), the abstract kernel
   that it implements (`Kernel`), the interrupt controller, the memory (`Paging`), the
   processor (`Machine`, `Processor`, `VirtualCpus`) and the assembler (`FasmTables`,
   `FseFile`, `Fasm`).
2. Done: proofs of all the safety properties that the passing runs check, but `Shipped`; those of
   the processor that depend on programs, for programs with outlines (`Outlines`).
3. A pid that is created again on the table of its predecessor: a second instance of
   `Paging` for the properties that survive it (`SwapOwned`, `HostedStay`).
4. If a run is to spare: the shell's `watch`, which reads a file that the processor's
   thread appends to.
