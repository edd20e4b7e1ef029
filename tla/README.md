# TLA+ models of the DJGPP C library

DJGPP is a C library and tool chain for 32-bit programs under DOS. A program
runs in protected mode under a DPMI host, without threads and without a kernel:
signals, timers, heap, streams, descriptors and the loading of modules are built
in the library itself, with hardware interrupts that arrive between any two
instructions. The parts of that layer that keep state are what these models are
about. Paths below are relative to `src/src/libc/` unless they
begin otherwise.

Contents: 1 inventory, 2 modules, 3 runs and bounds, 4 fairness, 5 proofs,
6 where the code and its documentation part, 7 what is not modelled, 8 plan.

## 1. Inventory

| Component | State it keeps | Operations | What is hard | What makes it correct |
|---|---|---|---|---|
| Exceptions (`go32/exceptn.S`, `go32/dpmiexcp.c`, `ansi/setjmp`) | `forced`, `ds_limit`, the limit of DS, `exception_state`, frames on the stack, `___djgpp_exception_state_ptr`, `signal_list` | `hw_exception`, `exception_handler`, `__djgpp_exception_processor`, `raise`, `signal`, `setjmp`, `longjmp`, `_exit` | interrupts during exceptions, nested exceptions, `longjmp` out of handlers, DOS calls, `sbrk` changing the same descriptor | the data segment always comes back; each request is taken once; frames stay chained |
| Signal masks (`posix/signal`) | `current_mask`, `prev_handlers`, the pending set, `signal_list` | `sigprocmask`, `sigaction`, `sigpending`, `kill`, `raise` | a signal between any two statements; handlers that call the functions again | mask, saved handlers and suspenders agree; no signal is lost or delivered while blocked |
| Interval timers (`posix/signal/itimer.c`, `posix/unistd/alarm.c`) | `r_exp`, `p_exp`, `r_rel`, `p_rel`, `u_now`, the countdown, `timer_on`, vector 8, SIGTIMR's handler | `setitimer`, `getitimer`, `timer_action`, `start_timer`, `stop_timer`, the tick | the tick between statements that change several of them; the clock passing an expiry | SIGTIMR never meets its default action; an armed timer is served, neither early nor late |
| Heap (`ansi/stdlib/nmalloc.c`, `nmalcdef.h`, `nmalign.c`) | block headers, free lists, `lastsbrk` | `malloc`, `free`, `realloc`, `calloc`, `memalign`, `extendsbrk` | long call sequences, memory running out half-way, the program moving the break | blocks tile the areas, nothing leaked or handed out twice, contents survive |
| Data segment (`crt0/crt0.S`: `sbrk`, `brk`, `__exit`; `crt0/memhandl.c`, `dpmi/helper/setattr.c`, `mapmem.c`) | break, end of the last block, table of DPMI blocks, `___djgpp_selector_limit`, limits of the segments | `sbrk`, `brk`, `__djgpp_memory_handle`, `__djgpp_set_page_attributes`, `__exit` | blocks below the base or at lower addresses, a full table, addresses that wrap, brk without an increment | memory is handed out once, lies in a block and below the limit, is found by its address, and goes back at exit |
| Keyboard and Ctrl-Break (`exceptn.S`, `dpmiexcp.c`, `go32/go32cbrk.c`) | keys and masks, `___djgpp_cbrk_count`, `___djgpp_hwint_flags` | `kbd_hdlr`, `cbrk_hdlr`, `_go32_was_ctrl_break_hit`, `_go32_want_ctrl_break`, `__djgpp_set_sigint_key`, `__djgpp_set_ctrl_c` | counters read and cleared in two steps, interrupts between | keys are recognised; no press is counted twice |
| Vector toggling (`__djgpp_exception_toggle`, `_exit`) | vectors, the `_ori` variables, `cbrk_hooked`, the callback | toggle, start-up, `_exit`, start and stop of the timer | interrupts in the middle of a toggle; toggling with a timer running; exit inside a toggle | every vector is the original one when the program is gone, and leads out of the library while it runs |
| stdio (`ansi/stdio`, `dos/io/_read.c`, `_write.c`, `compat/unistd/llseek.c`) | buffer, `_ptr`, `_cnt`, `_bufsiz`, `_fillsize` and flags of each FILE; position and gap flag of the descriptor | `getc`, `putc`, `_filbuf`, `_flsbuf`, `fread`, `fwrite`, `fputs`, `fseek`, `ftell`, `rewind`, `ungetc`, `setvbuf`, `fflush`, `fopen`, `fclose` | three kinds of buffering, changing direction, a disk that fills up half-way, seeks beyond the end | each call reads, writes and reports what it would without a buffer |
| Descriptors (`dos/io/fd_props.c`, `_close.c`, `posix/fcntl/open.c`, `fcntl.c`, `posix/unistd/dup.c`, `dup2.c`, `pipe.c`) | `__fd_properties`, the active and the cached list, counts | open, close, dup, dup2, fcntl, pipe, llseek, exit | sharing by dup, reuse of numbers and objects, temporary files opened several times | properties live as long as the last descriptor, and so do temporary files |
| File system extensions (`fsext/fsext.c`, `fse_zero.c`) | table of functions and data, contexts with counts, `null_dev_fd` | alloc_fd, set_function, set_data, open, dup, fcntl, close, exit | descriptors duplicated without the extension knowing | a context lives as long as a descriptor has it |
| Dynamic loading (`dxe/dlopen.c`, `dlregsym.c`, `dlunregs.c`) | chain of modules, counts, lists of dependencies, the semi-loaded list | `dlopen`, `dlsym`, `dlclose`, `dlregsym`, `dlunregsym`, `_closeall` | dependencies that are shared or circular, failure half-way | counts are right, dependencies stay loaded, a failure leaves nothing |
| termios, process creation, start-up, globbing, pure functions, libm, debugger support, build tools | | | | see section 7 |

How they interact. The tick, keyboard, Ctrl-Break and coprocessor handlers call
`___djgpp_hw_exception`; the fault it provokes ends in `raise`, which runs what
`signal`, `sigprocmask` (its suspender) or `start_timer` (`timer_action`) put
into `signal_list`. `timer_action` raises SIGALRM and SIGPROF, which may be
blocked. `sbrk` is called by the heap and changes the limit of the descriptor
that `hw_exception` shrinks. `longjmp` restores the exception frame pointer.
stdio stands on descriptors: `fseek` and `fflush` call `llseek`, whose flag makes
the next `_write` fill the gap. `open`, `dup`, `dup2` and `fcntl` keep three
tables in step: the handles of DOS, the properties and the extensions. `exit`
runs the destructors (`_closeall`), then stdio's, the properties' and the
extensions' clean-up, then `_exit` toggles the vectors, and `__exit` frees the
blocks.

`PROJECT.json` lists the hazards, each at its line, with the properties aimed at
them.

## 2. Modules

| Module | Models | State and actions |
|---|---|---|
| `Exceptn` | the way of an interrupt to a signal handler and back | one variable per variable of the code; `pc` says what the processor executes; one action per entry point, and `exception_handler` split into its entry and its return, `longjmp` at its pop of the frame pointer, because an interrupt may come between them |
| `FakeExc` | the promise of that machinery: one request is held until it is taken, exactly once and before any exception of the program's own; exceptions nest; only a fake one is resumed, a real one is left by a jump to a place the program marked or with the program | `pending`, `active`, `marks`, `over` |
| `ExceptnProofs`, `SigMaskProofs`, `ItimerProofs`, `HwIntProofs`, `SbrkProofs`, `NmallocProofs`, `FdPropsProofs` | theorems about the module they are named after | |
| `Lemmas` | facts the proofs share: sequences used as stacks; induction and recursion over the naturals | |
| `SigMask` | `sigprocmask`, `sigaction`, `signal`, `raise`, `kill` | `stack` holds the calls in progress; one action per statement of `sigprocmask` and `sigaction` that reads or writes shared state |
| `Itimer` | `setitimer`, `getitimer`, `timer_action`, `start_timer`, `stop_timer`, the tick handler | as above, with a clock; `due` records what the program asked for |
| `Nmalloc` | the heap | `heap` (headers by address, list heads, break) and `live` (what the program owns); an operator per C function takes a heap and returns the heap it leaves |
| `Allocator` | the promise of the heap | the allocations with their sizes and contents |
| `HwInt` | the vectors and who is behind them: start-up, toggle, `_exit`, the timer's hook, the four interrupt handlers, the signal keys, the Ctrl-Break count | `vec` and the variables of the code; one action per DPMI call or store that an interrupt may separate from the next |
| `Sbrk` | `sbrk`, `brk` and the end of `__exit`, the DPMI host, the lookup of blocks and the splitting of page ranges | the variables of `crt0.S`; a call that needs the host is two actions, the call and the host's answer, which is any place or a failure |
| `FdProps` | the properties of descriptors with the calls that change them, `fsext`, the zero device | a record `s` with the tables; an operator per C function takes it and returns what the function leaves; one action per library call |
| `Stdio` | one stream on a disk file, down to `_write` and `llseek` | a record `f` with the fields of the FILE and the descriptor; as above |
| `Stream` | the promise of a stream: contents, position and at most one byte pushed back | what each call returns and does, without a buffer |
| `Dlopen` | the loader | `disk` (which files there are, what they need), the loader's record `s`, the program's handles; `dlopen` and `dlclose` recursive as in the code |
| `MC...` | nothing of their own: they are the root modules of the runs | |

The modules do not import one another's actions; they share facts. `Exceptn`
shows that a pending request stops the program before its next data access.
`SigMask` and `Itimer` use that: a signal arrives between two statements (each
touches data), and no statement is executed while a request is posted.

Abstractions worth knowing.

* `Exceptn`. A limit is a number of growth steps, 0 the null page. A stack
  element is an exception frame, or the words that `longjmp` still has to pop.
  Registers other than the exception number, the frame link and the point of
  resumption are left out. The program has one `jmp_buf`; one filled inside a
  handler is dead once the handler returned, as C requires. SIGFPE, SIGTIMR and
  all others share one rule: `raise` looks at the disposition.
* `SigMask`. A handler's body is empty, or one call of `sigprocmask`
  (`HandlersBlock`). `want` and `owed` are history: what the program installed
  last, and the signals that came for a handler of its own that has not run.
  SIGQUIT, whose default is to be ignored, has no instance.
* `Itimer`. A tick is `U` clock units (65536 in the code). `timeval`s are given
  in units; what remains of the conversion is the rounding up of small values.
  Reads and writes of the 64-bit times are one step: the two halves are not
  torn. `(unsigned)-1` in the countdown is a number out of reach.
* `Nmalloc`. Addresses and sizes are real byte counts with the code's `ALIGN`,
  header size and `SAVEMEMORY` layout, where `prevfree` is the first data word;
  only the width of `size_t` (`W`), `MINSBRK` and the largest request are
  scaled. Each allocation's contents are represented by that first word. `bad`
  is set where the code would abort, and where two headers overlap.

* `HwInt`. The exception vectors are swapped in one loop and are one vector.
  "dos" is whoever was behind a vector before. A signal that was posted stops
  the program (`Exceptn`), and its handler, the timer's too, returns, or ends the
  program through `_exit`. `loc.cut` is history: a signal ended the program in the
  middle of a toggle. The mask of a key is stored by three statements, as in the
  code. The PC-98 keyboard is not told apart.
* `Sbrk`. Addresses are offsets from the base modulo `W`, in pages; `W` stands for
  4 GB and `Gran` for 64 KB. `held` is history: the memory the program was given
  and has not given back. A caller of `brk` leaves something in ECX (section 6).
* `FdProps`. The program uses its own descriptors only, not the one the library
  keeps on NUL. `malloc` gives the lowest object no pointer leads to; a call takes at
  most two, so with `NObjs >= 2 * MaxCalls` there always is one. `move_fd`, which
  recurses in the code, is two recursive functions, the nested calls and their returns. `wish` is history:
  the files opened with O_TEMPORARY. A walk that meets an object without a name
  faults in `stricmp` and one on a circle does not end: `fate`. `malloc` does not
  fail; in the code a descriptor then has no properties, and `open.c:323` goes on
  without O_TEMPORARY, while the zero device frees what it had and fails
  (`fse_zero.c:247`, `:272`).
* `Stdio`. Streams are binary. The bytes of the buffer that no call can reach any
  more are left out. The file is a sequence, `Capacity` the disk. In any call the
  malloc of the buffer, a read or the llseek of an append stream may fail (`fails`).
  A program changes
  direction only as C allows, and pushes back one byte after a read.
* `Dlopen`. A module exports one symbol, named as its file, and imports the symbols
  of its dependencies; relocation is which module a reference was bound to. Every
  malloc may be the one that fails, the one of the handle too (`lost` is history: it
  did, and the chain is gone). A file may be missing, impossible to open, of another
  kind, or end in its header or in its tables. `_dlsymresolver`, when the program has
  set it, knows the program's symbols.

Operators whose comment begins with "Mutant:" are deliberately wrong versions
of the definition after them. No specification uses them; they are there to see
that the properties notice the mistake.

## 3. Runs and bounds

| Run | Shows | Bounds |
|---|---|---|
| `exceptn_safety` | the segment always comes back, `exception_handler` has its data, frames stay chained, the processor finds its frame, `FakeExc` is implemented: a real exception is never resumed | three frames (an exception in a handler, interrupted in the middle of `longjmp`), one interrupt number, a trap (3) and a fault (13), one growth of the heap |
| `exceptn_live` | an accepted request is taken | two interrupt numbers, two frames, no growth (section 6) |
| `sigmask_block` | mask, saved handlers, suspenders agree; nothing lost, nothing leaked; `sigaction` calls with and without old action between | two ordinary signals and SIGKILL, a call interrupted twice over |
| `itimer_timers` | SIGTIMR never meets its default action; as long as no timer was set while another ran, all are on time and one-shot ones always served | tick of 3 units, values below, above and off the tick, intervals of one tick, both timers at once, one setting while a timer runs; a call may take up to 2 units, so that a tick falls between any two statements |
| `nmalloc_calls` | every sequence of malloc, calloc, realloc and free keeps the heap consistent and implements `Allocator`, beyond exhaustion | three allocations, sizes 0 and 40, products 80 and one that wraps, room for three extensions |
| `nmalloc_areas` | the same when the program moves the break by an unaligned amount and calls `memalign` | alignment 64, sizes 16 and 48: with this first break every part that `memalign` cuts off is a whole block and no bare header reaches a free list (section 6) |
| `hwint_vectors` | vectors are the originals and the callback is freed when the program is gone, unless a signal ended it inside a toggle; all are taken or none between toggles, and lead out of the library; what was posted meets our handler, but for what comes while the vectors are given back; keys are recognised; no press is told twice | three keys with and without shift, Ctrl and Alt, two presses; any number of toggles and timers |
| `sbrk_break` | what the program holds is in blocks and below the limit, is fresh, is found by its address, is split by block, and goes back at exit | 24 pages, granules of 4 that double after two slots, table ended at 4 slots, five blocks, places that are back to back, apart, and on both sides of the base; both modes, with and without address wrap |
| `fd_files` | handles, properties and extensions agree, counts are right, cached objects are idle, temporary files go away with their last descriptor and at exit, unless the list was lost | four descriptors, six calls and two objects for each, a file, a directory (from descriptor 3), the zero device, pipes |
| `fd_temporary` (violated) | section 6 | the same without device and directory |
| `stdio_stream` | `_ptr` and `_cnt` stay in the buffer, `Stream` is implemented | buffers of 2 (`setvbuf`) and 3 bytes, first fill of 1, disk of 3 bytes, seeks to 0..4, so that gaps are filled in full, in part or not at all, blocks of 1 and 3 bytes with a line end anywhere; modes r, w, a, r+; failing malloc, read, llseek |
| `dlopen_modules` | counts, chain and finalisation are right; a failed `dlopen` leaves nothing and says why, unless the last malloc failed or a file ends too early | three files with any dependencies; the second in the order of dependencies, so that others are loaded before it and after it, needs a symbol of the program and may be missing, impossible to open, of another kind, or end too early; three handles, any of the first nine mallocs of a call failing |

The structural invariants are conjunctions of named parts, the type invariant
among them, and checked as one: `MaskOK` (`MaskIsInstalled`), `HeapOK` (blocks tile,
nothing is lost, lists hold their sizes, free neighbours are joined, links and data
have room, alignment), `VectorsOK` (`AllOrNothing`, `VectorsLeadOut`), `TableOK`
(`HandleIsFound`), `TablesAgree` (`PropertiesFollowHandles`, `ReferencesAreCounted`,
`CachedAreIdle`), `BufferOK` (`StaysInBuffer`) and `LoaderOK` (`UsesAreCounted`,
`ChainIsOrdered`). Each part has a mutant of its own in `PROJECT.json`.

Three outstanding allocations are enough for every case of joining: a block with
free neighbours on both sides, or with `lastsbrk` above. Two signals suffice for
a loop that treats each number on its own, with SIGKILL as the exception; a call
interrupted by a handler that is interrupted again is the deepest nesting that
tells states apart, because handlers return in order. A disk shorter than a block
makes writes succeed in part and gaps that cannot be filled; buffers no longer
than a block are filled to their end or crossed by it. Three modules make chains,
shared dependencies and circles of both lengths. Six calls are enough to open
three descriptors and close them in any order. Deadlock is checked in `Exceptn`
and `SigMask`; the other models stop at a bound, or when the program has ended.

Some constants say what the program or the world does, never what the library
does: `HandlersBlock`, `SignalOnBlocked`, `MaxRearm`, `TimerWhileOff`, `LeftInECX`,
`SemiOK`, `PartialLines`, `TurnsByFlush`, `TellsLines`, `UngetsAtEof` and `Stray`. Each is
FALSE, empty or small where the library is known to fail otherwise; section 6 has
the failing cases. What no program can avoid is never switched off: an interrupt
while the vectors are given back, a signal that ends the program inside a toggle, no
memory for a handle, a temporary file at exit. There the property names the case it
leaves out (`Unhooking`, `loc.cut`, `s.lost`, a lost list), and section 6 has the
property without it.

## 4. Fairness

`EveryRequestIsTaken` is checked under weak fairness of the fault
(`FakeFault`), of DOS calls returning, and of the steps of the handler and the
processor. The processor of the machine goes on executing, compiled code touches
its stack or data within a few instructions, and a DOS call that never returns
is a hung machine. Nothing is assumed of the program's own handlers: one may run
for ever. All other properties are safety properties and use no fairness.

## 5. Proofs

TLC checks small instances; the theorems hold for all values of the constants
that the named assumptions in the modules allow, bounds included. Where a theorem
has hypotheses of its own, they are constants that say what the program does
(section 3), with the value the run gives them; section 6 has the counterexamples
that make each of them necessary. `Ample` of `FdPropsProofs` is a relation of two
bounds instead: the model has objects enough for its calls, as `malloc` is not
modelled to fail there.

| Theorem | Statement | Hypotheses |
|---|---|---|
| **`ExceptnProofs`** | | |
| `Invariance` | `Spec => []IInv` | |
| `TypeCorrect` | every variable keeps its type | |
| `ShrunkIsTemporary` | the data segment is shrunk only while a fake exception is pending whose handling restores a usable limit | |
| `HandlerRuns` | `exception_handler` never runs with a shrunk segment or a pending request | |
| `Chained` | the frame pointer, the frames' links and the `jmp_buf` name the innermost frame at their depth, but between the switch of stacks and the pop in a `longjmp`, and in a frame that interrupted it there, which will resume that `longjmp` | |
| `OwnFrame` | the exception processor finds its own frame, before and after `raise` | |
| `Refinement` | `Spec => KeepsPromises`: `Exceptn` implements `FakeExc` | |
| **`SigMaskProofs`** | | `HandlersBlock = FALSE`, `SignalOnBlocked = FALSE` |
| `MaskInvariance` | `Spec => []IInv` | |
| `MaskAgrees` | `MaskOK`: mask, saved handlers and suspenders say the same | |
| `SignalsAreKept` | `NoSignalIsLost` | |
| `BlockedSignalsWait` | `BlockedIsHeld`: no handler starts for a blocked signal | |
| **`ItimerProofs`** | | |
| `Invariance`, `TypeCorrect` | `Spec => []IInv`, types | |
| `TimerNeverKills` | `NeverKilled`: SIGTIMR never meets its default action | |
| `TimesInvariance` | `Spec => []TInv` | |
| `TickComesInTime` | `NotLate` | |
| `TimersAreNotEarly` | `NotEarly` | |
| `OneShotsAreServed` | `OneShotIsServed` | `MaxSlip < U`: calls and handlers together last less than a tick |
| **`HwIntProofs`** | | |
| `VectorInvariance` | `Spec => []VInvUntilCut` | `~TimerWhileOff` |
| `VectorsAgree`, `LeavesNothingBehind` | `VectorsOK`, `NothingLeftBehind` | the same |
| `FaultsMeetOurHandler` | `FaultsAreOurs`: the host's handler is met only while the vectors are given back | the same |
| `PressesAreToldOnce` | `NoPressIsToldTwice` | |
| `RecognisedIffExpressible` | a key is recognised if and only if its bits are `Expressible` | |
| `KeysMakeTheirSignals` | `KeysAreRecognised` | the program's keys are `Expressible` |
| **`SbrkProofs`** | | `LeftInECX = {}`, `~SemiOK` |
| `BreakInvariance` | `Spec => []IInv` | |
| `MemoryIsOwned` | `HeldIsOwned` | |
| `HandsOutFreshMemory`, `FillsFreshMemory` | `FreshMemory`, `FillsOnlyNewMemory` | |
| `TableLeadsToBlocks` | `TableOK` | |
| `PagesAreAskedInTheirBlocks` | `RangesAreSplit` | |
| `BlocksAreFreed` | `ExitFreesTheBlocks` | |
| **`NmallocProofs`** | | `NoWrap`: no request wraps when it is rounded up; `Alignments = {}`: no `memalign` |
| `HeapInvariance` | `Spec => []HInv` | |
| `HeapIsWhole` | every part of `HeapOK` but `FreeBlocksHoldTheirLinks`, also when the program moves the break | |
| `HeapIsOK` | `HeapOK` | `Foreign = {}`: only the heap moves the break |
| `HeapKeepsPromises` | `Spec => KeepsPromises`: `Nmalloc` implements `Allocator` | |
| **`FdPropsProofs`** | | `Ample`: `NObjs >= 2 * MaxCalls` |
| `DescriptorInvariance` | `Spec => []IInv` | |
| `TablesStayTogether` | `TablesAgree`: properties follow handles, references are counted, cached objects are idle | |
| `TemporaryFilesGoAway` | `TemporaryGoesAway`, while the program runs | |
| `TemporaryFilesGoAtExit` | `ExitRemovesTemporaries`: an exit that finds a list leaves no temporary file | |
| `ContextsOutliveDescriptors` | `ContextsAreCounted` | |

No invariant was inductive as it stands. What each strengthening adds:

* `Exceptn`. `LimitsFit`: the saved limit of a pending request is usable; without
  it, taking the request might restore anything. `PcFits`: the code that runs, or
  that the static structure says was interrupted, fits the top of the stack: the end
  of `longjmp` has its own words there, the exception processor a frame, the program
  never `longjmp`'s words. `FramesFit`: the same for the code each frame will resume,
  which is what `PcFits` needs after a return. Between the switch of stacks and the
  pop, the words of `longjmp` on the stack say what the pointer will be, and a frame
  above them resumes nothing else; that is what `FramesAreChained` needs to be
  inductive there. Both also say that no `jmp_buf`
  belongs to a handler whose processor has gone on: otherwise a later `longjmp` would
  come back to the depth of a frame that is gone. The refinement maps the frames to
  the sequence of exception numbers by a recursive function (`Nested`); `NumbersOK`
  says what numbers those are, and a push, a pop and a cut of the stack are lemmas on
  that function. A `jmp_buf` is a mark of `FakeExc` at its depth, so that a cut is a
  jump to a mark, and a return is never one past it.
* `SigMask`. `OnlyFirstCalls`: without calls in handlers only the main line is in a
  call. `WalkOK` says, for each statement of the loop of `sigprocmask`, that the
  signals below `signo` are settled as the new mask says, those above as the old one
  says, and how far the one in hand is; `AskedOK` does the same for `sigaction`.
  `OwedOK`: a signal that is owed is in the pending set with a suspender in front, or
  is the one the loop is about to raise.
* `Itimer`. For `NeverKilled`: the tick is ours only with flag and handler set
  (`TickHasItsHandler`), only our tick posts (`PostedByOurTick`), and the statements
  that change the three are never interrupted (`StepsInOrder`). For the times:
  `Calls` ties flag, vector and the reading of the clock to the statement each call
  is at; `Once`, for programs that set a timer when none runs, says that a call that
  arms is alone with its timer (`ArmsAlone`), that expiry and request are equal
  (`AsAsked`), that a tick without a timer is about to be given back
  (`TickIsStopped`), that a distance still to be stored is early enough for all
  timers, those set above it included (`CountsAreEarly`), and that the countdown in
  place is (`PostsInTime`). For `OneShotIsServed`, `Short`: only one tick comes while
  calls are in progress, so that `timer_action` is the innermost call until it
  raises, and nobody gives the tick back for a timer that is armed.
* `HwInt`. `SwappedInOrder`, `CallbackFollows` and `TimerFollows` say for each step
  of a toggle which vectors it has swapped, what the variables remember, whether the
  callback exists, and who has the tick; the timer's is the last, so `Having` speaks
  of the time before the toggle until it is over. All this holds until a signal ends
  the program in the middle of a toggle (`VInvUntilCut`); `CutIsLast`: after that
  only the end of the program follows. `MasksFollow`: each mask is that of
  its key, but for the one being stored.
* `Sbrk`. The blocks lie apart and are numbered (`BlocksApart`, `HandlesCount`,
  `StubIsFirst`); the table lists them in the order they came (`TableFollows`); the
  limit covers them (`LimitCovers`); what lies between the break and the end of the
  last block belongs to the program and is not held (`RestIsFree`), which is what the
  next call hands out.

* `Nmalloc`. The invariant has to hold inside a call as well, where one block is
  neither allocated nor free: `State(h, A, F, x, L, one)` says of a heap that its
  blocks are the allocations `A`, the blocks `F` on the lists, the block `x` in hand
  and the last one `L`; that they tile their areas (`Tile`), where the last block of
  an area may end below the break only if there is more than one area; that the
  lists are linked both ways, hold the blocks of their sizes and have no cycle
  (`ListsOK`, with a rank that falls along `nextfree`: without it, taking out a block
  might take the list's head with it); that a block off the lists has no mark
  (`Off`); and that free blocks touch neither each other nor `L` (`Apart2`). Each
  operator of the module takes such a heap to such a heap, and keeps size and first
  word of the allocations it is not about (`Frame`); the calls are compositions of
  those lemmas. `Sized`: blocks are at least `MINSAVE` long in one area, a header
  otherwise. `Agrees` ties the program's view to the blocks: room for the request,
  and the word the program wrote. Arithmetic on alignment, halves of the address
  space and the buckets of `size2bucket` rests on lemmas about `%`, `\div` and
  `pow2`. Where a free block is a bare header (section 6, `Foreign`), the model still
  keeps its `prevfree` in a field of its own; the theorems that allow `Foreign` say
  nothing of the memory behind such a header.

* `FdProps`. `remove_list` leaves the lists in disorder (section 6), so the invariant
  says nothing of their shape: a link leads to an object or nowhere, and to none
  beyond `2 * calls` (`Base`), so that `malloc` finds one. `Base` holds also when a
  walk along such a list faulted or does not end. While the program runs, `Sound`
  adds: DOS has no open file without a handle, nor one without a name (`DosOK`,
  which is why the entry `DosOpen` takes exists); extensions are on handles of the
  null device, and the one the library keeps has neither extension nor properties
  (`FuncOK`, `NulOK`); *every* object has as many references as it counts, and one
  with a name has some (`CountOK`, which is stronger than the property: it says that
  an object a name leads to is in use); `CachedOK`, `FollowOK`; and each file that is
  to go away has an object that carries the flag (`WishOK`). `TemporaryGoesAway`
  needs the last four together. At exit the loop over the descriptors closes those it
  meets: the ones it has met are closed, and a file that is still to go away has a
  descriptor still to come. The calls of `move_fd` and the loops of `exit` are
  inductions over their recursive functions.

Each proof has one lemma per action and one that puts them together; `Lemmas`
has the facts about stacks that three of them share. All the invariants were model
checked first; `TInv` and `Short` on larger instances than the run's (ticks of 2 and
5 units, nesting of 5).

`Lemmas` also has induction over the naturals and the existence of recursive functions
in a form first-order provers can use: with sets in the place of predicates, from
the library's theorem that a well-founded order has minimal elements. `Nested`
(`Exceptn`) recurses down the stack and `__djgpp_set_page_attributes` (`Sbrk`) along
a range of pages, `__djgpp_memory_handle` looks for the greatest address at or
below its argument, `pow2` (`Nmalloc`) is recursive, and so are `move_fd` and
`CloseAll` (`FdProps`); their theorems rest on it.

Only model-checked:

* `EveryRequestIsTaken`: liveness under fairness is outside this prover.
* The heap with `memalign` (`nmalloc_areas`): it cuts off a part that may be shorter
  than a header (section 6), so that there is no theorem for all alignments.
* `Stdio` and `Dlopen`, with the refinement of `Stream`: they use RECURSIVE
  operators, as the code recurses, which the provers do not support.

## 6. Where the code and its documentation part

`fd_temporary` is a run that TLC ends with a counterexample. `remove_list`
(`fd_props.c:208-219`) clears the fields of the item before it uses them for the
new head and for the back link of the successor, so that the removal of one object
takes others off the active list. `close_fd` then does not see another descriptor
of a temporary file and removes the file while it is open
(`posix/fcntl/open.txh:86`, "Delete @var{file} when all file descriptors that
refer to it are closed"). The same mistake lets the list run into the cache:
open x, open y, open z with O_TEMPORARY, close y, x, z ends in `stricmp(NULL)`
(`fate = "fault"`), and one more open makes the list a circle.

The following are reproduced by running the module named with the property and
the constants given, the others as in the passing run; the properties are defined in
the modules.

| Module and constants | Property violated | What happens |
|---|---|---|
| `Exceptn`: `IRQs = {121}`, `Reals = {13}`, `UserSigs = {"SIGINT"}`, `MaxDepth = 2`, `MaxGrow = 1` | `PendingStopsTheProgram` | `sbrk` sets the limit of DS (`crt0.S:598`) after its last data access and undoes the shrunk limit of a request that arrived in between; `dpmiexcp.txh:249` says the handler is called "on the first occasion that the program is in protected mode and touches any of its data". The signal waits for the next real exception, which then also restores the limit from before the growth. |
| `SigMask`: `HandlersBlock = TRUE` | `NoSignalIsLost` | `sigprocmask` in a handler that interrupts `sigprocmask` is overwritten at `sigprocm.c:94`, and a signal is lost (`sigprocm.txh:22`, "not missing the signal entirely"). |
| `SigMask`: `SignalOnBlocked = TRUE` | `BlockedIsHeld` | `signal` for a blocked signal replaces the suspender (`sigprocm.txh:19` promises that the signal waits for `sigprocmask`). |
| `Itimer`: `U = 3`, `Values = {0, 4}`, `Intervals = {0, 3}`, `MaxTime = 12`, `MaxNest = 3`, `MaxSlip = 1`, `MaxRearm = 0` | `PeriodicIsServed` | A periodic timer whose next expiry is exactly now has distance 0, which `itimer.c:154` takes for no timer: it is never served again (`itimer.txh:82`, "reload the timer upon expiration"). |
| `Itimer`: `U = 2`, `Values = {0, 2, 4}`, `Intervals = {0}`, `MaxTime = 9`, `MaxNest = 3`, `MaxSlip = 1`, and `NotEarly` without its condition on `rearmed` | `NotEarly` | `setitimer` stores a relative time and makes it absolute at `itimer.c:271`; a tick between fires the timer at once (`itimer.txh:80`). Without the condition `NotLate` fails as well: a handler calls `setitimer` inside a `setitimer` of the main line, whose stale `next` is stored last. |
| `Itimer`: `U = 2`, `Values = {0, 2, 3}`, `Intervals = {0, 2}`, `MaxTime = 9`, `MaxNest = 5`, `MaxSlip = 5`, `MaxRearm = 0` | `OneShotIsServed` | The same mistake with handlers that last longer than a tick: a nested `timer_action` finds the distance 0 of a periodic timer and gives the tick back, and the `setitimer` it interrupted then makes the timer a one-shot one. The documentation says nothing of such handlers; with `MaxSlip < U` it is a theorem. |
| `Nmalloc`: `Sizes = {8, 24}`, `Alignments = {16}`, `MaxBrk = 448`, `MINSBRK = 96`, `Base = 64` | `NeverFouled` | `memalign` cuts off a part shorter than a header (`nmalign.c:144`); the comment at `nmalign.c:52` asks for at least 3 units. |
| `Nmalloc`: `Sizes = {8, 24}`, `Foreign = {8}` | `FreeBlocksHoldTheirLinks` | `nmalloc` may leave `lastsbrk` a bare header (`nmalloc.c:570`), which goes to a free list when the break was moved meanwhile. |
| `Nmalloc`: `Sizes = {8, 1020}`, `W = 10` | `EnoughRoom` | A size within 7 of the largest wraps in `roundup`, passes the check for oversize requests and gets a block without data. |
| `HwInt`: `TimerWhileOff = TRUE` | `NothingLeftBehind`, `VectorsLeadOut` | A timer started or stopped while the vectors are given back confuses `timer_ori` and `__djgpp_old_timer`: the tick is left pointing into the program, which the comment at `dpmiexcp.c:432` wants to avoid, or its handler chains to itself. |
| `HwInt` as it is | `RestoresTheTimer` | A signal ends the program in the middle of a toggle. `_exit` decides by the keyboard vector alone (`dpmiexcp.c:665`) and toggles what is half swapped: vectors that were still given back are taken, the tick among them, where the comment at `dpmiexcp.c:432` wants the system not to be left "with timer pointing into the void". `NothingLeftBehind` leaves out this end (`loc.cut`). |
| `HwInt` as it is | `pc # "killed"` | The vectors are given back in the order in which they were taken, the exceptions first (`dpmiexcp.c:409-421`): an interrupt after that and before its own vector was given back posts a fault that the host meets, and the program is ended with a register dump. `FaultsAreOurs` says that this is the only place. |
| `HwInt` as it is | `EveryPressIsTold` | A press between the two statements of `go32cbrk.c:28` and `:29` is lost; `go32cbrk.txh` says the function "returns the number of times that Ctrl-Break was hit since the last call". |
| `HwInt`: `Keys` with `{"L", "C"}`, `{"X", "C"}` or `{"R"}` | `KeysAreRecognised` | The mask takes away bits that the key still has, or adds left shift to right shift, so that no status ever equals the key. `RecognisedIffExpressible` proves which keys these are: all with a bit other than shift, Ctrl and Alt, with left shift and Ctrl or Alt, or with the right shift alone. |
| `FdProps`: `Special = {}` | `LeavesNoTemporary` | When `remove_list` took the head off the list with what followed it, `exit_cleanup` finds an empty list and returns (`fd_props.c:231`): a temporary file that is open stays on the disk, where the comment at `fd_props.c:224` wants "all files marked as temporary" deleted. `ExitRemovesTemporaries` is about the other exits. |
| `Sbrk`: `LeftInECX = {2}` | `HeldIsOwned` | `brk` sets no increment (`crt0.S:451`); when it needs a new block it allocates what is left in ECX (`:518`) and still reports success, where `brk` promises "Zero if the break was changed, -1 if not". |
| `Sbrk`: `SemiOK = TRUE` | `HeldIsOwned` | A negative increment beyond the last block moves the break into a hole between blocks, and the next `sbrk` hands the hole out (`crt0.S:442` calls it "semi-OK"). |
| `Sbrk`, properties without `~Full` | `HandleIsFound`, `RangesAreSplit` | The last slot of the table is written again and again (`crt0.S:578`), and never freed by `__exit`. |
| `Stdio`: `PartialLines = TRUE` | `ActsLikeAStream` | `fwrite` of less than a line to a line-buffered update stream stores the bytes (`fwrite.c:39`) without `_flsbuf`, which alone sets `_IOWRT`; `fflush` takes the stream for one without output (`fflush.c:50`) and resets `_ptr`, reports success, and the bytes are gone, at `fclose` too (`fflush.txh:13`, "useful in cases where the output is line buffered and you want to write a partial line"). |
| `Stdio`: `Modes = {"r+"}`, `TurnsByFlush = TRUE` | `ActsLikeAStream` | `_flsbuf` allocates the buffer without setting `_fillsize`; the first read after it asks for 0 bytes and reports the end of the file. |
| `Stdio`: `Modes = {"r"}`, `UngetsAtEof = TRUE` | `ActsLikeAStream` | `fread` after `ungetc` at the end of the file returns the byte pushed back again and again. |
| `Stdio`: `Modes = {"w"}`, `VBufs = {3}`, `Lens = {2}`, `FileLens = {0}`, `TellsLines = TRUE` | `StaysInBuffer` (part of `BufferOK`) | `ftell` resets the negative `_cnt` of a line-buffered stream, by which `fwrite` knows how full the buffer is. |
| `Dlopen`: `Statuses = {"ok"}`, `MaxMods = 6` | `PublicIsSeen` | The result of the last malloc is assigned to `dxe_chain` (`dlopen.c:358`): when it is NULL all modules are forgotten, `dlsym` and later `dlopen`s do not see them, `_closeall` does not finalise them, and the module whose `_init` ran is freed without its `_fini` (`dlopen.txh:30`, "subsequently loaded modules with unresolved symbols will `see' them"). The properties of the passing run leave out what follows (`s.lost`). |
| `Dlopen`: `Stray = {"a"}` | `ReferencesStayLoaded` | A symbol may be bound to a module that is no dependency and may be unloaded first. |
| `Dlopen` as it is | `EveryFailureIsExplained` | A file that ends in its header (`dlopen.c:203`) or its tables (`:242`) sets no `errno`, and `dlerror`, "more information on the last error that occurred" (`dlerror.txh:13`), returns NULL. |

`sigaction` that only asks installs SIG_IGN for a moment and drops a signal that
arrives in it (`sigactio.txh:36`, "doesn't change it"). `NoSignalIsLost` leaves
such signals out, in `Owe`; without that exception it fails.

Seen while reading, and not part of a property:

* between the expiry of a timer and the tick that notices it `getitimer` returns a
  negative time, where `itimer.txh:19` says zero; `sigaction(bad, NULL, NULL)`
  returns 0 where `sigactio.txh` promises -1; `sa_mask` is documented and ignored;
* `dup` of a zero device copies the function without the data, so that its close
  fails and the handle leaks; `dup2` resets the extension of newfd before a call that
  may fail; `dup2` onto `null_dev_fd` makes it stale; a module that is loaded already
  keeps the mode it was first opened with (`dlopen.c:196`), also when RTLD_GLOBAL is
  asked for (`dlopen.txh:30`);
* `ungetc` of the byte that is in the buffer anyway leaves `_IOUNGETC` unset, also
  when that byte is stale; `ftell` of an append stream after a seek does not know
  that the write will move; `rewind` clears the error of its own `fflush`; the flag
  for gaps is per descriptor and stale when another one truncates the file;
* `mprotect.c:37` uses the handle of the first page for the whole range, where
  `mprotect.txh` promises all pages (the mutant `HandleEnd_All` of `Sbrk` shows
  what is asked of the host); `___djgpp_selector_limit` is 0 until the first
  growth, which `malldbg.c:95` compares addresses with.

## 7. Not modelled

* The foreign-stack case of `exception_handler`, `___djgpp_save_interrupt_regs`,
  and the traceback printout; the PC-98 keyboard.
* Hardware access: reprogramming the timer chip in `uclock`, video modes.
* The heap's hooks and debugging package. `nmalloc.c` states that it is not
  interrupt safe, so there is no promise to check for handlers that allocate.
* `malloc` failing in `fd_props.c` and `fse_zero.c` (section 2).
* stdio's text mode, terminals and formatting; the append and inherit flags and
  the access modes of descriptors; `_init` and `_fini` functions that call `dlopen`
  themselves.
* termios: editing of a line, sequential and bound to BIOS calls.

Most of the repository's lines are of kinds a state model says nothing about:
`libm` and the coprocessor emulator are floating point; `ctime`, `zic` and
`localtime` compute on tables and dates; string, conversion, sorting and searching
functions are pure and well tested, and a model of them would be a copy; hundreds
of wrappers set registers, call DOS or the BIOS once and translate an error;
the debuggers show the memory of a second process on the screen; `djasm`,
`dxe3gen`, `djtar`, the stub and the documentation tools read a file and write
another. Process creation (`dosexec.c`) searches paths and encodes command lines
around one DOS call.

## 8. Plan

1. Theorems about `Dlopen` and `Stdio`, with their recursion written as
   recursive functions.
2. Models still possible: canonical input of termios, text mode of stdio, the
   inherit flags of descriptors across `dosexec`.
