------------------------------- MODULE Exceptn -------------------------------
(***************************************************************************)
(* How DJGPP turns a hardware interrupt into a signal: go32/exceptn.S,     *)
(* go32/dpmiexcp.c, ansi/setjmp and the tail of sbrk in crt0/crt0.S.       *)
(*                                                                         *)
(* An interrupt handler cannot call C code, so ___djgpp_hw_exception       *)
(* records a fake exception number in `forced' and shrinks the limit of    *)
(* the application's data segment to the null page.  The next instruction  *)
(* that touches data faults; exception_handler then repairs the limit,     *)
(* replaces the fault's number by the fake one, and has the program        *)
(* continue in ___djgpp_exception_processor on a frame pushed on the       *)
(* program's own stack.  A fake exception is resumed with longjmp, a real  *)
(* one never is.                                                           *)
(***************************************************************************)
EXTENDS Naturals, Sequences

CONSTANTS IRQs,      \* the fake exception numbers whose interrupts may arrive
          Reals,     \* the processor exceptions the program's code may raise
          UserSigs,  \* the signals the program calls signal() and raise() for
          MaxDepth,  \* bound on the exception frames nested on the stack
          MaxGrow    \* bound on the times sbrk grows the data segment

EXCEPTION_COUNT == 18
NPX  == 117   \* 0x75, IRQ 13
TIMR == 120   \* 0x78, the timer tick
INTR == 121   \* 0x79, the SIGINT key
QUIT == 122   \* 0x7a, the SIGQUIT key
CBRK == 27    \* 0x1b, Ctrl-Break

ASSUME IRQsAssumption == IRQs \subseteq {NPX, TIMR, INTR, QUIT, CBRK}
ASSUME RealsAssumption == Reals \subseteq 0 .. EXCEPTION_COUNT - 1
ASSUME BoundsAssumption == MaxDepth \in Nat /\ MaxGrow \in Nat

\* What a disposition in signal_list makes raise() do.  SIG_ERR stands for every
\* handler address below 4096.
Dispositions == {"SIG_DFL", "SIG_IGN", "SIG_ERR", "handler"}
Signals == {"SIGSEGV", "SIGFPE", "SIGTRAP", "SIGNOFP", "SIGTIMR", "SIGINT",
            "SIGQUIT", "SIGILL", "SIGABRT"}
ASSUME UserSigsAssumption == UserSigs \subseteq Signals

\* dpmiexcp.c except_to_sig
except_to_sig(n) ==
  CASE n \in {5, 8, 9, 11, 12, 13, 14} -> "SIGSEGV"
    [] n \in {0, 4, 16, NPX}           -> "SIGFPE"
    [] n \in {1, 3}                    -> "SIGTRAP"
    [] n = 7                           -> "SIGNOFP"
    [] n = TIMR                        -> "SIGTIMR"
    [] n \in {INTR, CBRK}              -> "SIGINT"
    [] n = QUIT                        -> "SIGQUIT"
    [] OTHER                           -> "SIGILL"

NullPage == 0     \* the 4K limit that makes every data access fault
NoInsn   == 999   \* the next instruction raises no exception by itself
NoBuf    == [depth |-> MaxDepth + 1, ptr |-> 0]

\* The processor reports these after the instruction, so resuming does not
\* execute it again; all others are faults and do.
Traps == {1, 3, 4}
Retried(n) == IF n \in Traps THEN NoInsn ELSE n

VARIABLES
  limit,         \* limit of the descriptor in ___djgpp_app_DS
  selLimit,      \* ___djgpp_selector_limit
  ds_limit,      \* the limit ___djgpp_hw_exception saved
  forced,        \* low byte of `forced': the pending fake exception, or 0
  inuse,         \* byte 2 of `forced': exception_handler is running
  exception_state,     \* the static structure exception_handler fills
  stack,         \* exception frames and half-taken longjmps on the stack
  exception_state_ptr, \* ___djgpp_exception_state_ptr, an index of stack or 0
  pc,            \* what the processor is executing
  insn,          \* the exception the next instruction raises by itself
  signal_list,   \* dispositions
  jb             \* one jmp_buf of the program

memory == <<limit, selLimit, ds_limit>>
request == <<forced, inuse>>
control == <<exception_state, stack, exception_state_ptr, pc, insn>>
program == <<signal_list, jb>>
vars == <<memory, request, control, program>>

\* "run"    the program, a signal handler of it included
\* "dos"    real mode, inside a DOS or BIOS call
\* "grow"   sbrk, after its last data access and before it sets the limit of DS
\* "except" exception_handler
\* "proc"   ___djgpp_exception_processor, calling raise
\* "after"  ___djgpp_exception_processor, after raise returned
\* "pop"    longjmp, on the target's stack, before it pops the frame pointer
\* "iret"   the end of longjmp, after that
\* "exit"   exit(), until _exit
\* "exited" the program is gone
Interruptible == {"run", "proc", "after", "pop", "iret", "exit"}
PCs == Interruptible \cup {"dos", "grow", "except", "exited"}

Numbers == Reals \cup IRQs
Frame == [kind : {"exc", "iret"}, signum : Nat, prev : Nat,
          at : Interruptible, insn : Reals \cup {NoInsn}]
StaticState == [signum : Nat, prev : Nat, at : Interruptible,
                insn : Reals \cup {NoInsn}]
NoState == [signum |-> 0, prev |-> 0, at |-> "run", insn |-> NoInsn]

Init ==
  /\ limit = 1 /\ selLimit = 1 /\ ds_limit = 0
  /\ forced = 0 /\ inuse = FALSE
  /\ exception_state = NoState
  /\ stack = <<>> /\ exception_state_ptr = 0
  /\ pc = "run" /\ insn = NoInsn
  /\ signal_list = [s \in Signals |-> "SIG_DFL"]
  /\ jb = NoBuf

\* No instruction that touches data completes while the limit is shrunk.
DataOK == limit # NullPage

-----------------------------------------------------------------------------
(* Hardware interrupts. *)


\* Mutant: tests only the low byte of `forced'.
hw_exception_ForgetsInUse(n) ==
  IF forced = 0
  THEN /\ ds_limit' = limit /\ forced' = n /\ limit' = NullPage
       /\ UNCHANGED <<selLimit, inuse>>
  ELSE UNCHANGED <<memory, request>>

\* Mutant: does not ask whether a fake exception is pending already.
hw_exception_Twice(n) ==
  /\ ds_limit' = limit /\ forced' = n /\ limit' = NullPage
  /\ UNCHANGED <<selLimit, inuse>>

\* Mutant: loads AX for the DPMI call before it stores AL.
hw_exception_ClobbersAL(n) ==
  IF forced = 0 /\ ~inuse
  THEN /\ ds_limit' = limit /\ forced' = 8 /\ limit' = NullPage
       /\ UNCHANGED <<selLimit, inuse>>
  ELSE UNCHANGED <<memory, request>>

\* Mutant: flags the request and leaves the segment as it is.
hw_exception_NoShrink(n) ==
  IF forced = 0 /\ ~inuse
  THEN ds_limit' = limit /\ forced' = n /\ UNCHANGED <<limit, selLimit, inuse>>
  ELSE UNCHANGED <<memory, request>>

\* exceptn.S ___djgpp_hw_exception, called by the handlers of the coprocessor,
\* the keyboard, the timer and Ctrl-Break with their number in AL.
hw_exception(n) ==
  IF forced = 0 /\ ~inuse
  THEN /\ ds_limit' = limit
       /\ forced' = n
       /\ limit' = NullPage
       /\ UNCHANGED <<selLimit, inuse>>
  ELSE UNCHANGED <<memory, request>>

HwIntr(n) ==
  /\ pc # "exited"
  /\ Len(stack) < MaxDepth
  /\ hw_exception(n)
  /\ UNCHANGED <<control, program>>

-----------------------------------------------------------------------------
(* Exceptions. *)

\* exceptn.S exception_handler from not_forced to "Now copy the exception
\* structure": the registers go to the static structure, with the previous frame.
SaveState(number, retry) ==
  /\ forced' = 0
  /\ inuse' = TRUE
  /\ exception_state' = [signum |-> number, prev |-> exception_state_ptr,
                         at |-> pc, insn |-> retry]
  /\ pc' = "except"
  /\ insn' = NoInsn
  /\ UNCHANGED <<selLimit, ds_limit, stack, exception_state_ptr, program>>

\* Mutant: keeps the number of the fault that the shrunk limit provoked.
exception_handler_KeepsNumber(n, retry) ==
  limit' = (IF forced # 0 THEN ds_limit ELSE limit) /\ SaveState(n, retry)

\* exceptn.S exception_handler for exception n: limitFix, and the fake number in
\* the place of the real one, when a fake exception is pending.
exception_handler(n, retry) ==
  IF forced # 0
  THEN limit' = ds_limit /\ SaveState(forced, retry)
  ELSE limit' = limit /\ SaveState(n, retry)

\* The fault that hw_exception arranged: the code that runs in protected mode
\* touches its data.
FakeFault ==
  /\ pc \in Interruptible
  /\ limit = NullPage
  /\ exception_handler(13, insn)

\* The program comes to an instruction that raises exception n.
Reach(n) ==
  /\ pc = "run" /\ insn = NoInsn
  /\ Len(stack) < MaxDepth
  /\ insn' = n
  /\ UNCHANGED <<memory, request, exception_state, stack, exception_state_ptr,
                 pc, program>>

\* ... and executes it.  An instruction that does not touch data raises its
\* exception although the limit is shrunk.
RealFault ==
  /\ pc = "run" /\ insn # NoInsn
  /\ exception_handler(insn, Retried(insn))

\* Mutant: goes to the processor without pushing a frame for it.
exception_return_NoCopy ==
  /\ pc = "except"
  /\ inuse' = FALSE /\ pc' = "proc"
  /\ UNCHANGED <<memory, forced, exception_state, stack, exception_state_ptr, insn,
                 program>>

\* The rest of exception_handler: the structure is copied to the stack the
\* program will continue on, and the exception returns to
\* ___djgpp_exception_processor.
exception_return ==
  /\ pc = "except"
  /\ stack' = Append(stack, [kind |-> "exc", signum |-> exception_state.signum,
                             prev |-> exception_state.prev,
                             at |-> exception_state.at,
                             insn |-> exception_state.insn])
  /\ exception_state_ptr' = Len(stack) + 1
  /\ inuse' = FALSE
  /\ pc' = "proc"
  /\ UNCHANGED <<memory, forced, exception_state, insn, program>>

-----------------------------------------------------------------------------
(* The exception processor, raise and the ways to leave them. *)

\* __djgpp_traceback_exit and do_faulting_finish_message: the INTR key leaves
\* through exit(), everything else through _exit().
TracebackExit ==
  IF exception_state_ptr # 0 /\ stack[exception_state_ptr].signum = INTR
  THEN pc' = "exit" ELSE pc' = "exited"

\* raise(), called with the disposition d of signal s: what becomes of pc.
RaiseOutcome(s, ignored) ==
  CASE signal_list[s] = "SIG_IGN" \/ (s = "SIGQUIT" /\ signal_list[s] = "SIG_DFL")
                                              -> pc' = ignored
    [] signal_list[s] = "handler"             -> pc' = "run"
    [] OTHER                                  -> TracebackExit

Processor ==
  /\ pc = "proc" /\ DataOK
  /\ RaiseOutcome(except_to_sig(stack[exception_state_ptr].signum), "after")
  /\ UNCHANGED <<memory, request, exception_state, stack, exception_state_ptr,
                 insn, program>>

\* A buffer filled inside a handler is dead once that handler has returned.
HandlerReturn ==
  /\ pc = "run" /\ insn = NoInsn /\ DataOK
  /\ stack # <<>>
  /\ pc' = "after"
  /\ jb' = IF jb.depth = Len(stack) THEN NoBuf ELSE jb
  /\ UNCHANGED <<memory, request, exception_state, stack, exception_state_ptr,
                 insn, signal_list>>

\* longjmp.S up to the switch of stacks: the words it will pop and iret through
\* are on top of the resumed stack, of which n elements remain; the first of them
\* is the frame pointer.
SwitchStack(n, prev, at, next) ==
  /\ stack' = Append(SubSeq(stack, 1, n), [kind |-> "iret", signum |-> 0, prev |-> prev,
                                           at |-> at, insn |-> next])
  /\ pc' = "pop"
  /\ UNCHANGED exception_state_ptr

\* longjmp.S on the exception frame p, whose head is a jmp_buf.
longjmp_frame(p) == SwitchStack(p - 1, stack[p].prev, stack[p].at, stack[p].insn)

\* Mutant: resumes the code that a real exception interrupted as well.
After_ResumesAll ==
  /\ pc = "after" /\ DataOK
  /\ longjmp_frame(exception_state_ptr)
  /\ UNCHANGED <<memory, request, exception_state, insn, program>>

\* The tail of __djgpp_exception_processor, after raise returned: it reads the
\* frame through the global pointer again.
After ==
  /\ pc = "after" /\ DataOK
  /\ IF stack[exception_state_ptr].signum >= EXCEPTION_COUNT
     THEN longjmp_frame(exception_state_ptr)
     ELSE pc' = "exited" /\ UNCHANGED <<stack, exception_state_ptr>>
  /\ UNCHANGED <<memory, request, exception_state, insn, program>>

\* Mutant: skips the word on the stack and keeps the pointer it has.
PopPtr_Skips ==
  /\ pc = "pop" /\ DataOK
  /\ pc' = "iret"
  /\ UNCHANGED <<memory, request, exception_state, stack, exception_state_ptr, insn,
                 program>>

\* popl ___djgpp_exception_state_ptr, on the new stack: until here an exception
\* saves the pointer of the stack that was left.
PopPtr ==
  /\ pc = "pop" /\ DataOK
  /\ exception_state_ptr' = stack[Len(stack)].prev
  /\ pc' = "iret"
  /\ UNCHANGED <<memory, request, exception_state, stack, insn, program>>

\* The end of longjmp.S: it pops the last registers and takes the iret.
Iret ==
  /\ pc = "iret" /\ DataOK
  /\ pc' = stack[Len(stack)].at
  /\ insn' = stack[Len(stack)].insn
  /\ stack' = SubSeq(stack, 1, Len(stack) - 1)
  /\ UNCHANGED <<memory, request, exception_state, exception_state_ptr, program>>

-----------------------------------------------------------------------------
(* What the program does meanwhile. *)

Running == pc = "run" /\ insn = NoInsn /\ DataOK

\* dpmiexcp.c signal; SIGKILL is refused and is not among Signals.
signal(s, d) ==
  /\ Running
  /\ signal_list' = [signal_list EXCEPT ![s] = d]
  /\ UNCHANGED <<memory, request, control, jb>>

\* raise() called by the program.  A handler it runs is program code like the
\* code around the call, so only a raise that ends the program changes anything.
raise(s) ==
  /\ Running
  /\ RaiseOutcome(s, "run")
  /\ UNCHANGED <<memory, request, exception_state, stack, exception_state_ptr,
                 insn, program>>

\* setjmp.S: the buffer records the stack and the exception frame pointer.
setjmp ==
  /\ Running
  /\ jb' = [depth |-> Len(stack), ptr |-> exception_state_ptr]
  /\ UNCHANGED <<memory, request, control, signal_list>>

\* longjmp.S to the program's own buffer, out of any number of handlers.
longjmp ==
  /\ Running /\ jb # NoBuf
  /\ SwitchStack(jb.depth, jb.ptr, "run", NoInsn)
  /\ UNCHANGED <<memory, request, exception_state, insn, program>>

CallDos ==
  /\ Running
  /\ pc' = "dos"
  /\ UNCHANGED <<memory, request, exception_state, stack, exception_state_ptr,
                 insn, program>>

DosReturn ==
  /\ pc = "dos"
  /\ pc' = "run"
  /\ UNCHANGED <<memory, request, exception_state, stack, exception_state_ptr,
                 insn, program>>

\* crt0.S sbrk got a larger block: it stores the new size, sets the limit of CS
\* and tests the startup flags.  From there to the call that sets the limit of
\* DS it touches registers only.
GrowBegin ==
  /\ Running /\ selLimit <= MaxGrow
  /\ selLimit' = selLimit + 1
  /\ pc' = "grow"
  /\ UNCHANGED <<limit, ds_limit, request, exception_state, stack,
                 exception_state_ptr, insn, program>>

GrowSet ==
  /\ pc = "grow"
  /\ limit' = selLimit
  /\ pc' = "run"
  /\ UNCHANGED <<selLimit, ds_limit, request, exception_state, stack,
                 exception_state_ptr, insn, program>>

\* exit.c, called by the program; ends in _exit.
Exit ==
  /\ Running
  /\ pc' = "exit"
  /\ UNCHANGED <<memory, request, exception_state, stack, exception_state_ptr,
                 insn, program>>

FinishExit ==
  /\ pc = "exit" /\ DataOK
  /\ pc' = "exited"
  /\ UNCHANGED <<memory, request, exception_state, stack, exception_state_ptr,
                 insn, program>>

Exited == pc = "exited" /\ UNCHANGED vars

Next ==
  \/ \E n \in IRQs : HwIntr(n)
  \/ FakeFault
  \/ \E n \in Reals : Reach(n)
  \/ RealFault
  \/ exception_return
  \/ Processor
  \/ HandlerReturn
  \/ After
  \/ PopPtr
  \/ Iret
  \/ \E s \in UserSigs, d \in Dispositions : signal(s, d)
  \/ \E s \in UserSigs : raise(s)
  \/ setjmp
  \/ longjmp
  \/ CallDos
  \/ DosReturn
  \/ GrowBegin
  \/ GrowSet
  \/ Exit
  \/ FinishExit
  \/ Exited

Spec == Init /\ [][Next]_vars

\* The processor executes on: the program touches its data sooner or later, DOS
\* calls return, and the handler and the processor of an exception proceed.
Fairness ==
  /\ WF_vars(FakeFault)
  /\ WF_vars(DosReturn)
  /\ WF_vars(GrowSet)
  /\ WF_vars(exception_return)
  /\ WF_vars(Processor)
  /\ WF_vars(After)
  /\ WF_vars(PopPtr)
  /\ WF_vars(Iret)

FairSpec == Spec /\ Fairness

-----------------------------------------------------------------------------
(* Properties. *)

\* Every variable has its type.
TypeOK ==
  /\ limit \in Nat /\ selLimit \in Nat \ {0} /\ ds_limit \in Nat
  /\ forced \in {0} \cup IRQs
  /\ inuse \in BOOLEAN
  /\ exception_state \in StaticState
  /\ stack \in Seq(Frame)
  /\ exception_state_ptr \in Nat
  /\ pc \in PCs
  /\ insn \in Reals \cup {NoInsn}
  /\ signal_list \in [Signals -> Dispositions]
  /\ jb \in [depth : Nat, ptr : Nat]

\* The data segment is shrunk only while a fake exception is on its way whose
\* handling will restore a usable limit: no order of interrupts, real faults, DOS
\* calls and heap growth leaves the program with a null page for a data segment
\* (exceptn.S ds_limit, limitFix).
ShrunkOnlyWhilePending ==
  limit = NullPage => /\ forced # 0
                      /\ ds_limit \in 1 .. selLimit

\* exception_handler never runs with a shrunk data segment or with a fake
\* exception pending: it writes the static exception_state through that segment
\* and would fault again on top of itself (exceptn.S forced+2, "flag inuse").
HandlerHasItsData ==
  pc = "except" => limit # NullPage /\ forced = 0 /\ inuse

\* A pending fake exception has the data segment shrunk, so that the first access
\* to data delivers it (dpmiexcp.txh, "the first occasion that the program is in
\* protected mode and touches any of its data").  The code does not keep this while
\* sbrk grows the segment: see README.md, section 6.
PendingStopsTheProgram ==
  forced # 0 => limit = NullPage

\* p is the topmost exception frame among the first n elements of the stack st.
TopFrame(st, p, n) ==
  /\ p \in 0 .. n
  /\ p # 0 => st[p].kind = "exc"
  /\ \A k \in p + 1 .. n : st[k].kind = "iret"

\* Code at `at' above n elements of st has the switch of stacks behind it and a pop
\* of the frame pointer before it: its own, or that of the longjmp its iret goes to.
Popping(st, at, n) ==
  \/ at = "pop"
  \/ at = "iret" /\ \E j \in 1 .. n : /\ st[j].at = "pop"
                                     /\ \A k \in j + 1 .. n : st[k].at = "iret"

\* What the frame pointer p means to code at `at' above n elements of st.
Linked(st, at, p, n) == Popping(st, at, n) \/ TopFrame(st, p, n)

\* The code that executes, or that exception_handler has interrupted.
Executing == IF pc = "except" THEN exception_state.at ELSE pc

\* ___djgpp_exception_state_ptr is the innermost live exception frame, except in a
\* longjmp that is on the new stack and has not popped it yet (longjmp.S between
\* the switch of SS:ESP and the pop).  The same holds of the pointer that every
\* frame saved, and every longjmp on its way will pop, with regard to the stack
\* below, and a jmp_buf holds the frame that was innermost at its depth: an
\* exception in that window saves a pointer to a frame that is gone, and the
\* staleness ends with the pop that is executed again.
FramesAreChained ==
  /\ Linked(stack, Executing, exception_state_ptr, Len(stack))
  /\ \A i \in 1 .. Len(stack) : Linked(stack, stack[i].at, stack[i].prev, i - 1)
  /\ jb # NoBuf => jb.depth <= Len(stack) /\ TopFrame(stack, jb.ptr, jb.depth)

\* The exception processor finds its own frame through the global pointer, after
\* raise as before it, whatever nested exceptions its handler went through
\* (dpmiexcp.c __djgpp_exception_processor reads the pointer anew after raise).
ProcessorFindsItsFrame ==
  pc \in {"proc", "after"} => /\ stack # <<>>
                              /\ exception_state_ptr = Len(stack)
                              /\ stack[Len(stack)].kind = "exc"

\* An interrupt that was accepted is handed to the exception processor.
EveryRequestIsTaken == \A n \in IRQs : forced = n ~> forced = 0

\* For each height of the stack st, the numbers of the exceptions whose frames are
\* below it, innermost last.
Nested(st) ==
  LET below[i \in 0 .. Len(st)] ==
        IF i = 0 THEN <<>>
        ELSE IF st[i].kind = "exc" THEN Append(below[i - 1], st[i].signum)
        ELSE below[i - 1]
  IN  below

\* The numbers of the exceptions being handled, innermost last.
Handled ==
  Nested(stack)[Len(stack)] \o IF pc = "except" THEN <<exception_state.signum>> ELSE <<>>

\* How many exceptions were being handled where the program's jmp_buf was filled.
Marks == IF jb = NoBuf THEN {} ELSE {Len(Nested(stack)[jb.depth])}

Abstract == INSTANCE FakeExc WITH Fakes <- IRQs, pending <- forced, active <- Handled,
                                  marks <- Marks, over <- pc = "exited"

\* The machinery keeps the promises of FakeExc: a request is taken exactly once
\* and before a real exception, nesting is last in first out, and a real exception
\* is never resumed: it is left only by a longjmp to a setjmp further out, or
\* with the program (exceptn.S, __djgpp_exception_processor).
KeepsPromises == Abstract!Spec

=============================================================================
