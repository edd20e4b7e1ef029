---------------------------- MODULE ExceptnProofs ----------------------------
(* Proofs about Exceptn, for any set of interrupts and exceptions. *)
EXTENDS Exceptn, Lemmas

\* Code at `at' may be interrupted with n elements on the stack: the end of
\* longjmp has its own words on top, everything else has a frame there or nothing.
Fits(st, at, n) ==
  /\ at \in {"pop", "iret"} <=> (n # 0 /\ st[n].kind = "iret")
  /\ at \in {"proc", "after"} => n # 0

\* A jmp_buf filled by a handler is gone when its exception processor goes on.
NotHeld(b, at, n) == at \in {"proc", "after"} => b = NoBuf \/ b.depth # n

\* The strengthening that makes the properties inductive: the code that runs, and
\* the code every frame will resume, fits the stack below it.
PcFits ==
  /\ inuse <=> pc = "except"
  /\ pc \notin {"except", "exited"} => /\ Fits(stack, pc, Len(stack))
                                       /\ NotHeld(jb, pc, Len(stack))
  /\ pc = "except" => /\ Fits(stack, exception_state.at, Len(stack))
                      /\ NotHeld(jb, exception_state.at, Len(stack))
                      /\ exception_state.prev = exception_state_ptr

FramesFit ==
  /\ \A i \in 1 .. Len(stack) : /\ Fits(stack, stack[i].at, i - 1)
                                /\ NotHeld(jb, stack[i].at, i - 1)
  /\ jb # NoBuf => Fits(stack, "run", jb.depth)

LimitsFit ==
  /\ limit <= selLimit
  /\ forced # 0 => ds_limit \in 1 .. selLimit

IInv == /\ TypeOK /\ LimitsFit /\ ShrunkOnlyWhilePending /\ HandlerHasItsData
        /\ FramesAreChained /\ PcFits /\ FramesFit

-----------------------------------------------------------------------------
(* Sequences. *)

\* Two stacks that agree below n have the same topmost frame there, and the same
\* code may be interrupted there.
LEMMA SamePrefix ==
  ASSUME NEW st, NEW st2, NEW n \in Nat, NEW p, NEW at,
         \A i \in 1 .. n : st2[i] = st[i]
  PROVE  /\ TopFrame(st, p, n) => TopFrame(st2, p, n)
         /\ Fits(st, at, n) => Fits(st2, at, n)
         /\ Linked(st, at, p, n) => Linked(st2, at, p, n)
<1>1. TopFrame(st, p, n) => TopFrame(st2, p, n)
  <2>1. SUFFICES ASSUME TopFrame(st, p, n) PROVE TopFrame(st2, p, n)
    OBVIOUS
  <2>2. p \in 0 .. n /\ (p # 0 => st[p].kind = "exc")
        /\ \A k \in p + 1 .. n : st[k].kind = "iret"
    BY <2>1 DEF TopFrame
  <2>3. p # 0 => st2[p].kind = "exc"
    BY <2>2
  <2>4. \A k \in p + 1 .. n : st2[k].kind = "iret"
    BY <2>2
  <2> QED BY <2>2, <2>3, <2>4 DEF TopFrame
<1>2. Fits(st, at, n) => Fits(st2, at, n)
  BY DEF Fits
<1>3. Popping(st, at, n) => Popping(st2, at, n)
  <2> SUFFICES ASSUME at = "iret", NEW j \in 1 .. n, st[j].at = "pop",
                      \A k \in j + 1 .. n : st[k].at = "iret"
               PROVE  /\ st2[j].at = "pop"
                      /\ \A k \in j + 1 .. n : st2[k].at = "iret"
    BY DEF Popping
  <2>1. \A k \in j + 1 .. n : k \in 1 .. n
    OBVIOUS
  <2> QED BY <2>1
<1> QED BY <1>1, <1>2, <1>3 DEF Linked

\* Only the end of longjmp has a pop before it, and an iret has one when the code it
\* goes to has one.
LEMMA PoppingFacts ==
  ASSUME NEW st, NEW n \in Nat
  PROVE  /\ \A at : at \notin {"pop", "iret"} => ~ Popping(st, at, n)
         /\ Popping(st, "pop", n)
         /\ n # 0 => (Popping(st, "iret", n) <=> Popping(st, st[n].at, n - 1))
<1>1. (\A at : at \notin {"pop", "iret"} => ~ Popping(st, at, n)) /\ Popping(st, "pop", n)
  BY DEF Popping
<1>2. ASSUME n # 0, Popping(st, "iret", n) PROVE Popping(st, st[n].at, n - 1)
  <2>1. PICK j \in 1 .. n : st[j].at = "pop" /\ \A k \in j + 1 .. n : st[k].at = "iret"
    BY <1>2 DEF Popping
  <2>2. CASE j = n
    BY <2>1, <2>2 DEF Popping
  <2>3. CASE j # n
    <3>1. j \in 1 .. n - 1 /\ n \in j + 1 .. n /\ \A k \in j + 1 .. n - 1 : k \in j + 1 .. n
      BY <2>3
    <3> QED BY <2>1, <3>1 DEF Popping
  <2> QED BY <2>2, <2>3
<1>3. ASSUME n # 0, Popping(st, st[n].at, n - 1) PROVE Popping(st, "iret", n)
  <2>1. CASE st[n].at = "pop"
    <3>1. n \in 1 .. n /\ \A k \in n + 1 .. n : FALSE
      BY <1>3
    <3> QED BY <2>1, <3>1 DEF Popping
  <2>2. CASE st[n].at # "pop"
    <3>1. PICK j \in 1 .. n - 1 : st[j].at = "pop" /\ \A k \in j + 1 .. n - 1 : st[k].at = "iret"
      BY <1>3, <2>2 DEF Popping
    <3>2. st[n].at = "iret"
      BY <1>3, <2>2 DEF Popping
    <3>3. j \in 1 .. n /\ \A k \in j + 1 .. n : k = n \/ k \in j + 1 .. n - 1
      BY <1>3
    <3>4. \A k \in j + 1 .. n : st[k].at = "iret"
      BY <3>1, <3>2, <3>3
    <3> QED BY <3>1, <3>3, <3>4 DEF Popping
  <2> QED BY <2>1, <2>2
<1> QED BY <1>1, <1>2, <1>3

-----------------------------------------------------------------------------
(* The invariant. *)

\* Init establishes the invariant.
LEMMA InitIInv == Init => IInv
<1> SUFFICES ASSUME Init PROVE IInv
  OBVIOUS
<1> USE BoundsAssumption DEF Init
<1>1. TypeOK
  <2>1. NoInsn \in Reals \cup {NoInsn} /\ exception_state \in StaticState
    BY DEF StaticState, NoState, Interruptible
  <2>2. jb \in [depth : Nat, ptr : Nat]
    BY DEF NoBuf
  <2>3. signal_list \in [Signals -> Dispositions]
    BY DEF Dispositions
  <2>4. stack \in Seq(Frame)
    <3>1. <<>> \in Seq(Frame)
      OBVIOUS
    <3> QED BY <3>1
  <2>6. inuse \in BOOLEAN
    OBVIOUS
  <2>5. pc \in PCs
    BY DEF PCs, Interruptible
  <2> QED BY <2>1, <2>2, <2>3, <2>4, <2>5, <2>6 DEF TypeOK
<1>2. LimitsFit /\ ShrunkOnlyWhilePending /\ HandlerHasItsData
  BY DEF LimitsFit, ShrunkOnlyWhilePending, HandlerHasItsData, NullPage
<1>3. FramesAreChained
  BY DEF FramesAreChained, Linked, TopFrame
<1>4. PcFits /\ FramesFit
  BY DEF PcFits, FramesFit, Fits, NotHeld
<1> QED BY <1>1, <1>2, <1>3, <1>4 DEF IInv

\* A step that leaves the stack, the pointer and the buffer alone keeps the chain,
\* unless it ends a longjmp.
LEMMA QuietStep ==
  ASSUME IInv, UNCHANGED <<stack, exception_state_ptr, jb>>,
         Executing' = Executing \/ Executing \notin {"pop", "iret"}
  PROVE  FramesAreChained' /\ FramesFit'
<1>1. FramesAreChained'
  <2>1. Len(stack) \in Nat /\ Linked(stack, Executing, exception_state_ptr, Len(stack))
    BY DEF IInv, FramesAreChained, TypeOK
  <2>2. Linked(stack, Executing', exception_state_ptr, Len(stack))
    BY <2>1, PoppingFacts DEF Linked
  <2>3. \A i \in 1 .. Len(stack) : Linked(stack, stack[i].at, stack[i].prev, i - 1)
    BY DEF IInv, FramesAreChained
  <2> QED BY <2>2, <2>3 DEF IInv, FramesAreChained
<1>2. FramesFit'
  <2>1. \A i \in 1 .. Len(stack') : NotHeld(jb', stack'[i].at, i - 1)
    BY DEF IInv, FramesFit, NotHeld
  <2> QED BY <2>1 DEF IInv, FramesFit
<1> QED BY <1>1, <1>2

\* Interrupts keep the invariant.
LEMMA HwIntrIInv ==
  ASSUME IInv, NEW n \in IRQs, HwIntr(n)
  PROVE  IInv'
<1> USE DEF HwIntr, hw_exception, memory, request, control, program
<1>0. TypeOK /\ LimitsFit /\ ShrunkOnlyWhilePending /\ HandlerHasItsData /\ PcFits
  BY DEF IInv
<1>1. n \in Nat /\ n # 0
  BY IRQsAssumption DEF NPX, TIMR, INTR, QUIT, CBRK
<1>2. UNCHANGED <<stack, exception_state_ptr, jb, pc, insn, exception_state, inuse, selLimit>>
  OBVIOUS
<1>3. FramesAreChained' /\ FramesFit'
  BY <1>2, QuietStep DEF Executing
<1>4. TypeOK'
  BY <1>0, <1>1 DEF TypeOK, NullPage
<1>5. LimitsFit' /\ ShrunkOnlyWhilePending'
  BY <1>0, <1>1 DEF LimitsFit, ShrunkOnlyWhilePending, TypeOK, NullPage
<1>6. HandlerHasItsData'
  BY <1>0, <1>2 DEF HandlerHasItsData, PcFits
<1>7. PcFits'
  BY <1>0, <1>2 DEF PcFits, NotHeld
<1> QED BY <1>3, <1>4, <1>5, <1>6, <1>7 DEF IInv

\* The exception handler's entry keeps the invariant, from any interruptible code.
LEMMA EntryIInv ==
  ASSUME IInv, pc \in Interruptible, NEW n \in Nat, NEW retry \in Reals \cup {NoInsn},
         exception_handler(n, retry)
  PROVE  IInv'
<1> USE DEF exception_handler, SaveState, program
<1>0. TypeOK /\ LimitsFit /\ ShrunkOnlyWhilePending /\ HandlerHasItsData /\ PcFits
  BY DEF IInv
<1>1. forced \in Nat
  BY <1>0, IRQsAssumption DEF TypeOK, NPX, TIMR, INTR, QUIT, CBRK
<1>2. /\ UNCHANGED <<stack, exception_state_ptr, jb, selLimit, ds_limit, signal_list>>
      /\ pc' = "except" /\ insn' = NoInsn /\ forced' = 0 /\ inuse' = TRUE
      /\ limit' = IF forced # 0 THEN ds_limit ELSE limit
      /\ exception_state' = [signum |-> IF forced # 0 THEN forced ELSE n,
                             prev |-> exception_state_ptr, at |-> pc, insn |-> retry]
  OBVIOUS
<1>3. FramesAreChained' /\ FramesFit'
  <2>1. Executing' = Executing
    BY <1>2 DEF Executing, Interruptible
  <2> QED BY <1>2, <2>1, QuietStep
<1>4. TypeOK'
  <2>1. exception_state' \in StaticState
    BY <1>0, <1>1, <1>2 DEF TypeOK, StaticState
  <2>2. pc' \in PCs /\ inuse' \in BOOLEAN
    BY <1>2 DEF PCs
  <2> QED BY <1>0, <1>2, <2>1, <2>2 DEF TypeOK
<1>5. LimitsFit' /\ ShrunkOnlyWhilePending' /\ limit' # NullPage
  BY <1>0, <1>2 DEF LimitsFit, ShrunkOnlyWhilePending, TypeOK, NullPage
<1>6. HandlerHasItsData'
  BY <1>2, <1>5 DEF HandlerHasItsData
<1>7. PcFits'
  <2>1. pc \notin {"except", "exited"}
    BY DEF Interruptible
  <2>2. Fits(stack, pc, Len(stack)) /\ NotHeld(jb, pc, Len(stack))
    BY <1>0, <2>1 DEF PcFits
  <2>3. exception_state'.at = pc /\ exception_state'.prev = exception_state_ptr'
    BY <1>2
  <2>4. Fits(stack', exception_state'.at, Len(stack')) /\ NotHeld(jb', exception_state'.at, Len(stack'))
    BY <1>2, <2>2, <2>3 DEF NotHeld
  <2> QED BY <1>2, <2>3, <2>4 DEF PcFits
<1> QED BY <1>3, <1>4, <1>5, <1>6, <1>7 DEF IInv

\* A fault of the shrunk segment and a fault of the program keep the invariant.
LEMMA FaultIInv ==
  ASSUME IInv, FakeFault \/ RealFault
  PROVE  IInv'
<1>0. insn \in Reals \cup {NoInsn} /\ NoInsn \in Nat /\ Reals \subseteq Nat /\ 13 \in Nat
  BY RealsAssumption DEF IInv, TypeOK, NoInsn, EXCEPTION_COUNT
<1>1. Retried(insn) \in Reals \cup {NoInsn}
  BY <1>0 DEF Retried
<1>2. CASE FakeFault
  BY <1>0, <1>2, EntryIInv DEF FakeFault
<1>3. CASE RealFault
  BY <1>0, <1>1, <1>3, EntryIInv DEF RealFault, Interruptible
<1> QED BY <1>2, <1>3

\* The exception handler's return pushes a frame that continues the chain.
LEMMA ReturnIInv ==
  ASSUME IInv, exception_return
  PROVE  IInv'
<1> DEFINE f == [kind |-> "exc", signum |-> exception_state.signum,
                 prev |-> exception_state.prev, at |-> exception_state.at,
                 insn |-> exception_state.insn]
           n == Len(stack)
<1>0. TypeOK /\ LimitsFit /\ ShrunkOnlyWhilePending /\ HandlerHasItsData /\ PcFits
      /\ FramesAreChained /\ FramesFit
  BY DEF IInv
<1>1. /\ pc = "except" /\ stack' = Append(stack, f)
      /\ exception_state_ptr' = n + 1 /\ inuse' = FALSE /\ pc' = "proc"
      /\ UNCHANGED <<limit, selLimit, ds_limit, forced, exception_state, insn,
                     signal_list, jb>>
  BY DEF exception_return, memory, program
<1>2. f \in Frame /\ n \in Nat
  BY <1>0 DEF TypeOK, StaticState, Frame
<1>3. /\ stack' \in Seq(Frame) /\ Len(stack') = n + 1 /\ stack'[n + 1] = f
      /\ \A i \in 1 .. n : stack'[i] = stack[i]
  BY <1>0, <1>1, <1>2, AppendFacts DEF TypeOK
<1>4. TypeOK'
  <2>1. pc' \in PCs /\ inuse' \in BOOLEAN
    BY <1>1 DEF PCs, Interruptible
  <2>2. exception_state_ptr' \in Nat
    BY <1>1, <1>2
  <2> QED BY <1>0, <1>1, <1>3, <2>1, <2>2 DEF TypeOK
<1>5. LimitsFit' /\ ShrunkOnlyWhilePending' /\ HandlerHasItsData'
  BY <1>0, <1>1 DEF LimitsFit, ShrunkOnlyWhilePending, HandlerHasItsData
<1>6. \A m \in 0 .. n : \A p, at :
        /\ TopFrame(stack, p, m) => TopFrame(stack', p, m)
        /\ Fits(stack, at, m) => Fits(stack', at, m)
        /\ Linked(stack, at, p, m) => Linked(stack', at, p, m)
  <2> SUFFICES ASSUME NEW m \in 0 .. n, NEW p, NEW at
               PROVE  /\ TopFrame(stack, p, m) => TopFrame(stack', p, m)
                      /\ Fits(stack, at, m) => Fits(stack', at, m)
                      /\ Linked(stack, at, p, m) => Linked(stack', at, p, m)
    OBVIOUS
  <2>1. m \in Nat /\ \A i \in 1 .. m : stack'[i] = stack[i]
    BY <1>2, <1>3
  <2> QED BY <2>1, SamePrefix
<1>7. jb # NoBuf => jb.depth \in 0 .. n
  BY <1>0, <1>2 DEF FramesAreChained, TypeOK
<1>8. FramesAreChained'
  <2>1. Linked(stack', pc', n + 1, n + 1)
    <3>1. TopFrame(stack', n + 1, n + 1)
      BY <1>2, <1>3 DEF TopFrame
    <3> QED BY <3>1 DEF Linked
  <2>2. ASSUME NEW i \in 1 .. n + 1
        PROVE  Linked(stack', stack'[i].at, stack'[i].prev, i - 1)
    <3>1. CASE i = n + 1
      <4>1. Linked(stack, f.at, f.prev, n)
        BY <1>0, <1>1 DEF FramesAreChained, PcFits, Executing
      <4>2. stack'[i] = f /\ i - 1 = n /\ n \in 0 .. n
        BY <1>2, <1>3, <3>1
      <4>3. Linked(stack', f.at, f.prev, n)
        BY <1>6, <4>1, <4>2
      <4> QED BY <4>2, <4>3
    <3>2. CASE i \in 1 .. n
      <4>1. Linked(stack, stack[i].at, stack[i].prev, i - 1)
        BY <1>0, <3>2 DEF FramesAreChained
      <4>2. i - 1 \in 0 .. n /\ stack'[i] = stack[i]
        BY <1>2, <1>3, <3>2
      <4> QED BY <1>6, <4>1, <4>2
    <3> QED BY <1>2, <3>1, <3>2
  <2>3. jb' # NoBuf => jb'.depth <= Len(stack') /\ TopFrame(stack', jb'.ptr, jb'.depth)
    <3>1. jb # NoBuf => TopFrame(stack, jb.ptr, jb.depth)
      BY <1>0 DEF FramesAreChained
    <3>2. jb # NoBuf => TopFrame(stack', jb.ptr, jb.depth)
      BY <1>6, <1>7, <3>1
    <3> QED BY <1>1, <1>2, <1>3, <1>7, <3>2
  <2>4. Executing' = pc'
    BY <1>1 DEF Executing
  <2> QED BY <1>1, <1>3, <2>1, <2>2, <2>3, <2>4 DEF FramesAreChained
<1>9. PcFits'
  <2>1. Fits(stack', "proc", n + 1)
    BY <1>2, <1>3 DEF Fits
  <2>2. NotHeld(jb', "proc", n + 1)
    BY <1>1, <1>2, <1>7 DEF NotHeld
  <2> QED BY <1>1, <1>3, <2>1, <2>2 DEF PcFits
<1>10. FramesFit'
  <2>1. ASSUME NEW i \in 1 .. n + 1
        PROVE  Fits(stack', stack'[i].at, i - 1) /\ NotHeld(jb', stack'[i].at, i - 1)
    <3>1. CASE i = n + 1
      <4>1. Fits(stack, f.at, n) /\ NotHeld(jb, f.at, n)
        BY <1>0, <1>1 DEF PcFits
      <4>2. Fits(stack', f.at, n) /\ stack'[i] = f /\ i - 1 = n
        BY <1>2, <1>3, <1>6, <3>1, <4>1
      <4> QED BY <1>1, <4>1, <4>2 DEF NotHeld
    <3>2. CASE i \in 1 .. n
      <4>1. Fits(stack, stack[i].at, i - 1) /\ NotHeld(jb, stack[i].at, i - 1)
        BY <1>0, <3>2 DEF FramesFit
      <4>2. i - 1 \in 0 .. n /\ stack'[i] = stack[i]
        BY <1>2, <1>3, <3>2
      <4> QED BY <1>1, <1>6, <4>1, <4>2 DEF NotHeld
    <3> QED BY <1>2, <3>1, <3>2
  <2>2. jb' # NoBuf => Fits(stack', "run", jb'.depth)
    BY <1>0, <1>1, <1>6, <1>7 DEF FramesFit
  <2> QED BY <1>1, <1>3, <2>1, <2>2 DEF FramesFit
<1> QED BY <1>4, <1>5, <1>8, <1>9, <1>10 DEF IInv

\* Cutting the stack keeps the chain below the cut.
LEMMA CutFacts ==
  ASSUME IInv, NEW m \in 0 .. Len(stack), NEW st,
         \A i \in 1 .. m : st[i] = stack[i]
  PROVE  /\ \A i \in 1 .. m : /\ Linked(st, st[i].at, st[i].prev, i - 1)
                              /\ Fits(st, st[i].at, i - 1)
                              /\ NotHeld(jb, st[i].at, i - 1)
         /\ \A k \in 0 .. m : \A p, at : /\ TopFrame(stack, p, k) => TopFrame(st, p, k)
                                         /\ Fits(stack, at, k) => Fits(st, at, k)
                                         /\ Linked(stack, at, p, k) => Linked(st, at, p, k)
<1>0. Len(stack) \in Nat
  BY DEF IInv, TypeOK
<1>1. ASSUME NEW k \in 0 .. m, NEW p, NEW at
      PROVE  /\ TopFrame(stack, p, k) => TopFrame(st, p, k)
             /\ Fits(stack, at, k) => Fits(st, at, k)
             /\ Linked(stack, at, p, k) => Linked(st, at, p, k)
  <2>1. k \in Nat /\ \A i \in 1 .. k : st[i] = stack[i]
    BY <1>0
  <2> QED BY <2>1, SamePrefix
<1>2. ASSUME NEW i \in 1 .. m
      PROVE  /\ Linked(st, st[i].at, st[i].prev, i - 1)
             /\ Fits(st, st[i].at, i - 1)
             /\ NotHeld(jb, st[i].at, i - 1)
  <2>1. i \in 1 .. Len(stack) /\ i - 1 \in 0 .. m /\ st[i] = stack[i]
    BY <1>0
  <2>2. /\ Linked(stack, stack[i].at, stack[i].prev, i - 1)
        /\ Fits(stack, stack[i].at, i - 1) /\ NotHeld(jb, stack[i].at, i - 1)
    BY <2>1 DEF IInv, FramesAreChained, FramesFit
  <2> QED BY <1>1, <2>1, <2>2
<1> QED BY <1>1, <1>2

\* The switch of stacks keeps the invariant when the words on the new stack belong
\* there and no live buffer is above it.
LEMMA SwitchIInv ==
  ASSUME IInv, pc \in {"run", "after"},
         NEW m \in 0 .. Len(stack), NEW prev \in Nat, NEW at \in Interruptible,
         NEW next \in Reals \cup {NoInsn},
         SwitchStack(m, prev, at, next),
         UNCHANGED <<memory, request, exception_state, insn, program>>,
         Linked(stack, at, prev, m), Fits(stack, at, m), NotHeld(jb, at, m),
         jb # NoBuf => jb.depth <= m
  PROVE  IInv'
<1> DEFINE g == [kind |-> "iret", signum |-> 0, prev |-> prev, at |-> at, insn |-> next]
<1>0. TypeOK /\ LimitsFit /\ ShrunkOnlyWhilePending /\ HandlerHasItsData /\ PcFits
      /\ FramesAreChained /\ FramesFit
  BY DEF IInv
<1>1. /\ UNCHANGED <<limit, selLimit, ds_limit, forced, inuse, exception_state, insn,
                     signal_list, jb, exception_state_ptr>>
      /\ stack' = Append(SubSeq(stack, 1, m), g) /\ pc' = "pop"
  BY DEF SwitchStack, memory, request, program
<1>2. g \in Frame /\ g.kind = "iret" /\ g.at = at /\ g.prev = prev
  BY DEF Frame
<1>3. m \in Nat /\ m + 1 \in Nat /\ m + 1 # 0 /\ stack \in Seq(Frame) /\ Len(stack) \in Nat
  BY <1>0 DEF TypeOK
<1>4. /\ stack' \in Seq(Frame) /\ Len(stack') = m + 1 /\ stack'[m + 1] = g
      /\ \A i \in 1 .. m : stack'[i] = stack[i]
  <2> DEFINE c == SubSeq(stack, 1, m)
  <2>1. c \in Seq(Frame) /\ Len(c) = m /\ \A i \in 1 .. m : c[i] = stack[i]
    BY <1>3, PrefixFacts
  <2> HIDE DEF c, g
  <2>2. /\ Append(c, g) \in Seq(Frame) /\ Len(Append(c, g)) = Len(c) + 1
        /\ \A i \in 1 .. Len(c) : Append(c, g)[i] = c[i]
        /\ Append(c, g)[Len(c) + 1] = g
    BY <1>2, <2>1, AppendFacts
  <2>3. stack' = Append(c, g)
    BY <1>1 DEF c
  <2> QED BY <2>1, <2>2, <2>3
<1>5. /\ \A i \in 1 .. m :
           /\ Linked(stack', stack'[i].at, stack'[i].prev, i - 1)
           /\ Fits(stack', stack'[i].at, i - 1)
           /\ NotHeld(jb, stack'[i].at, i - 1)
      /\ \A k \in 0 .. m : \A p, a :
           /\ TopFrame(stack, p, k) => TopFrame(stack', p, k)
           /\ Fits(stack, a, k) => Fits(stack', a, k)
           /\ Linked(stack, a, p, k) => Linked(stack', a, p, k)
  BY <1>4, CutFacts
<1>6. /\ stack'[m + 1].at = at /\ stack'[m + 1].prev = prev /\ stack'[m + 1].kind = "iret"
      /\ (m + 1) - 1 = m /\ m \in 0 .. m
      /\ \A i \in 1 .. m + 1 : i = m + 1 \/ i \in 1 .. m
  BY <1>2, <1>3, <1>4
<1> HIDE DEF g
<1>7. ASSUME NEW i \in 1 .. m + 1
      PROVE  /\ Linked(stack', stack'[i].at, stack'[i].prev, i - 1)
             /\ Fits(stack', stack'[i].at, i - 1)
             /\ NotHeld(jb, stack'[i].at, i - 1)
  <2>1. CASE i = m + 1
    <3>1. Linked(stack', at, prev, m) /\ Fits(stack', at, m)
      BY <1>5, <1>6
    <3> QED BY <2>1, <3>1, <1>6
  <2>2. CASE i \in 1 .. m
    BY <1>5, <2>2
  <2> QED BY <1>6, <2>1, <2>2
<1>8. jb # NoBuf => jb.depth \in 0 .. m /\ jb.depth <= m + 1
  BY <1>0, <1>3 DEF TypeOK
<1>9. TypeOK'
  <2>1. pc' \in PCs
    BY <1>1 DEF PCs, Interruptible
  <2> QED BY <1>0, <1>1, <1>4, <2>1 DEF TypeOK
<1>10. LimitsFit' /\ ShrunkOnlyWhilePending' /\ HandlerHasItsData'
  BY <1>0, <1>1 DEF LimitsFit, ShrunkOnlyWhilePending, HandlerHasItsData
<1>11. FramesAreChained'
  <2>1. Executing' = "pop"
    BY <1>1 DEF Executing
  <2>2. Linked(stack', "pop", exception_state_ptr', m + 1)
    BY DEF Linked, Popping
  <2>3. jb' # NoBuf => jb'.depth <= m + 1 /\ TopFrame(stack', jb'.ptr, jb'.depth)
    <3>1. jb # NoBuf => TopFrame(stack, jb.ptr, jb.depth)
      BY <1>0 DEF FramesAreChained
    <3> QED BY <1>1, <1>5, <1>8, <3>1
  <2> QED BY <1>4, <1>7, <2>1, <2>2, <2>3 DEF FramesAreChained
<1>12. FramesFit'
  <2>1. jb' # NoBuf => Fits(stack', "run", jb'.depth)
    BY <1>0, <1>1, <1>5, <1>8 DEF FramesFit
  <2> QED BY <1>1, <1>4, <1>7, <2>1 DEF FramesFit
<1>13. PcFits'
  <2>1. Fits(stack', "pop", m + 1) /\ NotHeld(jb', "pop", m + 1)
    BY <1>3, <1>6 DEF Fits, NotHeld
  <2> QED BY <1>0, <1>1, <1>4, <2>1 DEF PcFits
<1> QED BY <1>9, <1>10, <1>11, <1>12, <1>13 DEF IInv

\* Code of the exception processor has its frame on top and under the pointer.
LEMMA ProcessorFrame ==
  ASSUME IInv, pc \in {"proc", "after"}
  PROVE  /\ Len(stack) \in Nat /\ Len(stack) # 0 /\ stack[Len(stack)] \in Frame
         /\ stack[Len(stack)].kind = "exc" /\ exception_state_ptr = Len(stack)
<1> DEFINE n == Len(stack)
<1>1. n \in Nat /\ n # 0 /\ Fits(stack, pc, n)
  BY DEF IInv, PcFits, Fits, TypeOK
<1>2. stack[n] \in Frame
  BY <1>1 DEF IInv, TypeOK
<1>3. stack[n].kind = "exc"
  BY <1>1, <1>2 DEF Fits, Frame
<1>4. TopFrame(stack, exception_state_ptr, n)
  <2>1. Linked(stack, pc, exception_state_ptr, n)
    BY DEF IInv, FramesAreChained, Executing
  <2> QED BY <1>1, <2>1, PoppingFacts DEF Linked
<1>5. exception_state_ptr = n
  BY <1>1, <1>3, <1>4 DEF TopFrame
<1> QED BY <1>1, <1>2, <1>3, <1>5

\* The processor's resumption of a fake exception keeps the invariant.
LEMMA AfterIInv ==
  ASSUME IInv, After
  PROVE  IInv'
<1>0. TypeOK /\ LimitsFit /\ ShrunkOnlyWhilePending /\ HandlerHasItsData /\ PcFits
      /\ FramesAreChained /\ FramesFit
  BY DEF IInv
<1>1. /\ pc = "after"
      /\ UNCHANGED <<memory, request, exception_state, insn, program>>
      /\ UNCHANGED <<limit, selLimit, ds_limit, forced, inuse, exception_state, insn,
                     signal_list, jb>>
  BY DEF After, memory, request, program
<1>2. CASE pc' = "exited" /\ UNCHANGED <<stack, exception_state_ptr>>
  <2>1. FramesAreChained' /\ FramesFit'
    BY <1>1, <1>2, QuietStep DEF Executing
  <2>2. TypeOK'
    BY <1>0, <1>1, <1>2 DEF TypeOK, PCs
  <2>3. LimitsFit' /\ ShrunkOnlyWhilePending' /\ HandlerHasItsData' /\ PcFits'
    BY <1>0, <1>1, <1>2 DEF LimitsFit, ShrunkOnlyWhilePending, HandlerHasItsData, PcFits
  <2> QED BY <2>1, <2>2, <2>3 DEF IInv
<1>3. CASE longjmp_frame(exception_state_ptr)
  <2> DEFINE n == Len(stack)
             f == stack[n]
  <2>1. n \in Nat /\ n # 0 /\ f \in Frame /\ exception_state_ptr = n
    BY <1>1, ProcessorFrame
  <2>2. f.prev \in Nat /\ f.at \in Interruptible /\ f.insn \in Reals \cup {NoInsn}
    BY <2>1 DEF Frame
  <2>3. SwitchStack(n - 1, f.prev, f.at, f.insn) /\ n - 1 \in 0 .. Len(stack) /\ n \in 1 .. Len(stack)
    BY <1>3, <2>1 DEF longjmp_frame
  <2>4. Linked(stack, f.at, f.prev, n - 1) /\ Fits(stack, f.at, n - 1) /\ NotHeld(jb, f.at, n - 1)
    BY <1>0, <2>3 DEF FramesAreChained, FramesFit
  <2>5. jb # NoBuf => jb.depth <= n - 1
    <3>1. NotHeld(jb, "after", n)
      BY <1>0, <1>1 DEF PcFits
    <3>2. jb # NoBuf => jb.depth # n /\ jb.depth <= n /\ jb.depth \in Nat
      BY <1>0, <3>1 DEF NotHeld, FramesAreChained, TypeOK
    <3> QED BY <2>1, <3>2
  <2> QED BY <1>1, <2>2, <2>3, <2>4, <2>5, SwitchIInv
<1> QED BY <1>2, <1>3 DEF After

\* The program's own longjmp keeps the invariant.
LEMMA LongjmpIInv ==
  ASSUME IInv, longjmp
  PROVE  IInv'
<1>1. /\ pc = "run" /\ jb # NoBuf /\ SwitchStack(jb.depth, jb.ptr, "run", NoInsn)
      /\ UNCHANGED <<memory, request, exception_state, insn, program>>
  BY DEF longjmp, Running
<1>2. /\ jb.depth \in 0 .. Len(stack) /\ jb.ptr \in Nat /\ TopFrame(stack, jb.ptr, jb.depth)
      /\ Fits(stack, "run", jb.depth) /\ jb.depth <= jb.depth
  BY <1>1 DEF IInv, FramesAreChained, FramesFit, TypeOK
<1>3. Linked(stack, "run", jb.ptr, jb.depth) /\ NotHeld(jb, "run", jb.depth)
  BY <1>2 DEF Linked, NotHeld
<1>4. "run" \in Interruptible /\ NoInsn \in Reals \cup {NoInsn}
  BY DEF Interruptible
<1> QED BY <1>1, <1>2, <1>3, <1>4, SwitchIInv

\* The pop makes the pointer what the resumed code expects.
LEMMA PopPtrIInv ==
  ASSUME IInv, PopPtr
  PROVE  IInv'
<1> DEFINE n == Len(stack)
<1>0. TypeOK /\ LimitsFit /\ ShrunkOnlyWhilePending /\ HandlerHasItsData /\ PcFits
      /\ FramesAreChained /\ FramesFit
  BY DEF IInv
<1>1. /\ pc = "pop" /\ pc' = "iret" /\ exception_state_ptr' = stack[n].prev
      /\ UNCHANGED <<limit, selLimit, ds_limit, forced, inuse, exception_state, stack,
                     insn, signal_list, jb>>
  BY DEF PopPtr, memory, request, program
<1>2. n \in Nat /\ n # 0 /\ stack[n].kind = "iret" /\ stack[n] \in Frame /\ n \in 1 .. n
  BY <1>0, <1>1 DEF PcFits, Fits, TypeOK
<1>3. TypeOK'
  <2>1. exception_state_ptr' \in Nat
    BY <1>1, <1>2 DEF Frame
  <2>2. pc' \in PCs
    BY <1>1 DEF PCs, Interruptible
  <2> QED BY <1>0, <1>1, <2>1, <2>2 DEF TypeOK
<1>4. LimitsFit' /\ ShrunkOnlyWhilePending' /\ HandlerHasItsData'
  BY <1>0, <1>1 DEF LimitsFit, ShrunkOnlyWhilePending, HandlerHasItsData
<1>5. Linked(stack, "iret", stack[n].prev, n)
  <2>1. Linked(stack, stack[n].at, stack[n].prev, n - 1)
    BY <1>0, <1>2 DEF FramesAreChained
  <2>2. CASE Popping(stack, stack[n].at, n - 1)
    BY <1>2, <2>2, PoppingFacts DEF Linked
  <2>3. CASE TopFrame(stack, stack[n].prev, n - 1)
    <3>1. TopFrame(stack, stack[n].prev, n)
      BY <1>2, <2>3 DEF TopFrame
    <3> QED BY <3>1 DEF Linked
  <2> QED BY <2>1, <2>2, <2>3 DEF Linked
<1>6. FramesAreChained'
  <2>1. Executing' = "iret"
    BY <1>1 DEF Executing
  <2>2. \A i \in 1 .. n : Linked(stack, stack[i].at, stack[i].prev, i - 1)
    BY <1>0 DEF FramesAreChained
  <2> QED BY <1>0, <1>1, <1>5, <2>1, <2>2 DEF FramesAreChained
<1>7. FramesFit'
  BY <1>0, <1>1 DEF FramesFit, NotHeld
<1>8. PcFits'
  <2>1. Fits(stack, "iret", n) /\ NotHeld(jb, "iret", n)
    BY <1>2 DEF Fits, NotHeld
  <2> QED BY <1>0, <1>1, <2>1 DEF PcFits, NotHeld
<1> QED BY <1>3, <1>4, <1>6, <1>7, <1>8 DEF IInv

\* The last pops of longjmp give the stack back to the code they resume.
LEMMA IretIInv ==
  ASSUME IInv, Iret
  PROVE  IInv'
<1> DEFINE n == Len(stack)
<1>0. TypeOK /\ LimitsFit /\ ShrunkOnlyWhilePending /\ HandlerHasItsData /\ PcFits
      /\ FramesAreChained /\ FramesFit
  BY DEF IInv
<1>1. /\ pc = "iret" /\ pc' = stack[n].at /\ insn' = stack[n].insn
      /\ stack' = SubSeq(stack, 1, n - 1)
      /\ UNCHANGED <<limit, selLimit, ds_limit, forced, inuse, exception_state,
                     exception_state_ptr, signal_list, jb>>
  BY DEF Iret, memory, request, program
<1>2. n \in Nat /\ n # 0 /\ stack[n].kind = "iret" /\ stack[n] \in Frame
  BY <1>0, <1>1 DEF PcFits, Fits, TypeOK
<1>3. /\ stack' \in Seq(Frame) /\ Len(stack') = n - 1
      /\ \A i \in 1 .. n - 1 : stack'[i] = stack[i]
  <2>1. n - 1 \in 0 .. Len(stack) /\ stack \in Seq(Frame)
    BY <1>0, <1>2 DEF TypeOK
  <2> QED BY <1>1, <2>1, PrefixFacts
<1>4. /\ \A i \in 1 .. n - 1 :
           /\ Linked(stack', stack'[i].at, stack'[i].prev, i - 1)
           /\ Fits(stack', stack'[i].at, i - 1)
           /\ NotHeld(jb, stack'[i].at, i - 1)
      /\ \A k \in 0 .. n - 1 : \A p, at :
           /\ TopFrame(stack, p, k) => TopFrame(stack', p, k)
           /\ Fits(stack, at, k) => Fits(stack', at, k)
           /\ Linked(stack, at, p, k) => Linked(stack', at, p, k)
  <2>1. n - 1 \in 0 .. Len(stack)
    BY <1>2
  <2> QED BY <1>3, <2>1, CutFacts
<1>5. jb # NoBuf => jb.depth \in 0 .. n - 1
  <2>1. jb # NoBuf => jb.depth # n
    BY <1>0, <1>2 DEF FramesFit, Fits
  <2> QED BY <1>0, <1>2, <2>1 DEF FramesAreChained, TypeOK
<1>6. pc' \in Interruptible /\ insn' \in Reals \cup {NoInsn}
  BY <1>1, <1>2 DEF Frame
<1>7. TypeOK'
  BY <1>0, <1>1, <1>3, <1>6 DEF TypeOK, PCs
<1>8. LimitsFit' /\ ShrunkOnlyWhilePending' /\ HandlerHasItsData'
  BY <1>0, <1>1, <1>6 DEF LimitsFit, ShrunkOnlyWhilePending, HandlerHasItsData, Interruptible
<1>9. n - 1 \in 0 .. n - 1
  BY <1>2
<1>10. FramesAreChained'
  <2>1. Linked(stack, stack[n].at, exception_state_ptr, n - 1)
    <3>1. Linked(stack, "iret", exception_state_ptr, n)
      BY <1>0, <1>1 DEF FramesAreChained, Executing
    <3>2. CASE Popping(stack, "iret", n)
      BY <1>2, <3>2, PoppingFacts DEF Linked
    <3>3. CASE TopFrame(stack, exception_state_ptr, n)
      <4>1. TopFrame(stack, exception_state_ptr, n - 1)
        BY <1>2, <3>3 DEF TopFrame
      <4> QED BY <4>1 DEF Linked
    <3> QED BY <3>1, <3>2, <3>3 DEF Linked
  <2>2. Linked(stack', stack[n].at, exception_state_ptr, n - 1)
    BY <1>4, <1>9, <2>1
  <2>3. Executing' = stack[n].at
    BY <1>1, <1>6 DEF Executing, Interruptible
  <2>4. jb # NoBuf => jb.depth <= n - 1 /\ TopFrame(stack', jb.ptr, jb.depth)
    <3>1. jb # NoBuf => jb.depth <= n - 1
      BY <1>2, <1>5
    <3>2. jb # NoBuf => TopFrame(stack, jb.ptr, jb.depth)
      BY <1>0 DEF FramesAreChained
    <3> QED BY <1>4, <1>5, <3>1, <3>2
  <2> QED BY <1>1, <1>3, <1>4, <2>2, <2>3, <2>4 DEF FramesAreChained
<1>11. FramesFit'
  <2>1. jb # NoBuf => Fits(stack', "run", jb.depth)
    BY <1>0, <1>4, <1>5 DEF FramesFit
  <2> QED BY <1>1, <1>3, <1>4, <2>1 DEF FramesFit
<1>12. PcFits'
  <2>1. Fits(stack, stack[n].at, n - 1) /\ NotHeld(jb, stack[n].at, n - 1)
    BY <1>0, <1>2 DEF FramesFit
  <2>2. Fits(stack', pc', n - 1) /\ NotHeld(jb', pc', n - 1)
    BY <1>1, <1>4, <1>9, <2>1
  <2> QED BY <1>0, <1>1, <1>3, <1>6, <2>2 DEF PcFits, Interruptible
<1> QED BY <1>7, <1>8, <1>10, <1>11, <1>12 DEF IInv

\* setjmp and the return of a handler change the buffer only.
LEMMA BufferIInv ==
  ASSUME IInv, setjmp \/ HandlerReturn
  PROVE  IInv'
<1> DEFINE n == Len(stack)
<1>0. TypeOK /\ LimitsFit /\ ShrunkOnlyWhilePending /\ HandlerHasItsData /\ PcFits
      /\ FramesAreChained /\ FramesFit
  BY DEF IInv
<1>1. /\ UNCHANGED <<limit, selLimit, ds_limit, forced, inuse, exception_state, stack,
                     exception_state_ptr, insn, signal_list>>
      /\ pc = "run"
      /\ \/ pc' = "run" /\ jb' = [depth |-> n, ptr |-> exception_state_ptr]
         \/ /\ pc' = "after" /\ stack # <<>>
            /\ jb' = IF jb.depth = n THEN NoBuf ELSE jb
  BY DEF setjmp, HandlerReturn, Running, memory, request, control, program
<1>2. n \in Nat /\ Fits(stack, "run", n) /\ (stack # <<>> => n # 0)
  BY <1>0, <1>1 DEF TypeOK, PcFits
<1>3. /\ LimitsFit' /\ ShrunkOnlyWhilePending' /\ HandlerHasItsData'
  BY <1>0, <1>1 DEF LimitsFit, ShrunkOnlyWhilePending, HandlerHasItsData
<1>4. jb' \in [depth : Nat, ptr : Nat]
  BY <1>0, <1>1, <1>2, BoundsAssumption DEF TypeOK, NoBuf
<1>5. TypeOK'
  BY <1>0, <1>1, <1>4 DEF TypeOK, PCs, Interruptible
<1>11. TopFrame(stack, exception_state_ptr, n)
  BY <1>0, <1>1, <1>2, PoppingFacts DEF FramesAreChained, Executing, Linked
<1>6. jb' # NoBuf => /\ jb'.depth <= n /\ TopFrame(stack, jb'.ptr, jb'.depth)
                     /\ Fits(stack, "run", jb'.depth)
  BY <1>0, <1>1, <1>2, <1>11 DEF FramesAreChained, FramesFit
<1>7. FramesAreChained'
  <2>1. Linked(stack, Executing', exception_state_ptr, n)
    BY <1>11 DEF Linked
  <2>2. \A i \in 1 .. n : Linked(stack, stack[i].at, stack[i].prev, i - 1)
    BY <1>0 DEF FramesAreChained
  <2> QED BY <1>1, <1>6, <2>1, <2>2 DEF FramesAreChained
<1>8. ASSUME NEW i \in 1 .. n PROVE NotHeld(jb', stack[i].at, i - 1)
  <2>1. jb' = NoBuf \/ jb' = jb \/ jb'.depth = n
    BY <1>1
  <2>2. NotHeld(jb, stack[i].at, i - 1)
    BY <1>0 DEF FramesFit
  <2>3. i - 1 # n
    BY <1>2
  <2> QED BY <2>1, <2>2, <2>3 DEF NotHeld
<1>9. FramesFit'
  BY <1>0, <1>1, <1>6, <1>8 DEF FramesFit
<1>10. PcFits'
  <2>1. Fits(stack', pc', Len(stack'))
    BY <1>1, <1>2 DEF Fits
  <2>2. NotHeld(jb', pc', Len(stack'))
    BY <1>1 DEF NotHeld
  <2> QED BY <1>0, <1>1, <2>1, <2>2 DEF PcFits
<1> QED BY <1>3, <1>5, <1>7, <1>9, <1>10 DEF IInv

\* The steps that leave the frames, the buffer and the pending request alone and
\* move to code that may run where the old code ran.
LEMMA PlainStep ==
  ASSUME IInv,
         UNCHANGED <<stack, exception_state_ptr, jb, exception_state, forced, inuse, ds_limit>>,
         pc \notin {"except", "pop", "iret"}, pc' # "except", pc' \in PCs,
         insn' \in Reals \cup {NoInsn}, signal_list' \in [Signals -> Dispositions],
         selLimit' \in Nat, selLimit' >= selLimit,
         limit' \in Nat, limit' = limit \/ limit' = selLimit', limit' <= selLimit',
         pc' # "exited" => Fits(stack, pc', Len(stack)) /\ NotHeld(jb, pc', Len(stack))
  PROVE  IInv'
<1>0. TypeOK /\ LimitsFit /\ ShrunkOnlyWhilePending /\ HandlerHasItsData /\ PcFits
  BY DEF IInv
<1>1. FramesAreChained' /\ FramesFit'
  BY QuietStep DEF Executing
<1>2. TypeOK'
  BY <1>0 DEF TypeOK
<1>3. LimitsFit' /\ ShrunkOnlyWhilePending' /\ HandlerHasItsData'
  BY <1>0 DEF LimitsFit, ShrunkOnlyWhilePending, HandlerHasItsData, TypeOK, NullPage
<1>4. PcFits'
  BY <1>0 DEF PcFits
<1> QED BY <1>1, <1>2, <1>3, <1>4 DEF IInv

\* The program's steps and the exception processor's call of raise.
LEMMA ProgramIInv ==
  ASSUME IInv,
         \/ \E n \in Reals : Reach(n)
         \/ Processor
         \/ \E s \in UserSigs, d \in Dispositions : signal(s, d)
         \/ \E s \in UserSigs : raise(s)
         \/ CallDos \/ DosReturn \/ GrowBegin \/ GrowSet \/ Exit \/ FinishExit
  PROVE  IInv'
<1>0. /\ TypeOK /\ LimitsFit /\ PcFits /\ selLimit \in Nat
      /\ limit \in Nat /\ selLimit >= selLimit /\ limit <= selLimit /\ Len(stack) \in Nat
  BY DEF IInv, TypeOK, LimitsFit
<1>1. pc \in {"run", "dos", "grow", "proc", "exit"} => Fits(stack, "run", Len(stack))
  <2>1. pc \in {"run", "dos", "grow", "proc", "exit"} => Fits(stack, pc, Len(stack))
    BY <1>0 DEF PcFits
  <2> QED BY <2>1 DEF Fits
<1>2. /\ \A at \in {"run", "dos", "grow", "exit"} :
           /\ Fits(stack, "run", Len(stack)) => Fits(stack, at, Len(stack))
           /\ NotHeld(jb, at, Len(stack))
      /\ PCs = {"run", "proc", "after", "pop", "iret", "exit", "dos", "grow", "except", "exited"}
  BY DEF Fits, NotHeld, PCs, Interruptible
<1> USE DEF memory, request, control, program
<1>3. CASE \E n \in Reals : Reach(n)
  BY <1>0, <1>1, <1>2, <1>3, PlainStep DEF Reach, TypeOK
<1>4. CASE Processor
  <2>1. /\ pc = "proc" /\ pc' \in {"run", "after", "exit", "exited"}
        /\ UNCHANGED <<limit, selLimit, ds_limit, forced, inuse, exception_state, stack,
                       exception_state_ptr, insn, signal_list, jb>>
    BY <1>4 DEF Processor, RaiseOutcome, TracebackExit
  <2>2. Fits(stack, "proc", Len(stack)) /\ NotHeld(jb, "proc", Len(stack))
    BY <1>0, <2>1 DEF PcFits
  <2>3. Fits(stack, "after", Len(stack)) /\ NotHeld(jb, "after", Len(stack))
    BY <2>2 DEF Fits, NotHeld
  <2>4. pc' # "exited" => Fits(stack, pc', Len(stack)) /\ NotHeld(jb, pc', Len(stack))
    BY <1>1, <1>2, <2>1, <2>3
  <2> QED BY <1>0, <1>2, <2>1, <2>4, PlainStep DEF TypeOK
<1>5. CASE \E s \in UserSigs, d \in Dispositions : signal(s, d)
  <2>1. PICK s \in UserSigs, d \in Dispositions : signal(s, d)
    BY <1>5
  <2>2. signal_list' \in [Signals -> Dispositions]
    BY <1>0, <2>1 DEF signal, TypeOK
  <2>3. /\ pc = "run" /\ pc' = "run"
        /\ UNCHANGED <<limit, selLimit, ds_limit, forced, inuse, exception_state, stack,
                       exception_state_ptr, insn, jb>>
    BY <2>1 DEF signal, Running
  <2> QED BY <1>0, <1>1, <1>2, <2>2, <2>3, PlainStep DEF TypeOK
<1>6. CASE \E s \in UserSigs : raise(s)
  <2>1. /\ pc = "run" /\ pc' \in {"run", "exit", "exited"}
        /\ UNCHANGED <<limit, selLimit, ds_limit, forced, inuse, exception_state, stack,
                       exception_state_ptr, insn, signal_list, jb>>
    BY <1>6 DEF raise, Running, RaiseOutcome, TracebackExit
  <2> QED BY <1>0, <1>1, <1>2, <2>1, PlainStep DEF TypeOK
<1>7. CASE CallDos \/ DosReturn
  BY <1>0, <1>1, <1>2, <1>7, PlainStep DEF CallDos, DosReturn, Running, TypeOK
<1>8. CASE GrowBegin
  <2>1. selLimit' \in Nat /\ selLimit' >= selLimit /\ limit' = limit /\ limit' <= selLimit'
    BY <1>0, <1>8 DEF GrowBegin
  <2> QED BY <1>0, <1>1, <1>2, <1>8, <2>1, PlainStep DEF GrowBegin, Running, TypeOK
<1>9. CASE GrowSet
  BY <1>0, <1>1, <1>2, <1>9, PlainStep DEF GrowSet, TypeOK
<1>10. CASE Exit \/ FinishExit
  BY <1>0, <1>1, <1>2, <1>10, PlainStep DEF Exit, FinishExit, Running, TypeOK
<1> QED BY <1>3, <1>4, <1>5, <1>6, <1>7, <1>8, <1>9, <1>10

\* Every step keeps the invariant.
LEMMA NextIInv == IInv /\ [Next]_vars => IInv'
<1> SUFFICES ASSUME IInv, [Next]_vars PROVE IInv'
  OBVIOUS
<1>1. CASE UNCHANGED vars
  <2>1. UNCHANGED <<limit, selLimit, ds_limit, forced, inuse, exception_state, stack,
                    exception_state_ptr, pc, insn, signal_list, jb>>
    BY <1>1 DEF vars, memory, request, control, program
  <2>2. FramesAreChained' /\ FramesFit'
    BY <2>1, QuietStep DEF Executing
  <2>3. TypeOK' /\ LimitsFit' /\ ShrunkOnlyWhilePending' /\ HandlerHasItsData' /\ PcFits'
    BY <2>1 DEF IInv, TypeOK, LimitsFit, ShrunkOnlyWhilePending, HandlerHasItsData, PcFits
  <2> QED BY <2>2, <2>3 DEF IInv
<1>2. CASE \E n \in IRQs : HwIntr(n)
  BY <1>2, HwIntrIInv
<1>3. CASE FakeFault \/ RealFault
  BY <1>3, FaultIInv
<1>4. CASE exception_return
  BY <1>4, ReturnIInv
<1>5. CASE After
  BY <1>5, AfterIInv
<1>6. CASE Iret
  BY <1>6, IretIInv
<1>7. CASE setjmp \/ HandlerReturn
  BY <1>7, BufferIInv
<1>8. CASE longjmp
  BY <1>8, LongjmpIInv
<1>9. CASE Exited
  BY <1>1, <1>9 DEF Exited
<1>10. CASE PopPtr
  BY <1>10, PopPtrIInv
<1> QED BY <1>1, <1>2, <1>3, <1>4, <1>5, <1>6, <1>7, <1>8, <1>9, <1>10, ProgramIInv DEF Next

\* The inductive invariant holds in every reachable state.
THEOREM Invariance == Spec => []IInv
<1>1. Init => IInv
  BY InitIInv
<1>2. IInv /\ [Next]_vars => IInv'
  BY NextIInv
<1> QED BY <1>1, <1>2, PTL DEF Spec

\* Every variable keeps its type, for any interrupts, exceptions and bounds.
THEOREM TypeCorrect == Spec => []TypeOK
<1>1. IInv => TypeOK
  BY DEF IInv
<1> QED BY <1>1, Invariance, PTL

\* The data segment is never left shrunk without a request that will restore it.
THEOREM ShrunkIsTemporary == Spec => []ShrunkOnlyWhilePending
<1>1. IInv => ShrunkOnlyWhilePending
  BY DEF IInv
<1> QED BY <1>1, Invariance, PTL

\* The exception handler never runs without its data segment.
THEOREM HandlerRuns == Spec => []HandlerHasItsData
<1>1. IInv => HandlerHasItsData
  BY DEF IInv
<1> QED BY <1>1, Invariance, PTL

\* The exception frames form a chain whose head is the global pointer, however
\* deeply exceptions nest and wherever in longjmp they hit.
THEOREM Chained == Spec => []FramesAreChained
<1>1. IInv => FramesAreChained
  BY DEF IInv
<1> QED BY <1>1, Invariance, PTL

\* The code at `proc' and `after' has its frame on top.
LEMMA FindsItsFrame == IInv => ProcessorFindsItsFrame
<1> SUFFICES ASSUME IInv, pc \in {"proc", "after"}
             PROVE  /\ stack # <<>> /\ exception_state_ptr = Len(stack)
                    /\ stack[Len(stack)].kind = "exc"
  BY DEF ProcessorFindsItsFrame
<1> QED BY ProcessorFrame

\* The exception processor always reads its own frame through the pointer.
THEOREM OwnFrame == Spec => []ProcessorFindsItsFrame
BY FindsItsFrame, Invariance, PTL
-----------------------------------------------------------------------------
(* What is being handled, as a sequence of numbers. *)

\* What Nested computes, by its recursive equations.
LEMMA NestedFacts ==
  ASSUME NEW st \in Seq(Frame)
  PROVE  /\ Nested(st) \in [0 .. Len(st) -> Seq(Nat)]
         /\ Nested(st)[0] = <<>>
         /\ \A i \in 1 .. Len(st) :
              Nested(st)[i] = IF st[i].kind = "exc" THEN Append(Nested(st)[i - 1], st[i].signum)
                              ELSE Nested(st)[i - 1]
<1> DEFINE Cell(f, i) == IF i = 0 THEN <<>>
                         ELSE IF st[i].kind = "exc" THEN Append(f[i - 1], st[i].signum)
                         ELSE f[i - 1]
           Solves(f) == f = [i \in 0 .. Len(st) |-> Cell(f, i)]
           Step(s, i) == IF i \in 1 .. Len(st) /\ st[i].kind = "exc" THEN Append(s, st[i].signum)
                         ELSE s
<1>1. PICK n, S, c : n = Len(st) /\ S = Seq(Nat) /\ c = <<>>
  OBVIOUS
<1>2. n \in Nat /\ c \in S
  BY <1>1
<1>3. ASSUME NEW s \in S, NEW i \in Nat PROVE Step(s, i) \in S
  <2>1. CASE i \in 1 .. Len(st) /\ st[i].kind = "exc"
    <3>1. st[i] \in Frame
      BY <2>1
    <3>2. st[i].signum \in Nat
      BY <3>1 DEF Frame
    <3>3. Append(s, st[i].signum) \in Seq(Nat)
      BY <1>1, <3>2, AppendFacts
    <3> QED BY <2>1, <3>3, <1>1
  <2>2. CASE ~(i \in 1 .. Len(st) /\ st[i].kind = "exc")
    BY <2>2
  <2> QED BY <2>1, <2>2
<1> HIDE DEF Step
<1>4. PICK step : step = [i \in Nat |-> [s \in S |-> Step(s, i)]]
  OBVIOUS
<1>5. step \in [Nat -> [S -> S]] /\ \A s \in S, i \in Nat : step[i][s] = Step(s, i)
  BY <1>3, <1>4
<1>6. PICK f : Follows(f, S, c, n, step)
  <2>1. step \in Steps(S)
    BY <1>5 DEF Steps
  <2> QED BY <1>2, <2>1, RecursionExists
<1>7. f \in [0 .. n -> S] /\ f[0] = c /\ \A i \in 1 .. n : f[i] = step[i][f[i - 1]]
  BY <1>6 DEF Follows
<1>8. ASSUME NEW i \in 1 .. n PROVE f[i] = Step(f[i - 1], i)
  <2>1. f[i - 1] \in S /\ i \in Nat
    BY <1>2, <1>7
  <2> QED BY <2>1, <1>5, <1>7
<1>9. ASSUME NEW i \in 1 .. n
      PROVE  f[i] = IF st[i].kind = "exc" THEN Append(f[i - 1], st[i].signum) ELSE f[i - 1]
  BY <1>8, <1>1 DEF Step
<1>10. Solves(f)
  <2>1. ASSUME NEW i \in 0 .. n PROVE f[i] = Cell(f, i)
    <3>1. CASE i = 0
      BY <3>1, <1>1, <1>7, Zenon
    <3>2. CASE i \in 1 .. n
      <4>1. i # 0
        BY <3>2, <1>2
      <4> QED BY <3>2, <4>1, <1>9, Zenon
    <3> QED BY <3>1, <3>2, <1>2
  <2> HIDE DEF Cell
  <2> QED BY <1>1, <1>7, <2>1
<1>11. Nested(st) = CHOOSE g : Solves(g)
  BY DEF Nested
<1>12. Solves(Nested(st))
  <2> HIDE DEF Solves
  <2> QED BY <1>10, <1>11
<1>13. PICK g : g = Nested(st)
  OBVIOUS
<1>14. g = [i \in 0 .. n |-> g[i]] /\ \A i \in 0 .. n : g[i] = Cell(g, i)
  <2> HIDE DEF Cell
  <2>1. g = [i \in 0 .. n |-> Cell(g, i)]
    BY <1>1, <1>12, <1>13
  <2> QED BY <2>1
<1>15. /\ g[0] = c
       /\ \A i \in 1 .. n : g[i] = IF st[i].kind = "exc" THEN Append(g[i - 1], st[i].signum)
                                   ELSE g[i - 1]
  <2>1. g[0] = c
    <3>1. 0 \in 0 .. n
      BY <1>2
    <3> QED BY <3>1, <1>1, <1>14, Zenon
  <2>2. ASSUME NEW i \in 1 .. n
        PROVE  g[i] = IF st[i].kind = "exc" THEN Append(g[i - 1], st[i].signum) ELSE g[i - 1]
    <3>1. i \in 0 .. n /\ i # 0
      BY <1>2
    <3>2. g[i] = Cell(g, i)
      BY <3>1, <1>14
    <3> QED BY <3>1, <3>2
  <2> QED BY <2>1, <2>2
<1>16. \A i \in 1 .. n : g[i] = Step(g[i - 1], i)
  BY <1>1, <1>15 DEF Step
<1>17. ASSUME NEW i \in 0 .. n PROVE g[i] \in S
  <2> DEFINE T == {m \in Nat : m <= n => g[m] \in S}
  <2>1. 0 \in T
    BY <1>2, <1>15
  <2>2. ASSUME NEW m \in Nat, m \in T PROVE m + 1 \in T
    <3>1. CASE m + 1 <= n
      <4>1. g[m] \in S /\ m + 1 \in 1 .. n
        BY <3>1, <2>2, <1>2
      <4>2. g[m + 1] = Step(g[m], m + 1)
        BY <4>1, <1>16
      <4> QED BY <4>1, <4>2, <1>3
    <3>2. CASE ~(m + 1 <= n)
      BY <3>2
    <3> QED BY <3>1, <3>2
  <2> HIDE DEF T
  <2>3. i \in T
    BY <2>1, <2>2, SetInduction, <1>2
  <2> QED BY <2>3, <1>2 DEF T
<1>18. g \in [0 .. n -> S]
  BY <1>14, <1>17
<1> QED BY <1>1, <1>13, <1>15, <1>18

\* Stacks that agree below n have the same numbers there.
LEMMA NestedAgrees ==
  ASSUME NEW st \in Seq(Frame), NEW st2 \in Seq(Frame), NEW n \in 0 .. Len(st),
         n <= Len(st2), \A i \in 1 .. n : st2[i] = st[i]
  PROVE  \A i \in 0 .. n : Nested(st2)[i] = Nested(st)[i]
<1>1. PICK g, h : g = Nested(st) /\ h = Nested(st2)
  OBVIOUS
<1>2. n \in Nat /\ Len(st) \in Nat /\ Len(st2) \in Nat
  OBVIOUS
<1>3. g[0] = h[0]
  BY <1>1, NestedFacts, Zenon
<1>4. ASSUME NEW i \in 1 .. n, g[i - 1] = h[i - 1] PROVE g[i] = h[i]
  <2>1. i \in 1 .. Len(st) /\ i \in 1 .. Len(st2) /\ st2[i] = st[i]
    BY <1>2
  <2>2. g[i] = IF st[i].kind = "exc" THEN Append(g[i - 1], st[i].signum) ELSE g[i - 1]
    BY <2>1, <1>1, NestedFacts, Zenon
  <2>3. h[i] = IF st2[i].kind = "exc" THEN Append(h[i - 1], st2[i].signum) ELSE h[i - 1]
    BY <2>1, <1>1, NestedFacts, Zenon
  <2> QED BY <2>1, <2>2, <2>3, <1>4, Zenon
<1> DEFINE T == {m \in Nat : m <= n => g[m] = h[m]}
<1>5. 0 \in T
  BY <1>3
<1>6. ASSUME NEW m \in Nat, m \in T PROVE m + 1 \in T
  <2>1. CASE m + 1 <= n
    <3>1. m + 1 \in 1 .. n /\ (m + 1) - 1 = m /\ g[m] = h[m]
      BY <2>1, <1>2, <1>6
    <3> QED BY <3>1, <1>4
  <2>2. CASE ~(m + 1 <= n)
    BY <2>2
  <2> QED BY <2>1, <2>2
<1> HIDE DEF T
<1>7. Nat \subseteq T
  BY <1>5, <1>6, SetInduction
<1>8. \A i \in 0 .. n : g[i] = h[i]
  BY <1>2, <1>7 DEF T
<1> QED BY <1>1, <1>8

\* A sequence of numbers is the lower part of itself, and of what it is pushed on.
LEMMA LowerParts ==
  ASSUME NEW s \in Seq(Nat), NEW e \in Nat
  PROVE  /\ SubSeq(s, 1, Len(s)) = s
         /\ \A k \in 0 .. Len(s) : SubSeq(Append(s, e), 1, k) = SubSeq(s, 1, k)
         /\ s \o <<>> = s
         /\ s \o <<e>> = Append(s, e)
         /\ SubSeq(Append(s, e), 1, Len(s)) = s
<1>1. SubSeq(s, 1, Len(s)) = s
  OBVIOUS
<1>2. \A k \in 0 .. Len(s) : SubSeq(Append(s, e), 1, k) = SubSeq(s, 1, k)
  OBVIOUS
<1>3. s \o <<>> = s
  OBVIOUS
<1>4. s \o <<e>> = Append(s, e)
  OBVIOUS
<1>5. Len(s) \in 0 .. Len(s)
  OBVIOUS
<1> QED BY <1>1, <1>2, <1>3, <1>4, <1>5

\* The numbers below m are the lower part of those below n.
LEMMA NestedGrows ==
  ASSUME NEW st \in Seq(Frame), NEW m \in 0 .. Len(st), NEW n \in m .. Len(st)
  PROVE  \E k \in 0 .. Len(Nested(st)[n]) : Nested(st)[m] = SubSeq(Nested(st)[n], 1, k)
<1>1. PICK g, S : g = Nested(st) /\ S = Seq(Nat)
  OBVIOUS
<1>2. m \in Nat /\ n \in Nat /\ Len(st) \in Nat /\ m <= n /\ n <= Len(st)
  OBVIOUS
<1>3. \A i \in 0 .. Len(st) : g[i] \in S
  BY <1>1, NestedFacts
<1> DEFINE Lower(a, b) == \E k \in 0 .. Len(b) : a = SubSeq(b, 1, k)
           T == {d \in Nat : m + d <= Len(st) => Lower(g[m], g[m + d])}
<1>4. 0 \in T
  <2>1. g[m] \in Seq(Nat) /\ Len(g[m]) \in 0 .. Len(g[m]) /\ m + 0 = m
    BY <1>1, <1>2, <1>3
  <2>2. g[m] = SubSeq(g[m], 1, Len(g[m]))
    BY <2>1, LowerParts, 0 \in Nat
  <2> QED BY <2>1, <2>2
<1>5. ASSUME NEW d \in Nat, d \in T PROVE d + 1 \in T
  <2> SUFFICES ASSUME m + (d + 1) <= Len(st) PROVE Lower(g[m], g[m + (d + 1)])
    OBVIOUS
  <2>1. PICK i, a : i = m + (d + 1) /\ a = g[m + d]
    OBVIOUS
  <2>2. i \in 1 .. Len(st) /\ i - 1 = m + d /\ m + d \in 0 .. Len(st)
    BY <2>1, <1>2
  <2>3. Lower(g[m], a) /\ a \in Seq(Nat)
    BY <2>1, <2>2, <1>1, <1>3, <1>5
  <2>4. g[i] = IF st[i].kind = "exc" THEN Append(a, st[i].signum) ELSE a
    <3>1. g[i] = IF st[i].kind = "exc" THEN Append(g[i - 1], st[i].signum) ELSE g[i - 1]
      BY <2>2, <1>1, NestedFacts, Zenon
    <3>2. g[i - 1] = a
      BY <2>1, <2>2
    <3> QED BY <3>1, <3>2, Zenon
  <2>5. CASE st[i].kind = "exc"
    <3>1. PICK e : e = st[i].signum
      OBVIOUS
    <3>2. e \in Nat
      <4>1. st[i] \in Frame
        BY <2>2
      <4> QED BY <3>1, <4>1 DEF Frame
    <3>3. g[i] = Append(a, e)
      BY <2>4, <2>5, <3>1, Zenon
    <3>4. PICK k \in 0 .. Len(a) : g[m] = SubSeq(a, 1, k)
      BY <2>3
    <3>5. k \in 0 .. Len(Append(a, e)) /\ g[m] = SubSeq(Append(a, e), 1, k)
      BY <3>2, <3>4, <2>3, LowerParts, AppendFacts
    <3> QED BY <3>3, <3>5, <2>1
  <2>6. CASE st[i].kind # "exc"
    BY <2>1, <2>3, <2>4, <2>6, Zenon
  <2> QED BY <2>5, <2>6
<1> HIDE DEF T
<1>6. Nat \subseteq T
  BY <1>4, <1>5, SetInduction
<1>7. n - m \in Nat /\ m + (n - m) = n
  BY <1>2
<1>8. Lower(g[m], g[n])
  <2>1. n - m \in T
    BY <1>6, <1>7
  <2> QED BY <2>1, <1>2, <1>7 DEF T
<1> QED BY <1>1, <1>8

\* ... as many as there are below m.
LEMMA NestedLower ==
  ASSUME NEW st \in Seq(Frame), NEW m \in 0 .. Len(st)
  PROVE  /\ Len(Nested(st)[m]) \in 0 .. Len(Nested(st)[Len(st)])
         /\ Nested(st)[m] = SubSeq(Nested(st)[Len(st)], 1, Len(Nested(st)[m]))
<1>1. Len(st) \in m .. Len(st) /\ Len(st) \in 0 .. Len(st)
  OBVIOUS
<1>2. PICK a, b : a = Nested(st)[m] /\ b = Nested(st)[Len(st)]
  OBVIOUS
<1>3. b \in Seq(Nat)
  BY <1>1, <1>2, NestedFacts
<1>4. PICK k \in 0 .. Len(b) : a = SubSeq(b, 1, k)
  BY <1>1, <1>2, NestedGrows
<1>5. Len(a) = k
  BY <1>3, <1>4, PrefixFacts
<1> QED BY <1>2, <1>4, <1>5

-----------------------------------------------------------------------------
(* Refinement of FakeExc. *)

\* Every exception being handled has the number of an interrupt or of a
\* processor exception.
NumbersOK ==
  /\ \A i \in 1 .. Len(stack) : stack[i].kind = "exc" => stack[i].signum \in Numbers
  /\ pc = "except" => exception_state.signum \in Numbers

\* What is being handled, without and with the exception that is being entered.
LEMMA HandledFacts ==
  ASSUME NEW st \in Seq(Frame), NEW p, NEW e \in StaticState
  PROVE  LET h == Nested(st)[Len(st)] \o IF p = "except" THEN <<e.signum>> ELSE <<>>
         IN  /\ Nested(st)[Len(st)] \in Seq(Nat)
             /\ p # "except" => h = Nested(st)[Len(st)]
             /\ p = "except" => h = Append(Nested(st)[Len(st)], e.signum)
<1>1. PICK g : g = Nested(st)[Len(st)]
  OBVIOUS
<1>2. g \in Seq(Nat) /\ e.signum \in Nat
  <2>1. Len(st) \in 0 .. Len(st)
    OBVIOUS
  <2>2. g \in Seq(Nat)
    BY <2>1, <1>1, NestedFacts
  <2> QED BY <2>2 DEF StaticState
<1>3. g \o <<>> = g /\ g \o <<e.signum>> = Append(g, e.signum)
  BY <1>2, LowerParts
<1> QED BY <1>1, <1>2, <1>3, Zenon

\* A frame on top adds its number, the words of a longjmp add none.
LEMMA PushedFacts ==
  ASSUME NEW st \in Seq(Frame), NEW f \in Frame
  PROVE  Nested(Append(st, f))[Len(Append(st, f))] =
           IF f.kind = "exc" THEN Append(Nested(st)[Len(st)], f.signum) ELSE Nested(st)[Len(st)]
<1>1. PICK t, n : t = Append(st, f) /\ n = Len(st)
  OBVIOUS
<1>2. n \in Nat /\ t \in Seq(Frame) /\ Len(t) = n + 1 /\ t[n + 1] = f /\ \A i \in 1 .. n : t[i] = st[i]
  BY <1>1, AppendFacts
<1>3. Nested(t)[n] = Nested(st)[n]
  <2>1. n \in 0 .. Len(st) /\ n <= Len(t) /\ n \in 0 .. n
    BY <1>1, <1>2
  <2> QED BY <2>1, <1>2, NestedAgrees
<1>4. Nested(t)[n + 1] = IF t[n + 1].kind = "exc" THEN Append(Nested(t)[(n + 1) - 1], t[n + 1].signum)
                         ELSE Nested(t)[(n + 1) - 1]
  <2>1. n + 1 \in 1 .. Len(t)
    BY <1>2
  <2> QED BY <2>1, <1>2, NestedFacts, Zenon
<1>5. (n + 1) - 1 = n
  BY <1>2
<1> QED BY <1>1, <1>2, <1>3, <1>4, <1>5, Zenon

\* Cutting the stack leaves the lower part of the numbers.
LEMMA CutNumbers ==
  ASSUME NEW st \in Seq(Frame), NEW m \in 0 .. Len(st)
  PROVE  /\ Nested(SubSeq(st, 1, m))[m] = Nested(st)[m]
         /\ Len(SubSeq(st, 1, m)) = m /\ SubSeq(st, 1, m) \in Seq(Frame)
<1>1. PICK t : t = SubSeq(st, 1, m)
  OBVIOUS
<1>2. t \in Seq(Frame) /\ Len(t) = m /\ \A i \in 1 .. m : t[i] = st[i]
  BY <1>1, PrefixFacts
<1>3. m <= Len(t) /\ m \in 0 .. m
  BY <1>2
<1>4. Nested(t)[m] = Nested(st)[m]
  BY <1>2, <1>3, NestedAgrees
<1> QED BY <1>1, <1>2, <1>4

\* What the two uses of the switch of stacks have in common.
Switched(m) ==
  /\ m \in 0 .. Len(stack) /\ (jb # NoBuf => jb.depth <= m)
  /\ stack' \in Seq(Frame) /\ Len(stack') = m + 1 /\ stack'[m + 1].kind = "iret"
  /\ \A i \in 1 .. m : stack'[i] = stack[i]
  /\ Nested(stack')[Len(stack')] = Nested(stack)[m]
  /\ pc' = "pop"

\* The words of a longjmp on a cut stack add no number.
LEMMA SwitchFacts ==
  ASSUME IInv, NEW m \in 0 .. Len(stack), NEW prev \in Nat, NEW at \in Interruptible,
         NEW next \in Reals \cup {NoInsn}, SwitchStack(m, prev, at, next),
         jb # NoBuf => jb.depth <= m
  PROVE  Switched(m)
<1>1. PICK c, w : /\ c = SubSeq(stack, 1, m)
                  /\ w = [kind |-> "iret", signum |-> 0, prev |-> prev, at |-> at, insn |-> next]
  OBVIOUS
<1>2. w \in Frame /\ w.kind = "iret"
  BY <1>1 DEF Frame
<1>3. stack \in Seq(Frame) /\ m \in Nat
  BY DEF IInv, TypeOK
<1>4. c \in Seq(Frame) /\ Len(c) = m /\ Nested(c)[m] = Nested(stack)[m]
  BY <1>1, <1>3, CutNumbers
<1>5. \A i \in 1 .. m : c[i] = stack[i]
  BY <1>1, <1>3, PrefixFacts
<1>6. stack' = Append(c, w) /\ pc' = "pop"
  BY <1>1 DEF SwitchStack
<1>7. /\ Append(c, w) \in Seq(Frame) /\ Len(Append(c, w)) = m + 1
      /\ \A i \in 1 .. m : Append(c, w)[i] = c[i]
      /\ Append(c, w)[m + 1] = w
  BY <1>2, <1>4, AppendFacts
<1>8. Nested(Append(c, w))[Len(Append(c, w))] = Nested(c)[Len(c)]
  BY <1>2, <1>4, PushedFacts
<1>9. Nested(stack')[Len(stack')] = Nested(stack)[m]
  BY <1>4, <1>6, <1>8
<1> QED BY <1>2, <1>5, <1>6, <1>7, <1>9 DEF Switched

\* The resumption of a fake exception cuts its frame off ...
LEMMA ResumeSwitches ==
  ASSUME IInv, pc = "after", longjmp_frame(exception_state_ptr)
  PROVE  Switched(Len(stack) - 1)
<1> DEFINE n == Len(stack)
           f == stack[n]
<1>1. n \in Nat /\ n # 0 /\ f \in Frame /\ exception_state_ptr = n
  BY ProcessorFrame
<1>2. f.prev \in Nat /\ f.at \in Interruptible /\ f.insn \in Reals \cup {NoInsn}
  BY <1>1 DEF Frame
<1>3. SwitchStack(n - 1, f.prev, f.at, f.insn) /\ n - 1 \in 0 .. Len(stack)
  BY <1>1 DEF longjmp_frame
<1>4. jb # NoBuf => jb.depth <= n - 1
  <2>1. NotHeld(jb, "after", n)
    BY DEF IInv, PcFits
  <2>2. jb # NoBuf => jb.depth # n /\ jb.depth <= n /\ jb.depth \in Nat
    BY <2>1 DEF NotHeld, IInv, FramesAreChained, TypeOK
  <2> QED BY <1>1, <2>2
<1> QED BY <1>2, <1>3, <1>4, SwitchFacts

\* ... and the program's longjmp everything above its buffer.
LEMMA LongjmpSwitches ==
  ASSUME IInv, longjmp
  PROVE  Switched(jb.depth)
<1>1. jb # NoBuf /\ SwitchStack(jb.depth, jb.ptr, "run", NoInsn)
  BY DEF longjmp
<1>2. jb.depth \in 0 .. Len(stack) /\ jb.ptr \in Nat /\ jb.depth <= jb.depth
  BY <1>1 DEF IInv, FramesAreChained, TypeOK
<1>3. "run" \in Interruptible /\ NoInsn \in Reals \cup {NoInsn}
  BY DEF Interruptible
<1> QED BY <1>1, <1>2, <1>3, SwitchFacts

\* The numbers stay those of interrupts and processor exceptions.
LEMMA NextNumbersOK == IInv /\ NumbersOK /\ [Next]_vars => NumbersOK'
<1> SUFFICES ASSUME IInv, NumbersOK, [Next]_vars PROVE NumbersOK'
  OBVIOUS
<1> USE DEF memory, request, control, program
<1>0. TypeOK /\ stack \in Seq(Frame) /\ Len(stack) \in Nat
  BY DEF IInv, TypeOK
<1>1. ASSUME UNCHANGED stack, pc' # "except" PROVE NumbersOK'
  BY <1>1 DEF NumbersOK
<1>2. ASSUME UNCHANGED <<stack, pc, exception_state>> PROVE NumbersOK'
  BY <1>2 DEF NumbersOK
<1>3. CASE FakeFault \/ RealFault
  <2>1. /\ UNCHANGED stack
        /\ exception_state'.signum = IF forced # 0 THEN forced ELSE insn
        /\ forced # 0 \/ insn # NoInsn
    BY <1>3 DEF FakeFault, RealFault, exception_handler, SaveState, IInv, ShrunkOnlyWhilePending
  <2>2. exception_state'.signum \in Numbers
    BY <2>1, <1>0 DEF TypeOK, Numbers
  <2> QED BY <2>1, <2>2 DEF NumbersOK
<1>4. CASE exception_return
  <2>1. PICK f : f = [kind |-> "exc", signum |-> exception_state.signum,
                      prev |-> exception_state.prev, at |-> exception_state.at,
                      insn |-> exception_state.insn]
    OBVIOUS
  <2>2. stack' = Append(stack, f) /\ pc' = "proc" /\ pc = "except"
    BY <1>4, <2>1 DEF exception_return
  <2>3. f.signum \in Numbers /\ f \in Frame
    <3>1. f.signum = exception_state.signum
      BY <2>1
    <3>2. f \in Frame
      BY <2>1, <1>0 DEF TypeOK, StaticState, Frame
    <3> QED BY <3>1, <3>2, <2>2 DEF NumbersOK
  <2>4. /\ Len(stack') = Len(stack) + 1 /\ stack'[Len(stack) + 1] = f
        /\ \A i \in 1 .. Len(stack) : stack'[i] = stack[i]
    BY <2>2, <2>3, <1>0, AppendFacts
  <2>5. ASSUME NEW i \in 1 .. Len(stack') PROVE stack'[i].kind = "exc" => stack'[i].signum \in Numbers
    <3>1. CASE i = Len(stack) + 1
      BY <3>1, <2>3, <2>4
    <3>2. CASE i \in 1 .. Len(stack)
      BY <3>2, <2>4 DEF NumbersOK
    <3> QED BY <3>1, <3>2, <2>4, <1>0
  <2> QED BY <2>2, <2>5 DEF NumbersOK
<1>5. ASSUME NEW m \in 0 .. Len(stack), stack' = SubSeq(stack, 1, m), pc' # "except"
      PROVE  NumbersOK'
  <2>1. Len(stack') = m /\ \A i \in 1 .. m : stack'[i] = stack[i]
    BY <1>5, <1>0, PrefixFacts
  <2>2. \A i \in 1 .. m : i \in 1 .. Len(stack)
    BY <1>0
  <2> QED BY <2>1, <2>2, <1>5 DEF NumbersOK
<1>11. ASSUME NEW m, Switched(m) PROVE NumbersOK'
  <2>1. /\ m \in 0 .. Len(stack) /\ Len(stack') = m + 1 /\ stack'[m + 1].kind = "iret"
        /\ \A i \in 1 .. m : stack'[i] = stack[i]
        /\ pc' = "pop"
    BY <1>11 DEF Switched
  <2>2. \A i \in 1 .. m + 1 : i = m + 1 \/ (i \in 1 .. m /\ i \in 1 .. Len(stack))
    BY <2>1, <1>0
  <2> QED BY <2>1, <2>2 DEF NumbersOK
<1>6. CASE After
  <2>1. CASE longjmp_frame(exception_state_ptr)
    BY <1>6, <1>11, <2>1, ResumeSwitches DEF After
  <2>2. CASE pc' = "exited" /\ UNCHANGED <<stack, exception_state_ptr>>
    BY <2>2, <1>1
  <2> QED BY <1>6, <2>1, <2>2 DEF After
<1>7. CASE Iret
  <2>1. stack # <<>> /\ Len(stack) - 1 \in 0 .. Len(stack) /\ pc' = stack[Len(stack)].at
    BY <1>7, <1>0 DEF Iret, IInv, PcFits, Fits
  <2>2. pc' # "except"
    <3>1. stack[Len(stack)] \in Frame
      BY <2>1, <1>0
    <3> QED BY <2>1, <3>1 DEF Frame, Interruptible
  <2> QED BY <1>5, <1>7, <2>1, <2>2 DEF Iret
<1>8. CASE longjmp
  BY <1>8, <1>11, LongjmpSwitches
<1>9. CASE Processor \/ HandlerReturn \/ (\E s \in UserSigs : raise(s)) \/ CallDos \/ DosReturn
           \/ GrowBegin \/ GrowSet \/ Exit \/ FinishExit \/ PopPtr
  BY <1>1, <1>9 DEF Processor, HandlerReturn, PopPtr, raise, RaiseOutcome, TracebackExit, CallDos, DosReturn,
                    GrowBegin, GrowSet, Exit, FinishExit
<1>10. CASE (\E n \in IRQs : HwIntr(n)) \/ (\E n \in Reals : Reach(n)) \/ setjmp \/ Exited
            \/ (\E s \in UserSigs, d \in Dispositions : signal(s, d)) \/ UNCHANGED vars
  BY <1>2, <1>10 DEF HwIntr, Reach, setjmp, signal, Exited, vars
<1> QED BY <1>3, <1>4, <1>6, <1>7, <1>8, <1>9, <1>10 DEF Next

\* The mark is where it was when the stack below it is what it was.
LEMMA MarksKept ==
  ASSUME IInv, stack' \in Seq(Frame), UNCHANGED jb,
         jb # NoBuf => /\ jb.depth <= Len(stack')
                       /\ \A i \in 1 .. jb.depth : stack'[i] = stack[i]
  PROVE  UNCHANGED Marks
<1>1. CASE jb = NoBuf
  BY <1>1 DEF Marks
<1>2. CASE jb # NoBuf
  <2>1. stack \in Seq(Frame) /\ jb.depth \in 0 .. Len(stack) /\ jb.depth \in 0 .. jb.depth
    BY <1>2 DEF IInv, TypeOK, FramesAreChained
  <2>2. Nested(stack')[jb.depth] = Nested(stack)[jb.depth]
    BY <1>2, <2>1, NestedAgrees
  <2> QED BY <1>2, <2>2 DEF Marks
<1> QED BY <1>1, <1>2

\* Every step is a step of FakeExc or leaves what it speaks of unchanged.
LEMMA StepRefines ==
  ASSUME IInv, NumbersOK, IInv', [Next]_vars
  PROVE  [Abstract!Next]_(Abstract!vars)
<1> USE DEF memory, request, control, program
<1>0. /\ stack \in Seq(Frame) /\ Len(stack) \in Nat /\ exception_state \in StaticState
      /\ stack' \in Seq(Frame) /\ exception_state' \in StaticState /\ pc \in PCs
      /\ forced \in {0} \cup IRQs
  BY DEF IInv, TypeOK
<1>1. PICK t, t2 : t = Nested(stack)[Len(stack)] /\ t2 = (Nested(stack)[Len(stack)])'
  OBVIOUS
<1>2. /\ t \in Seq(Nat) /\ t2 \in Seq(Nat)
      /\ pc # "except" => Handled = t
      /\ pc = "except" => Handled = Append(t, exception_state.signum)
      /\ pc' # "except" => Handled' = t2
      /\ pc' = "except" => Handled' = Append(t2, exception_state'.signum)
  <2>1. /\ t \in Seq(Nat)
        /\ pc # "except" => Handled = t
        /\ pc = "except" => Handled = Append(t, exception_state.signum)
    BY <1>0, <1>1, HandledFacts, Zenon DEF Handled
  <2>2. /\ t2 \in Seq(Nat)
        /\ pc' # "except" => Handled' = t2
        /\ pc' = "except" => Handled' = Append(t2, exception_state'.signum)
    BY <1>0, <1>1, HandledFacts, Zenon DEF Handled
  <2> QED BY <2>1, <2>2
<1>3. UNCHANGED stack => t2 = t
  BY <1>1
<1>14. UNCHANGED <<stack, jb>> => UNCHANGED Marks
  BY DEF Marks
<1>15. pc # "exited" /\ pc' # "exited" => UNCHANGED (pc = "exited")
  OBVIOUS
<1>4. ASSUME UNCHANGED <<stack, forced, jb>>, pc \notin {"except", "exited"}, pc' # "except"
      PROVE  [Abstract!Next]_(Abstract!vars)
  <2>1. UNCHANGED <<forced, Handled, Marks>>
    BY <1>2, <1>3, <1>4, <1>14
  <2>2. CASE pc' = "exited"
    BY <1>4, <2>1, <2>2 DEF Abstract!Next, Abstract!End
  <2>3. CASE pc' # "exited"
    BY <1>4, <1>15, <2>1, <2>3 DEF Abstract!vars
  <2> QED BY <2>2, <2>3
<1>5. ASSUME UNCHANGED <<stack, pc, exception_state>> PROVE UNCHANGED Handled
  BY <1>5 DEF Handled
<1>6. CASE \E n \in IRQs : HwIntr(n)
  <2>1. PICK n \in IRQs : HwIntr(n)
    BY <1>6
  <2>2. UNCHANGED <<Handled, Marks, pc>> /\ pc # "exited"
    BY <2>1, <1>5, <1>14 DEF HwIntr
  <2>3. UNCHANGED forced \/ (forced = 0 /\ forced' = n)
    BY <2>1 DEF HwIntr, hw_exception
  <2> QED BY <2>2, <2>3 DEF Abstract!Next, Abstract!Accept, Abstract!vars
<1>7. CASE FakeFault \/ RealFault
  <2>1. /\ UNCHANGED <<stack, jb>> /\ pc \notin {"except", "exited"} /\ pc' = "except" /\ forced' = 0
        /\ exception_state'.signum = IF forced # 0 THEN forced ELSE insn
        /\ forced # 0 \/ insn # NoInsn
    BY <1>7 DEF FakeFault, RealFault, exception_handler, SaveState, IInv, ShrunkOnlyWhilePending,
                Interruptible
  <2>2. Handled = t /\ Handled' = Append(t, IF forced # 0 THEN forced ELSE insn)
    BY <2>1, <1>2, <1>3
  <2>5. UNCHANGED Marks /\ UNCHANGED (pc = "exited") /\ pc # "exited"
    BY <2>1, <1>14
  <2>3. CASE forced # 0
    <3>1. Abstract!Take
      BY <2>1, <2>2, <2>3, <2>5 DEF Abstract!Take
    <3> QED BY <3>1, <2>5 DEF Abstract!Next
  <2>4. CASE forced = 0
    <3>1. insn \in Reals /\ Handled' = Append(Handled, insn)
      BY <2>1, <2>2, <2>4 DEF IInv, TypeOK
    <3>2. Abstract!Fault(insn)
      BY <2>1, <2>4, <2>5, <3>1 DEF Abstract!Fault
    <3> QED BY <3>1, <3>2, <2>5 DEF Abstract!Next
  <2> QED BY <2>3, <2>4
<1>8. CASE exception_return
  <2>1. PICK f : f = [kind |-> "exc", signum |-> exception_state.signum,
                      prev |-> exception_state.prev, at |-> exception_state.at,
                      insn |-> exception_state.insn]
    OBVIOUS
  <2>2. stack' = Append(stack, f) /\ pc' = "proc" /\ pc = "except" /\ UNCHANGED <<forced, jb>>
    BY <1>8, <2>1 DEF exception_return
  <2>3. f \in Frame /\ f.kind = "exc" /\ f.signum = exception_state.signum
    BY <2>1, <1>0 DEF StaticState, Frame
  <2>4. t2 = Append(t, f.signum)
    BY <2>2, <2>3, <1>0, <1>1, PushedFacts, Zenon
  <2>5. Handled' = Handled
    BY <2>2, <2>3, <2>4, <1>2
  <2>6. UNCHANGED Marks
    <3>1. Len(stack') = Len(stack) + 1 /\ \A i \in 1 .. Len(stack) : stack'[i] = stack[i]
      BY <2>2, <2>3, <1>0, AppendFacts
    <3>2. jb # NoBuf => jb.depth <= Len(stack) /\ jb.depth \in Nat
      BY DEF IInv, FramesAreChained, TypeOK
    <3>3. jb # NoBuf => /\ jb.depth <= Len(stack')
                        /\ \A i \in 1 .. jb.depth : stack'[i] = stack[i]
      BY <3>1, <3>2, <1>0
    <3> QED BY <2>2, <3>3, <1>0, MarksKept
  <2> QED BY <2>2, <2>5, <2>6 DEF Abstract!vars
<1>16. ASSUME NEW m, Switched(m), UNCHANGED jb PROVE UNCHANGED Marks /\ t2 = Nested(stack)[m]
  <2>1. /\ m \in 0 .. Len(stack) /\ (jb # NoBuf => jb.depth <= m)
        /\ Len(stack') = m + 1 /\ \A i \in 1 .. m : stack'[i] = stack[i]
        /\ Nested(stack')[Len(stack')] = Nested(stack)[m]
    BY <1>16 DEF Switched
  <2>2. jb # NoBuf => /\ jb.depth <= Len(stack')
                      /\ \A i \in 1 .. jb.depth : stack'[i] = stack[i]
    <3>1. jb.depth \in Nat
      BY DEF IInv, TypeOK
    <3> QED BY <2>1, <3>1, <1>0
  <2>3. UNCHANGED Marks
    BY <1>16, <2>2, <1>0, MarksKept
  <2> QED BY <2>1, <2>3, <1>1
<1>9. CASE After
  <2>1. PICK p : p = exception_state_ptr
    OBVIOUS
  <2>2. p = Len(stack) /\ p \in 1 .. Len(stack) /\ stack[p].kind = "exc" /\ stack[p] \in Frame
    BY <1>9, <2>1, ProcessorFrame DEF After
  <2>3. CASE stack[p].signum >= EXCEPTION_COUNT
    <3>1. longjmp_frame(exception_state_ptr) /\ pc = "after" /\ UNCHANGED <<forced, jb>>
      BY <1>9, <2>1, <2>3 DEF After
    <3>2. Switched(p - 1)
      BY <2>2, <3>1, ResumeSwitches
    <3>3. pc' = "pop"
      BY <3>2 DEF Switched
    <3>4. p - 1 \in 0 .. Len(stack)
      BY <2>2, <1>0
    <3>6. PICK u : u = Nested(stack)[p - 1]
      OBVIOUS
    <3>7. t2 = u /\ UNCHANGED Marks
      BY <3>1, <3>2, <3>6, <1>16
    <3>8. t = Append(u, stack[p].signum)
      BY <2>2, <3>6, <1>0, <1>1, NestedFacts, Zenon
    <3>9. stack[p].signum \in IRQs /\ stack[p].signum \in Nat
      <4>1. stack[p].signum \in Numbers
        BY <2>2 DEF NumbersOK
      <4> QED BY <4>1, <2>2, <2>3, RealsAssumption DEF Numbers, EXCEPTION_COUNT, Frame
    <3>10. u \in Seq(Nat)
      BY <3>6, <3>4, <1>0, NestedFacts
    <3>11. PICK e : e = stack[p].signum
      OBVIOUS
    <3>12. /\ t = Append(u, e) /\ t # <<>> /\ t[Len(t)] = e /\ Len(t) - 1 = Len(u)
           /\ u = SubSeq(t, 1, Len(t) - 1)
      <4>1. e \in Nat /\ t = Append(u, e)
        BY <3>8, <3>9, <3>11
      <4>2. Len(t) = Len(u) + 1 /\ t[Len(u) + 1] = e /\ Len(u) \in Nat
        BY <4>1, <3>10, AppendFacts
      <4>3. Len(t) - 1 = Len(u) /\ t # <<>>
        BY <4>2
      <4>4. SubSeq(t, 1, Len(u)) = u
        BY <4>1, <3>10, LowerParts
      <4> QED BY <4>1, <4>2, <4>3, <4>4
    <3>13. Handled = t /\ Handled' = u
      BY <1>2, <3>1, <3>3, <3>7
    <3>15. Len(t) \notin Marks
      <4>1. CASE jb = NoBuf
        BY <4>1 DEF Marks
      <4>2. CASE jb # NoBuf
        <5>1. jb.depth \in 0 .. p - 1
          <6>1. jb.depth <= p - 1 /\ jb.depth \in Nat
            BY <3>2, <4>2 DEF Switched, IInv, TypeOK
          <6> QED BY <6>1, <2>2, <1>0
        <5>2. PICK c : c = Nested(stack)[jb.depth]
          OBVIOUS
        <5>3. PICK k \in 0 .. Len(u) : c = SubSeq(u, 1, k)
          <6>1. jb.depth \in 0 .. Len(stack) /\ p - 1 \in jb.depth .. Len(stack)
            BY <5>1, <3>4, <1>0
          <6> QED BY <6>1, <5>2, <3>6, <1>0, NestedGrows
        <5>4. Len(c) = k /\ k # Len(t)
          <6>1. Len(c) = k
            BY <5>3, <3>10, PrefixFacts
          <6>2. Len(u) \in Nat /\ Len(t) \in Nat
            BY <3>10, <1>2
          <6> QED BY <6>1, <6>2, <5>3, <3>12
        <5> QED BY <4>2, <5>2, <5>4 DEF Marks
      <4> QED BY <4>1, <4>2
    <3>14. Abstract!Resume
      BY <3>1, <3>3, <3>7, <3>9, <3>11, <3>12, <3>13, <3>15 DEF Abstract!Resume
    <3> QED BY <3>1, <3>14 DEF Abstract!Next
  <2>4. CASE ~(stack[p].signum >= EXCEPTION_COUNT)
    <3>1. UNCHANGED <<stack, forced, jb>> /\ pc = "after" /\ pc' = "exited"
      BY <1>9, <2>1, <2>4 DEF After
    <3> QED BY <3>1, <1>4
  <2> QED BY <2>3, <2>4
<1>10. CASE Iret
  <2>1. PICK n : n = Len(stack)
    OBVIOUS
  <2>2. /\ n \in 1 .. Len(stack) /\ stack[n].kind = "iret" /\ n - 1 \in 0 .. Len(stack)
        /\ pc = "iret" /\ UNCHANGED <<forced, jb>>
        /\ stack' = SubSeq(stack, 1, n - 1) /\ pc' = stack[n].at
    BY <1>10, <2>1, <1>0 DEF Iret, IInv, PcFits, Fits
  <2>3. pc' \notin {"except", "exited"}
    <3>1. stack[n] \in Frame
      BY <2>2, <1>0
    <3> QED BY <2>2, <3>1 DEF Frame, Interruptible
  <2>4. Len(stack') = n - 1 /\ Nested(stack')[n - 1] = Nested(stack)[n - 1]
    BY <2>2, <1>0, CutNumbers
  <2>5. Nested(stack)[n] = Nested(stack)[n - 1]
    BY <2>2, <1>0, NestedFacts, Zenon
  <2>6. t2 = t
    BY <2>1, <2>4, <2>5, <1>1
  <2>7. UNCHANGED Marks
    <3>1. \A i \in 1 .. n - 1 : stack'[i] = stack[i]
      BY <2>2, <1>0, PrefixFacts
    <3>2. jb # NoBuf => jb.depth <= n - 1 /\ jb.depth \in Nat
      BY <2>2, <2>4 DEF IInv, FramesAreChained, TypeOK
    <3>3. jb # NoBuf => \A i \in 1 .. jb.depth : stack'[i] = stack[i]
      BY <2>2, <3>1, <3>2
    <3> QED BY <2>2, <2>4, <3>2, <3>3, <1>0, MarksKept
  <2> QED BY <2>2, <2>3, <2>6, <2>7, <1>2, <1>15 DEF Abstract!vars
<1>11. CASE longjmp
  <2>1. PICK d : d = jb.depth
    OBVIOUS
  <2>2. pc = "run" /\ jb # NoBuf /\ UNCHANGED <<forced, jb>>
    BY <1>11 DEF longjmp, Running
  <2>3. Switched(d)
    BY <1>11, <2>1, LongjmpSwitches
  <2>4. pc' = "pop" /\ d \in 0 .. Len(stack)
    BY <2>3 DEF Switched
  <2>5. UNCHANGED Marks /\ t2 = Nested(stack)[d]
    BY <2>2, <2>3, <1>16
  <2>6. PICK k : k = Len(Nested(stack)[d])
    OBVIOUS
  <2>7. t2 = SubSeq(t, 1, k)
    BY <2>4, <2>5, <2>6, <1>0, <1>1, NestedLower
  <2>8. k \in Marks
    BY <2>1, <2>2, <2>6 DEF Marks
  <2>9. Handled = t /\ Handled' = t2
    BY <2>2, <2>4, <1>2
  <2>10. Abstract!Jump
    BY <2>2, <2>4, <2>5, <2>7, <2>8, <2>9 DEF Abstract!Jump
  <2> QED BY <2>2, <2>10 DEF Abstract!Next
<1>12. CASE Processor \/ (\E s \in UserSigs : raise(s)) \/ CallDos \/ DosReturn
            \/ GrowBegin \/ GrowSet \/ Exit \/ FinishExit \/ PopPtr
  <2>1. UNCHANGED <<stack, forced, jb>> /\ pc \notin {"except", "exited"} /\ pc' # "except"
    BY <1>12 DEF Processor, raise, RaiseOutcome, TracebackExit, CallDos, DosReturn,
                 GrowBegin, GrowSet, Exit, FinishExit, PopPtr, Running
  <2> QED BY <2>1, <1>4
<1>17. CASE setjmp \/ HandlerReturn
  <2>1. /\ UNCHANGED <<stack, forced>> /\ pc = "run" /\ pc' \in {"run", "after"}
        /\ \/ jb' = [depth |-> Len(stack), ptr |-> exception_state_ptr]
           \/ jb' = NoBuf \/ jb' = jb
    BY <1>17 DEF setjmp, HandlerReturn, Running
  <2>2. Handled = t /\ Handled' = t
    BY <2>1, <1>2, <1>3
  <2>3. Marks' \in {{}, {Len(t)}} \/ UNCHANGED Marks
    <3>1. CASE jb' = jb
      BY <2>1, <3>1 DEF Marks
    <3>2. CASE jb' = NoBuf
      BY <3>2 DEF Marks
    <3>3. CASE jb' = [depth |-> Len(stack), ptr |-> exception_state_ptr]
      <4>1. jb'.depth = Len(stack)
        BY <3>3
      <4> QED BY <2>1, <4>1, <1>1 DEF Marks
    <3> QED BY <2>1, <3>1, <3>2, <3>3
  <2>4. CASE UNCHANGED Marks
    BY <2>1, <2>2, <2>4, <1>15 DEF Abstract!vars
  <2>5. CASE Marks' \in {{}, {Len(t)}}
    BY <2>1, <2>2, <2>5 DEF Abstract!Next, Abstract!Mark
  <2> QED BY <2>3, <2>4, <2>5
<1>13. CASE (\E n \in Reals : Reach(n)) \/ Exited
            \/ (\E s \in UserSigs, d \in Dispositions : signal(s, d)) \/ UNCHANGED vars
  <2>1. UNCHANGED <<stack, pc, exception_state, forced, jb>>
    BY <1>13 DEF Reach, signal, Exited, vars
  <2> QED BY <2>1, <1>5, <1>14 DEF Abstract!vars
<1> QED BY <1>6, <1>7, <1>8, <1>9, <1>10, <1>11, <1>12, <1>13, <1>17 DEF Next

\* The machinery keeps the promises of FakeExc: descriptors, limits, frames and
\* pointers are nothing more than a way to take each request once, before any
\* exception of the program's own, to nest what is being handled, and to leave a
\* real exception by no other way than a jump of the program or its end.
THEOREM Refinement == Spec => KeepsPromises
<1>1. Init => Abstract!Init /\ NumbersOK
  <2> SUFFICES ASSUME Init PROVE Abstract!Init /\ NumbersOK
    OBVIOUS
  <2>1. stack = <<>> /\ stack \in Seq(Frame) /\ pc = "run" /\ Len(stack) = 0 /\ forced = 0
        /\ exception_state \in StaticState
    BY InitIInv DEF Init, IInv, TypeOK
  <2>2. Nested(stack)[0] = <<>>
    BY <2>1, NestedFacts
  <2>3. Handled = <<>>
    <3>1. pc # "except"
      BY <2>1
    <3>2. Handled = Nested(stack)[Len(stack)]
      BY <3>1, <2>1, HandledFacts, Zenon DEF Handled
    <3> QED BY <2>1, <2>2, <3>2
  <2>4. NumbersOK
    BY <2>1 DEF NumbersOK
  <2>5. Marks = {}
    BY DEF Init, Marks
  <2> QED BY <2>1, <2>3, <2>4, <2>5 DEF Abstract!Init
<1>2. IInv /\ NumbersOK /\ [Next]_vars => NumbersOK'
  BY NextNumbersOK
<1>3. IInv /\ NumbersOK /\ IInv' /\ [Next]_vars => [Abstract!Next]_(Abstract!vars)
  BY StepRefines
<1>4. Spec => [](IInv /\ NumbersOK)
  <2>1. Init => IInv
    BY InitIInv
  <2>2. IInv /\ [Next]_vars => IInv'
    BY NextIInv
  <2> QED BY <1>1, <1>2, <2>1, <2>2, PTL DEF Spec
<1> QED BY <1>1, <1>3, <1>4, PTL DEF Spec, KeepsPromises, Abstract!Spec
=============================================================================
