------------------------------- MODULE SigMask -------------------------------
(***************************************************************************)
(* Blocked signals: posix/signal/sigprocm.c, sigactio.c, sigpendi.c,       *)
(* kill.c, and signal and raise of go32/dpmiexcp.c.                        *)
(*                                                                         *)
(* DJGPP has no kernel to hold a signal back.  sigprocmask blocks one by   *)
(* installing sig_suspender in the place of its handler; the suspender     *)
(* records the signal, and unblocking restores the handler and raises what *)
(* was recorded.  Signals arrive between any two statements, so a call of  *)
(* sigprocmask is a walk over the signal numbers that handlers interrupt.  *)
(***************************************************************************)
EXTENDS Naturals, Sequences, FiniteSets

CONSTANTS NSig,       \* signals are 1 .. NSig
          SIGKILL,    \* the one that signal() refuses
          MaxNest,    \* bound on nested calls and handlers
          HandlersBlock,    \* do the program's handlers call sigprocmask?
          SignalOnBlocked   \* does the program call signal() for a blocked signal?

ASSUME SigAssumption == NSig \in Nat \ {0} /\ SIGKILL \in 1 .. NSig /\ MaxNest \in Nat
ASSUME ProgramAssumption == {HandlersBlock, SignalOnBlocked} \subseteq BOOLEAN

Sigs == 1 .. NSig
Wanted == {"SIG_DFL", "SIG_IGN", "user"}      \* what programs install
Handlers == Wanted \cup {"sig_suspender"}

VARIABLES
  signal_list,    \* dpmiexcp.c: the handlers in force
  current_mask, pending, prev_handlers,   \* sigprocm.c
  initialized,    \* sigprocmask_count = __bss_count
  stack,          \* calls and handlers in progress, innermost last
  alive,          \* no default action has ended the program
  want,           \* history: what the program installed last
  owed            \* history: signals that arrived for a handler not yet run

posix == <<current_mask, pending, prev_handlers, initialized>>
history == <<want, owed>>
vars == <<signal_list, posix, stack, alive, history>>

Activation == [op : {"sigprocmask", "sigaction", "handler"},
               at : {"top", "store", "forget", "check", "raise", "body", "restore", "set"},
               how : {"SIG_BLOCK", "SIG_UNBLOCK", "SIG_SETMASK"},
               set : SUBSET Sigs, new_mask : SUBSET Sigs,
               signo : 1 .. NSig + 1,
               tmp : Handlers, act : Wanted \cup {"NULL"}]

\* A call at its first statement, about signal s.
Call(op, at, s) ==
  [op |-> op, at |-> at, how |-> "SIG_BLOCK", set |-> {}, new_mask |-> {}, signo |-> s,
   tmp |-> "SIG_DFL", act |-> "NULL"]

Top == stack[Len(stack)]
Pop == SubSeq(stack, 1, Len(stack) - 1)
Continue(call) == stack' = Append(Pop, call)

Init ==
  /\ signal_list = [s \in Sigs |-> "SIG_DFL"]
  /\ current_mask = {} /\ pending = {}
  /\ prev_handlers = [s \in Sigs |-> "SIG_DFL"]   \* zero, until the first call
  /\ initialized = FALSE
  /\ stack = <<>> /\ alive = TRUE
  /\ want = [s \in Sigs |-> "SIG_DFL"] /\ owed = {}

-----------------------------------------------------------------------------
(* raise and signal. *)

\* Is sigaction looking for the old action of s, with SIG_IGN in its place?
Asking(s) ==
  \E i \in DOMAIN stack : stack[i].op = "sigaction" /\ stack[i].at = "restore" /\ stack[i].signo = s

\* A signal for a handler of the program's that does not run now is owed.  One that
\* sigaction's SIG_IGN swallows is lost and not counted.
Owe(s) ==
  owed' = IF signal_list[s] = "user" THEN owed \ {s}
          ELSE IF want[s] = "user" /\ ~Asking(s) THEN owed \cup {s} ELSE owed

\* Mutant: the suspender forgets to record.
deliver_ForgetsPending(s, frames) ==
  /\ alive' = (signal_list[s] # "SIG_DFL")
  /\ pending' = pending
  /\ stack' = CASE signal_list[s] = "user"    -> Append(frames, Call("handler", "body", s))
                [] signal_list[s] = "SIG_DFL" -> <<>>
                [] OTHER                      -> frames
  /\ Owe(s)

\* dpmiexcp.c raise(s), which returns to the calls in `frames'.  sig_suspender is
\* one sigaddset and runs to its end at once.
deliver(s, frames) ==
  /\ alive' = (signal_list[s] # "SIG_DFL")
  /\ pending' = IF signal_list[s] = "sig_suspender" THEN pending \cup {s} ELSE pending
  /\ stack' = CASE signal_list[s] = "user"    -> Append(frames, Call("handler", "body", s))
                [] signal_list[s] = "SIG_DFL" -> <<>>
                [] OTHER                      -> frames
  /\ Owe(s)

\* A signal arrives from the exception processor between two statements, or the
\* program's code calls raise(s) or kill(getpid(), s).
Arrive(s) ==
  /\ alive /\ Len(stack) < MaxNest
  /\ deliver(s, stack)
  /\ UNCHANGED <<signal_list, current_mask, prev_handlers, initialized, want>>

HandlerReturn ==
  /\ stack # <<>> /\ Top.op = "handler"
  /\ stack' = Pop
  /\ UNCHANGED <<signal_list, posix, alive, history>>

\* The program's main line runs.  Its handlers call no function of this module
\* but sigprocmask, and that one only when HandlersBlock says so.
InMain == alive /\ stack = <<>> /\ MaxNest > 0
InHandler == alive /\ stack # <<>> /\ Len(stack) < MaxNest /\ Top.op = "handler"

\* What signal(s, h) does; what was owed to a handler the program gives up is owed
\* no more.
Install(s, h) ==
  /\ signal_list' = [signal_list EXCEPT ![s] = h]
  /\ want' = [want EXCEPT ![s] = h]
  /\ owed' = IF h = "user" THEN owed ELSE owed \ {s}

\* The program calls signal(s, h), or sigaction(s, {h}, NULL), which is the same.
\* Both refuse SIGKILL.
Signal(s, h) ==
  /\ InMain
  /\ s # SIGKILL
  /\ SignalOnBlocked \/ s \notin current_mask
  /\ Install(s, h)
  /\ UNCHANGED <<posix, stack, alive>>

-----------------------------------------------------------------------------
(* sigaction with a place for the old action. *)

\* sigaction(s, act, &oact), act = "NULL" for a mere question: the old handler is
\* found by installing SIG_IGN, and put back by a second call of signal().
Sigaction(s, act) ==
  /\ InMain
  /\ s # SIGKILL
  /\ SignalOnBlocked \/ s \notin current_mask
  /\ signal_list' = [signal_list EXCEPT ![s] = "SIG_IGN"]
  /\ stack' = Append(stack, [Call("sigaction", "restore", s)
                               EXCEPT !.tmp = signal_list[s], !.act = act])
  /\ UNCHANGED <<posix, alive, history>>

SigactionRestore ==
  /\ stack # <<>> /\ Top.op = "sigaction" /\ Top.at = "restore"
  /\ signal_list' = [signal_list EXCEPT ![Top.signo] = Top.tmp]
  /\ IF Top.act = "NULL" THEN stack' = Pop ELSE Continue([Top EXCEPT !.at = "set"])
  /\ UNCHANGED <<posix, alive, history>>

SigactionAct ==
  /\ stack # <<>> /\ Top.op = "sigaction" /\ Top.at = "set"
  /\ Install(Top.signo, Top.act)
  /\ stack' = Pop
  /\ UNCHANGED <<posix, alive>>

-----------------------------------------------------------------------------
(* sigprocmask. *)

\* Mutant: announces the mask before the suspenders are installed.
Sigprocmask_MaskFirst(how, set) ==
  /\ InMain \/ (InHandler /\ HandlersBlock)
  /\ initialized' = TRUE
  /\ current_mask' = IF how = "SIG_BLOCK" THEN current_mask \cup set ELSE current_mask
  /\ IF initialized THEN UNCHANGED <<pending, prev_handlers>>
     ELSE pending' = {} /\ prev_handlers' = [s \in Sigs |-> "SIG_ERR"]
  /\ stack' = Append(stack, [Call("sigprocmask", "top", 1) EXCEPT !.how = how, !.set = set])
  /\ UNCHANGED <<signal_list, alive, history>>

\* The call with a valid `how' and a set; any other call changes nothing.  The
\* first one in a process initializes the static sets.
Sigprocmask(how, set) ==
  /\ InMain \/ (InHandler /\ HandlersBlock)
  /\ initialized' = TRUE
  /\ IF initialized THEN UNCHANGED <<current_mask, pending, prev_handlers>>
     ELSE current_mask' = {} /\ pending' = {} /\ prev_handlers' = [s \in Sigs |-> "SIG_ERR"]
  /\ stack' = Append(stack, [Call("sigprocmask", "top", 1) EXCEPT !.how = how, !.set = set])
  /\ UNCHANGED <<signal_list, alive, history>>

AtLoop(at) == stack # <<>> /\ Top.op = "sigprocmask" /\ Top.at = at

\* Mutant: counts twice.
NextSigno_Skips(new_mask) ==
  Continue([Top EXCEPT !.at = "top", !.new_mask = new_mask, !.signo = @ + 2])

NextSigno(new_mask) ==
  Continue([Top EXCEPT !.at = "top", !.new_mask = new_mask, !.signo = @ + 1])

\* Does a call with this how and set unblock s?
Unblocks(how, set, s) ==
  \/ how = "SIG_UNBLOCK" /\ s \in set
  \/ how = "SIG_SETMASK" /\ s \notin set

\* A signal that stays as it is, or SIGKILL, or one whose handler is saved already.
LoopKeep ==
  LET s == Top.signo
      blocks == s \notin current_mask /\ s \in Top.set /\ Top.how # "SIG_UNBLOCK"
  IN  /\ AtLoop("top") /\ s <= NSig
      /\ \/ s \in current_mask /\ ~Unblocks(Top.how, Top.set, s)
         \/ s \notin current_mask /\ ~blocks
         \/ blocks /\ (s = SIGKILL \/ prev_handlers[s] # "SIG_ERR")
      /\ NextSigno(IF s \in current_mask \/ blocks THEN Top.new_mask \cup {s}
                   ELSE Top.new_mask)
      /\ UNCHANGED <<signal_list, posix, alive, history>>

\* A signal that becomes blocked: signal(signo, sig_suspender) ...
LoopBlock ==
  LET s == Top.signo
  IN  /\ AtLoop("top") /\ s <= NSig
      /\ s \notin current_mask /\ s \in Top.set /\ Top.how # "SIG_UNBLOCK"
      /\ s # SIGKILL /\ prev_handlers[s] = "SIG_ERR"
      /\ signal_list' = [signal_list EXCEPT ![s] = "sig_suspender"]
      /\ Continue([Top EXCEPT !.at = "store", !.tmp = signal_list[s],
                              !.new_mask = @ \cup {s}])
      /\ UNCHANGED <<posix, alive, history>>

\* ... and its result stored.
LoopStore ==
  /\ AtLoop("store")
  /\ prev_handlers' = [prev_handlers EXCEPT ![Top.signo] = Top.tmp]
  /\ NextSigno(Top.new_mask)
  /\ UNCHANGED <<signal_list, current_mask, pending, initialized, alive, history>>

\* Mutant: restores the handler only when nothing is pending.
LoopUnblock_SkipsRestore ==
  LET s == Top.signo
  IN  /\ AtLoop("top") /\ s <= NSig
      /\ s \in current_mask /\ Unblocks(Top.how, Top.set, s)
      /\ IF prev_handlers[s] # "SIG_ERR" /\ s \notin pending
         THEN /\ signal_list' = [signal_list EXCEPT ![s] = prev_handlers[s]]
              /\ Continue([Top EXCEPT !.at = "forget"])
         ELSE /\ signal_list' = signal_list
              /\ Continue([Top EXCEPT !.at = "check"])
      /\ UNCHANGED <<posix, alive, history>>

\* A signal that becomes unblocked: its handler is put back ...
LoopUnblock ==
  LET s == Top.signo
  IN  /\ AtLoop("top") /\ s <= NSig
      /\ s \in current_mask /\ Unblocks(Top.how, Top.set, s)
      /\ IF prev_handlers[s] # "SIG_ERR"
         THEN /\ signal_list' = [signal_list EXCEPT ![s] = prev_handlers[s]]
              /\ Continue([Top EXCEPT !.at = "forget"])
         ELSE /\ signal_list' = signal_list
              /\ Continue([Top EXCEPT !.at = "check"])
      /\ UNCHANGED <<posix, alive, history>>

LoopForget ==
  /\ AtLoop("forget")
  /\ prev_handlers' = [prev_handlers EXCEPT ![Top.signo] = "SIG_ERR"]
  /\ Continue([Top EXCEPT !.at = "check"])
  /\ UNCHANGED <<signal_list, current_mask, pending, initialized, alive, history>>

\* ... and what was recorded while it was blocked is raised.
LoopCheck ==
  /\ AtLoop("check")
  /\ IF Top.signo \in pending
     THEN pending' = pending \ {Top.signo} /\ Continue([Top EXCEPT !.at = "raise"])
     ELSE pending' = pending /\ NextSigno(Top.new_mask)
  /\ UNCHANGED <<signal_list, current_mask, prev_handlers, initialized, alive, history>>

LoopRaise ==
  /\ AtLoop("raise")
  /\ deliver(Top.signo,
             Append(Pop, [Top EXCEPT !.at = "top", !.signo = @ + 1]))
  /\ UNCHANGED <<signal_list, current_mask, prev_handlers, initialized, want>>

LoopEnd ==
  /\ AtLoop("top") /\ Top.signo > NSig
  /\ current_mask' = Top.new_mask
  /\ stack' = Pop
  /\ UNCHANGED <<signal_list, pending, prev_handlers, initialized, alive, history>>

Dead == ~alive /\ UNCHANGED vars

Next ==
  \/ \E s \in Sigs : Arrive(s)
  \/ HandlerReturn
  \/ \E s \in Sigs, h \in Wanted : Signal(s, h)
  \/ \E s \in Sigs, h \in Wanted \cup {"NULL"} : Sigaction(s, h)
  \/ SigactionRestore
  \/ SigactionAct
  \/ \E how \in {"SIG_BLOCK", "SIG_UNBLOCK", "SIG_SETMASK"}, set \in SUBSET Sigs :
       Sigprocmask(how, set)
  \/ LoopKeep \/ LoopBlock \/ LoopStore
  \/ LoopUnblock \/ LoopForget \/ LoopCheck \/ LoopRaise
  \/ LoopEnd
  \/ Dead

Spec == Init /\ [][Next]_vars

-----------------------------------------------------------------------------
(* Properties. *)

\* Every variable has its type.
TypeOK ==
  /\ signal_list \in [Sigs -> Handlers]
  /\ current_mask \subseteq Sigs /\ pending \subseteq Sigs /\ owed \subseteq Sigs
  /\ prev_handlers \in [Sigs -> Handlers \cup {"SIG_ERR"}]
  /\ initialized \in BOOLEAN /\ alive \in BOOLEAN
  /\ stack \in Seq(Activation)
  /\ want \in [Sigs -> Wanted]

\* Whenever no call is in progress the three representations of "blocked" agree,
\* whatever signals interrupted the calls before: the mask, the saved handlers
\* and the suspender in signal_list; and the handler saved is the one the program
\* installed.
MaskIsInstalled ==
  (alive /\ initialized /\ stack = <<>>) =>
    \A s \in Sigs \ {SIGKILL} :
      /\ s \in current_mask <=> signal_list[s] = "sig_suspender"
      /\ s \in current_mask <=> prev_handlers[s] # "SIG_ERR"
      /\ s \in current_mask => prev_handlers[s] = want[s]
      /\ s \notin current_mask => signal_list[s] = want[s]

\* The types and the agreement, together.
MaskOK == TypeOK /\ MaskIsInstalled

\* An unblocked signal is never owed to the program once its calls have returned: apart
\* from what sigaction ignores while it looks, no signal is lost, and sigprocmask
\* delivers all that it unblocks before it returns (sigprocm.txh, "an advantage of not missing the signal entirely" and
\* "they are all delivered ... before the call to sigprocmask returns").
NoSignalIsLost ==
  (alive /\ stack = <<>>) => owed \subseteq current_mask \cap pending

\* Has a call in progress got as far as unblocking s?
BeingUnblocked(s) ==
  \E i \in DOMAIN stack :
    /\ stack[i].op = "sigprocmask" /\ Unblocks(stack[i].how, stack[i].set, s)
    /\ stack[i].signo > s \/ (stack[i].signo = s /\ stack[i].at # "top")

StartsHandler(s) ==
  Len(stack') = Len(stack) + 1 /\ stack'[Len(stack')] = Call("handler", "body", s)

\* A handler of the program's never starts for a signal in its mask, unless a
\* sigprocmask in progress is unblocking that signal (sigprocm.txh, "it is not
\* delivered to the program until such time as that signal is unblocked").
BlockedIsHeld ==
  [][\A s \in Sigs : StartsHandler(s) => s \notin current_mask \/ BeingUnblocked(s)]_vars

=============================================================================
