---------------------------- MODULE SigMaskProofs ----------------------------
(***************************************************************************)
(* Proofs about SigMask, for any number of signals and depth of nesting,   *)
(* of programs whose handlers do not call sigprocmask and that do not      *)
(* change the handler of a signal while it is blocked.                     *)
(***************************************************************************)
EXTENDS SigMask, Lemmas

-----------------------------------------------------------------------------
(* The inductive invariant. *)

Ordinary == Sigs \ {SIGKILL}

\* Only the program's main line is in a call of sigprocmask or sigaction: it is the first
\* frame, and all others are handlers.
OnlyFirstCalls == \A i \in 1 .. Len(stack) : i # 1 => stack[i].op = "handler"
Walking == stack # <<>> /\ stack[1].op = "sigprocmask"
Asked == stack # <<>> /\ stack[1].op = "sigaction"

\* Signal s is blocked, or it is not, as mask says, in signal_list and in prev_handlers alike.
Settled(s, mask) ==
  IF s \in mask THEN signal_list[s] = "sig_suspender" /\ prev_handlers[s] = want[s]
  ELSE signal_list[s] = want[s] /\ (initialized => prev_handlers[s] = "SIG_ERR")

\* Nothing touches SIGKILL but the mask.
KillIsAlone ==
  /\ signal_list[SIGKILL] = "SIG_DFL" /\ want[SIGKILL] = "SIG_DFL"
  /\ initialized => prev_handlers[SIGKILL] = "SIG_ERR"

\* With no call in progress everything is as the mask says.
RestOK ==
  /\ ~initialized => current_mask = {}
  /\ ~Walking /\ ~Asked => \A s \in Ordinary : Settled(s, current_mask)

\* sigaction has SIG_IGN in the place of one handler that is not blocked.
AskedOK ==
  Asked =>
    LET c == stack[1]
        x == c.signo
    IN  /\ x \in Ordinary /\ x \notin current_mask /\ c.at \in {"restore", "set"}
        /\ \A s \in Ordinary : s # x => Settled(s, current_mask)
        /\ initialized => prev_handlers[x] = "SIG_ERR"
        /\ c.at = "restore" => signal_list[x] = "SIG_IGN" /\ c.tmp = want[x]
        /\ c.at = "set" => signal_list[x] = want[x] /\ c.act # "NULL"

\* sigprocmask has settled the signals below signo as new_mask says, and has not come to
\* those above; at says how far it is with signo itself.
WalkAt(c) ==
  LET k == c.signo
  IN  /\ initialized /\ c.at \in {"top", "store", "forget", "check", "raise"}
      /\ c.at # "top" => k \in Sigs
      /\ \A s \in Ordinary : s < k => Settled(s, c.new_mask)
      /\ \A s \in Ordinary : s > k => Settled(s, current_mask)
      /\ \A s \in Sigs : s < k /\ s \in current_mask /\ s \notin c.new_mask => Unblocks(c.how, c.set, s)
      /\ \A s \in c.new_mask : s < k \/ (s = k /\ c.at = "store")
      /\ c.at = "top" /\ k \in Ordinary => Settled(k, current_mask)
      /\ c.at = "store" => /\ k # SIGKILL /\ k \notin current_mask /\ k \in c.new_mask
                           /\ signal_list[k] = "sig_suspender" /\ c.tmp = want[k]
      /\ c.at = "forget" => k # SIGKILL /\ signal_list[k] = want[k]
      /\ c.at \in {"check", "raise"} => (k # SIGKILL => Settled(k, {}))
      /\ c.at \in {"forget", "check", "raise"} => Unblocks(c.how, c.set, k)
WalkOK == Walking => WalkAt(stack[1])

\* A signal owed to a handler is recorded: it waits for sigprocmask, or sigprocmask is
\* about to raise it.
OwedOK ==
  \A s \in owed :
    /\ want[s] = "user"
    /\ \/ signal_list[s] = "sig_suspender" /\ s \in pending
       \/ Walking /\ stack[1].signo = s /\ stack[1].at \in {"forget", "check"} /\ s \in pending
       \/ Walking /\ stack[1].signo = s /\ stack[1].at = "raise"

Masked == KillIsAlone /\ RestOK /\ AskedOK /\ WalkOK

IInv ==
  /\ TypeOK /\ OnlyFirstCalls
  /\ ~alive => stack = <<>>
  /\ alive => Masked /\ OwedOK
-----------------------------------------------------------------------------
(* The stack. *)

\* The constants, one by one.
LEMMA Consts == NSig \in Nat /\ NSig > 0 /\ SIGKILL \in Sigs /\ Sigs \subseteq Nat
BY SigAssumption DEF Sigs

\* The types, variable by variable.
LEMMA Types ==
  ASSUME TypeOK
  PROVE  /\ signal_list \in [Sigs -> Handlers] /\ current_mask \subseteq Sigs /\ pending \subseteq Sigs
         /\ owed \subseteq Sigs /\ prev_handlers \in [Sigs -> Handlers \cup {"SIG_ERR"}]
         /\ initialized \in BOOLEAN /\ alive \in BOOLEAN /\ stack \in Seq(Activation)
         /\ want \in [Sigs -> Wanted]
BY DEF TypeOK

\* The fields of a frame.
LEMMA FrameType ==
  ASSUME NEW c \in Activation
  PROVE  /\ c.op \in {"sigprocmask", "sigaction", "handler"}
         /\ c.at \in {"top", "store", "forget", "check", "raise", "body", "restore", "set"}
         /\ c.how \in {"SIG_BLOCK", "SIG_UNBLOCK", "SIG_SETMASK"}
         /\ c.set \subseteq Sigs /\ c.new_mask \subseteq Sigs /\ c.signo \in 1 .. NSig + 1
         /\ c.tmp \in Handlers /\ c.act \in Wanted \cup {"NULL"}
BY DEF Activation

\* A new frame.
LEMMA CallFacts ==
  ASSUME NEW op \in {"sigprocmask", "sigaction", "handler"},
         NEW at \in {"top", "body", "restore"}, NEW s \in Sigs
  PROVE  /\ Call(op, at, s) \in Activation
         /\ Call(op, at, s).op = op /\ Call(op, at, s).at = at /\ Call(op, at, s).signo = s
         /\ Call(op, at, s).new_mask = {}
<1>1. s \in 1 .. NSig + 1
  BY Consts DEF Sigs
<1>2. "SIG_DFL" \in Handlers
  BY DEF Handlers, Wanted
<1> QED BY <1>1, <1>2 DEF Call, Activation

\* A call on top of the stack is alone on it.
LEMMA FirstFrame ==
  ASSUME IInv, stack # <<>>, Top.op # "handler"
  PROVE  /\ Len(stack) = 1 /\ Top = stack[1] /\ stack[1] \in Activation
         /\ Pop \in Seq(Activation) /\ Len(Pop) = 0 /\ Pop = <<>> /\ alive
<1>1. stack \in Seq(Activation) /\ OnlyFirstCalls /\ alive
  BY Types DEF IInv, TypeOK
<1>2. Len(stack) \in Nat \ {0} /\ Top \in Activation /\ Pop \in Seq(Activation) /\ Len(Pop) = Len(stack) - 1
  BY <1>1, PopFacts DEF Top, Pop
<1>3. Len(stack) = 1
  BY <1>1, <1>2 DEF OnlyFirstCalls, Top
<1> QED BY <1>1, <1>2, <1>3 DEF Top

\* A call that goes on stays alone.
LEMMA ContinueFacts ==
  ASSUME IInv, stack # <<>>, Top.op # "handler", NEW e \in Activation, Continue(e)
  PROVE  /\ stack' \in Seq(Activation) /\ stack'[1] = e /\ stack' # <<>> /\ OnlyFirstCalls'
         /\ Len(stack') = 1
<1>1. Pop \in Seq(Activation) /\ Len(Pop) = 0
  BY FirstFrame
<1>2. stack' = Append(Pop, e)
  BY DEF Continue
<1>3. stack' \in Seq(Activation) /\ Len(stack') = 1 /\ stack'[1] = e
  <2> DEFINE p == Pop
  <2> HIDE DEF p
  <2>1. p \in Seq(Activation) /\ Len(p) = 0
    BY <1>1 DEF p
  <2>2. Append(p, e) \in Seq(Activation) /\ Len(Append(p, e)) = 1 /\ Append(p, e)[1] = e
    BY <2>1, AppendFacts
  <2> QED BY <2>2, <1>2 DEF p
<1> QED BY <1>3 DEF OnlyFirstCalls

\* The call in progress is the same, whatever handlers come and go.
SameBase ==
  /\ Walking' <=> Walking
  /\ Asked' <=> Asked
  /\ Walking \/ Asked => stack'[1] = stack[1]

\* What is settled stays so while the handlers and the mask do not change.
LEMMA SameSettled ==
  ASSUME UNCHANGED <<signal_list, prev_handlers, initialized, want>>
  PROVE  \A s, m : Settled(s, m)' <=> Settled(s, m)
BY DEF Settled

\* So does the agreement of mask and handlers.
LEMMA SameMasked ==
  ASSUME Masked, SameBase, UNCHANGED <<signal_list, current_mask, prev_handlers, initialized, want>>
  PROVE  Masked'
<1>1. \A s, m : Settled(s, m)' <=> Settled(s, m)
  BY SameSettled
<1>2. KillIsAlone'
  BY DEF Masked, KillIsAlone
<1>3. RestOK'
  BY <1>1 DEF Masked, RestOK, SameBase
<1>4. AskedOK'
  BY <1>1 DEF Masked, AskedOK, SameBase
<1>5. WalkOK'
  BY <1>1 DEF Masked, WalkOK, WalkAt, SameBase
<1> QED BY <1>2, <1>3, <1>4, <1>5 DEF Masked

\* A handler on top of the stack.
LEMMA PushFacts ==
  ASSUME stack \in Seq(Activation), OnlyFirstCalls, NEW h \in Activation, h.op = "handler",
         stack' = Append(stack, h)
  PROVE  stack' \in Seq(Activation) /\ OnlyFirstCalls' /\ SameBase
<1>1. /\ stack' \in Seq(Activation) /\ Len(stack') = Len(stack) + 1 /\ stack'[Len(stack) + 1] = h
      /\ \A i \in 1 .. Len(stack) : stack'[i] = stack[i]
  BY AppendFacts
<1>2. Len(stack) \in Nat /\ stack' # <<>>
  BY <1>1
<1>3. OnlyFirstCalls'
  <2> SUFFICES ASSUME NEW i \in 1 .. Len(stack'), i # 1 PROVE stack'[i].op = "handler"
    BY DEF OnlyFirstCalls
  <2> QED BY <1>1, <1>2 DEF OnlyFirstCalls
<1>4. SameBase
  <2>1. CASE stack = <<>>
    BY <2>1, <1>1, <1>2 DEF SameBase, Walking, Asked
  <2>2. CASE stack # <<>>
    <3>1. 1 \in 1 .. Len(stack)
      BY <2>2, <1>2
    <3> QED BY <2>2, <3>1, <1>1, <1>2 DEF SameBase, Walking, Asked
  <2> QED BY <2>1, <2>2
<1> QED BY <1>1, <1>3, <1>4
-----------------------------------------------------------------------------
(* The start, signals, and the calls of signal and sigaction. *)

\* Nothing is blocked at the start.
LEMMA InitIInv == Init => IInv
<1> SUFFICES ASSUME Init PROVE IInv
  OBVIOUS
<1>1. TypeOK
  <2>1. stack \in Seq(Activation)
    BY DEF Init
  <2>2. "SIG_DFL" \in Handlers /\ "SIG_DFL" \in Wanted
    BY DEF Handlers, Wanted
  <2> QED BY <2>1, <2>2 DEF Init, TypeOK
<1>2. OnlyFirstCalls
  BY DEF Init, OnlyFirstCalls
<1>3. ~Walking /\ ~Asked
  BY DEF Init, Walking, Asked
<1>4. \A s \in Ordinary : Settled(s, {})
  BY DEF Init, Settled, Ordinary
<1>5. KillIsAlone
  BY Consts DEF Init, KillIsAlone
<1>6. RestOK
  <2>1. current_mask = {}
    BY DEF Init
  <2> QED BY <2>1, <1>4 DEF RestOK
<1> QED BY <1>1, <1>2, <1>3, <1>5, <1>6 DEF IInv, Masked, AskedOK, WalkOK, OwedOK, Init

\* A signal is ignored while it has a handler only when sigaction is asking for it, and
\* otherwise runs its handler, is recorded by the suspender, or ends the program.
LEMMA HowSignalsArrive ==
  ASSUME IInv, alive, NEW s \in Sigs
  PROVE  /\ signal_list[s] \in {"SIG_DFL", "SIG_IGN", "user", "sig_suspender"}
         /\ signal_list[s] = "SIG_IGN" /\ want[s] = "user" => Asking(s)
         /\ signal_list[s] = "user" => s \notin owed \/ (Walking /\ stack[1].signo = s)
<1>1. TypeOK /\ Masked /\ OwedOK
  BY DEF IInv
<1>2. signal_list[s] \in {"SIG_DFL", "SIG_IGN", "user", "sig_suspender"}
  BY <1>1, Types DEF Handlers, Wanted
<1>3. ASSUME signal_list[s] = "SIG_IGN", want[s] = "user" PROVE Asking(s)
  <2>1. s \in Ordinary
    BY <1>1, <1>3 DEF Ordinary, Masked, KillIsAlone
  <2>3. \A m : ~Settled(s, m)
    BY <1>3 DEF Settled
  <2>4. Walking \/ Asked
    BY <2>1, <2>3, <1>1 DEF Masked, RestOK
  <2>5. stack # <<>> /\ stack[1] \in Activation /\ 1 \in DOMAIN stack
    BY <2>4, <1>1, Types DEF Walking, Asked
  <2>6. CASE Asked
    BY <2>1, <2>3, <2>5, <2>6, <1>1, <1>3 DEF Masked, AskedOK, Asked, Asking
  <2>7. CASE Walking
    <3>1. s \in Nat /\ stack[1].signo \in Nat
      BY <2>5, FrameType, Consts
    <3>2. stack[1].signo = s
      BY <2>1, <2>3, <2>7, <3>1, <1>1 DEF Masked, WalkOK, WalkAt
    <3> QED BY <3>2, <2>1, <2>3, <2>7, <1>1, <1>3 DEF Masked, WalkOK, WalkAt, Ordinary
  <2> QED BY <2>4, <2>6, <2>7
<1>4. signal_list[s] = "user" => s \notin owed \/ (Walking /\ stack[1].signo = s)
  BY <1>1 DEF OwedOK
<1> QED BY <1>2, <1>3, <1>4

\* Signals that arrive leave what is owed recorded.
LEMMA OweKeeps ==
  ASSUME IInv, alive, NEW s \in Sigs, SameBase, Owe(s), signal_list[s] # "SIG_DFL",
         pending' = (IF signal_list[s] = "sig_suspender" THEN pending \cup {s} ELSE pending),
         UNCHANGED <<signal_list, want>>
  PROVE  OwedOK' /\ owed' \subseteq Sigs /\ pending' \subseteq Sigs
<1>1. TypeOK /\ OwedOK
  BY DEF IInv
<1>2. owed' \subseteq owed \cup {s} /\ pending \subseteq pending' /\ owed' \subseteq Sigs /\ pending' \subseteq Sigs
  BY <1>1, Types DEF Owe
<1>3. ASSUME NEW t \in owed', t \in owed
      PROVE  /\ want'[t] = "user"
             /\ \/ signal_list'[t] = "sig_suspender" /\ t \in pending'
                \/ Walking' /\ stack'[1].signo = t /\ stack'[1].at \in {"forget", "check"} /\ t \in pending'
                \/ Walking' /\ stack'[1].signo = t /\ stack'[1].at = "raise"
  BY <1>1, <1>2, <1>3 DEF OwedOK, SameBase
<1>4. ASSUME NEW t \in owed', t \notin owed
      PROVE  want'[t] = "user" /\ signal_list'[t] = "sig_suspender" /\ t \in pending'
  <2>1. t = s /\ want[s] = "user" /\ signal_list[s] # "user" /\ ~Asking(s)
    BY <1>4 DEF Owe
  <2>2. signal_list[s] = "sig_suspender"
    BY <2>1, HowSignalsArrive
  <2> QED BY <2>1, <2>2
<1>5. OwedOK'
  BY <1>3, <1>4 DEF OwedOK
<1> QED BY <1>2, <1>5

\* A signal arrives.
LEMMA ArriveStep == ASSUME IInv, NEW s \in Sigs, Arrive(s) PROVE IInv'
<1>1. TypeOK /\ OnlyFirstCalls /\ Masked /\ OwedOK /\ alive
  BY DEF IInv, Arrive
<1>2. UNCHANGED <<signal_list, current_mask, prev_handlers, initialized, want>> /\ Owe(s)
  BY DEF Arrive, deliver
<1>3. alive' = (signal_list[s] # "SIG_DFL")
  BY DEF Arrive, deliver
<1>4. pending' = IF signal_list[s] = "sig_suspender" THEN pending \cup {s} ELSE pending
  BY DEF Arrive, deliver
<1>5. stack' = CASE signal_list[s] = "user"    -> Append(stack, Call("handler", "body", s))
                 [] signal_list[s] = "SIG_DFL" -> <<>>
                 [] OTHER                      -> stack
  BY DEF Arrive, deliver
<1>6. CASE signal_list[s] = "SIG_DFL"
  <2>1. alive' = FALSE /\ stack' = <<>>
    BY <1>3, <1>5, <1>6
  <2>2. owed' \subseteq Sigs /\ pending' \subseteq Sigs
    BY <1>1, <1>2, <1>4, Types DEF Owe
  <2>3. TypeOK'
    <3>1. stack' \in Seq(Activation)
      BY <2>1
    <3>2. alive' \in BOOLEAN
      BY <2>1, Zenon
    <3> QED BY <3>1, <3>2, <2>2, <1>1, <1>2, Types DEF TypeOK
  <2>4. OnlyFirstCalls'
    BY <2>1 DEF OnlyFirstCalls
  <2> QED BY <2>1, <2>3, <2>4 DEF IInv
<1>7. CASE signal_list[s] # "SIG_DFL"
  <2>1. alive' = TRUE
    BY <1>3, <1>7
  <2>2. stack' \in Seq(Activation) /\ OnlyFirstCalls' /\ SameBase
    <3>1. CASE signal_list[s] = "user"
      <4>1. stack' = Append(stack, Call("handler", "body", s))
        BY <3>1, <1>5
      <4> QED BY <4>1, <1>1, CallFacts, PushFacts, Types
    <3>2. CASE signal_list[s] # "user"
      <4>1. stack' = stack
        BY <3>2, <1>5, <1>7
      <4> QED BY <4>1, <1>1, Types DEF OnlyFirstCalls, SameBase, Walking, Asked
    <3> QED BY <3>1, <3>2
  <2>3. Masked'
    BY <2>2, <1>1, <1>2, SameMasked
  <2>4. OwedOK' /\ owed' \subseteq Sigs /\ pending' \subseteq Sigs
    BY <2>2, <1>1, <1>2, <1>4, <1>7, OweKeeps
  <2>5. TypeOK'
    BY <2>1, <2>2, <2>4, <1>1, <1>2, Types DEF TypeOK
  <2> QED BY <2>1, <2>2, <2>3, <2>4, <2>5 DEF IInv
<1> QED BY <1>6, <1>7

\* A handler returns.
LEMMA ReturnStep == ASSUME IInv, HandlerReturn PROVE IInv'
<1>1. /\ stack # <<>> /\ Top.op = "handler" /\ stack' = Pop
      /\ UNCHANGED <<signal_list, posix, alive, history>>
  BY DEF HandlerReturn
<1>2. TypeOK /\ OnlyFirstCalls /\ alive /\ Masked /\ OwedOK /\ stack \in Seq(Activation)
  BY <1>1, Types DEF IInv, TypeOK
<1>3. /\ Len(stack) \in Nat \ {0} /\ stack' \in Seq(Activation) /\ Len(stack') = Len(stack) - 1
      /\ \A i \in 1 .. Len(stack) - 1 : stack'[i] = stack[i]
  BY <1>1, <1>2, PopFacts DEF Pop
<1>4. OnlyFirstCalls'
  <2> SUFFICES ASSUME NEW i \in 1 .. Len(stack'), i # 1 PROVE stack'[i].op = "handler"
    BY DEF OnlyFirstCalls
  <2> QED BY <1>2, <1>3 DEF OnlyFirstCalls
<1>5. SameBase
  <2>1. CASE Len(stack) = 1
    BY <2>1, <1>1, <1>3 DEF SameBase, Walking, Asked, Top
  <2>2. CASE Len(stack) # 1
    <3>1. 1 \in 1 .. Len(stack) - 1 /\ stack' # <<>>
      BY <2>2, <1>3
    <3> QED BY <3>1, <1>1, <1>3 DEF SameBase, Walking, Asked
  <2> QED BY <2>1, <2>2
<1>6. TypeOK'
  BY <1>1, <1>2, <1>3, Types DEF TypeOK, posix, history
<1>7. Masked'
  BY <1>1, <1>2, <1>5, SameMasked DEF posix, history
<1>8. OwedOK'
  BY <1>1, <1>2, <1>5 DEF OwedOK, SameBase, posix, history
<1> QED BY <1>1, <1>2, <1>4, <1>6, <1>7, <1>8 DEF IInv
\* With no call in progress a signal that is not blocked is not owed.
LEMMA OpenIsNotOwed ==
  ASSUME IInv, alive, stack = <<>>, NEW s \in Sigs, s \notin current_mask
  PROVE  s \notin owed
<1>1. TypeOK /\ Masked /\ OwedOK /\ ~Walking /\ ~Asked
  BY DEF IInv, Walking, Asked
<1> SUFFICES ASSUME s \in owed PROVE FALSE
  OBVIOUS
<1>2. want[s] = "user" /\ signal_list[s] = "sig_suspender"
  BY <1>1 DEF OwedOK
<1>3. s \in Ordinary
  BY <1>1, <1>2 DEF Masked, KillIsAlone, Ordinary
<1> QED BY <1>1, <1>2, <1>3 DEF Masked, RestOK, Settled

\* What Install does to a signal that is not blocked and not owed.
LEMMA InstallFacts ==
  ASSUME TypeOK, NEW s \in Ordinary, NEW h \in Wanted, Install(s, h),
         UNCHANGED <<current_mask, prev_handlers, initialized, pending>>
  PROVE  /\ signal_list' \in [Sigs -> Handlers] /\ want' \in [Sigs -> Wanted] /\ owed' \subseteq owed
         /\ signal_list'[s] = h /\ want'[s] = h
         /\ \A t \in Sigs : t # s => signal_list'[t] = signal_list[t] /\ want'[t] = want[t]
         /\ \A t \in Sigs : \A m : t # s => (Settled(t, m)' <=> Settled(t, m))
<1>1. h \in Handlers /\ s \in Sigs
  BY DEF Handlers, Ordinary
<1>2. /\ signal_list' = [signal_list EXCEPT ![s] = h] /\ want' = [want EXCEPT ![s] = h]
      /\ owed' = IF h = "user" THEN owed ELSE owed \ {s}
  BY DEF Install
<1>3. \A t \in Sigs : t # s => signal_list'[t] = signal_list[t] /\ want'[t] = want[t]
  BY <1>1, <1>2, Types
<1>4. \A t \in Sigs : \A m : t # s => (Settled(t, m)' <=> Settled(t, m))
  BY <1>3 DEF Settled
<1> QED BY <1>1, <1>2, <1>3, <1>4, Types

\* The program installs a handler.
LEMMA SignalStep ==
  ASSUME SignalOnBlocked = FALSE, IInv, NEW s \in Sigs, NEW h \in Wanted, Signal(s, h)
  PROVE  IInv'
<1>1. /\ alive /\ stack = <<>> /\ s \in Ordinary /\ s \notin current_mask /\ Install(s, h)
      /\ UNCHANGED <<posix, stack, alive>>
  BY DEF Signal, InMain, Ordinary
<1>2. TypeOK /\ OnlyFirstCalls /\ Masked /\ OwedOK /\ s \notin owed
  BY <1>1, OpenIsNotOwed DEF IInv
<1>3. UNCHANGED <<current_mask, prev_handlers, initialized, pending, stack, alive>>
  BY <1>1 DEF posix
<1>4. /\ signal_list' \in [Sigs -> Handlers] /\ want' \in [Sigs -> Wanted] /\ owed' \subseteq owed
      /\ signal_list'[s] = h /\ want'[s] = h
      /\ \A t \in Sigs : t # s => signal_list'[t] = signal_list[t] /\ want'[t] = want[t]
      /\ \A t \in Sigs : \A m : t # s => (Settled(t, m)' <=> Settled(t, m))
  BY <1>1, <1>2, <1>3, InstallFacts
<1>5. TypeOK'
  BY <1>2, <1>3, <1>4, Types DEF TypeOK
<1>6. ~Walking /\ ~Asked /\ ~Walking' /\ ~Asked'
  BY <1>1, <1>3 DEF Walking, Asked
<1>7. KillIsAlone'
  <2>1. SIGKILL \in Sigs /\ SIGKILL # s
    BY <1>1, Consts DEF Ordinary
  <2> QED BY <2>1, <1>2, <1>3, <1>4 DEF Masked, KillIsAlone
<1>8. \A t \in Ordinary : Settled(t, current_mask)
  BY <1>2, <1>6 DEF Masked, RestOK
<1>9. Settled(s, current_mask)'
  BY <1>1, <1>3, <1>4, <1>8 DEF Settled
<1>10. \A t \in Ordinary : Settled(t, current_mask)'
  BY <1>3, <1>4, <1>8, <1>9 DEF Ordinary
<1>11. RestOK'
  BY <1>2, <1>3, <1>10 DEF Masked, RestOK
<1>12. OwedOK'
  BY <1>2, <1>3, <1>4, <1>6, Types DEF OwedOK
<1>13. OnlyFirstCalls'
  BY <1>1, <1>3 DEF OnlyFirstCalls
<1> QED BY <1>1, <1>3, <1>5, <1>6, <1>7, <1>11, <1>12, <1>13 DEF IInv, Masked, AskedOK, WalkOK

\* A call of the program's main line is the first frame.
LEMMA FirstCall ==
  ASSUME stack = <<>>, NEW e \in Activation, stack' = Append(stack, e)
  PROVE  stack' \in Seq(Activation) /\ stack'[1] = e /\ stack' # <<>> /\ OnlyFirstCalls'
<1>1. stack \in Seq(Activation) /\ Len(stack) = 0
  OBVIOUS
<1>2. stack' \in Seq(Activation) /\ Len(stack') = 1 /\ stack'[1] = e
  BY <1>1, AppendFacts
<1> QED BY <1>2 DEF OnlyFirstCalls

\* sigaction puts SIG_IGN in the place of the handler.
LEMMA SigactionStep ==
  ASSUME SignalOnBlocked = FALSE, IInv, NEW s \in Sigs, NEW act \in Wanted \cup {"NULL"}, Sigaction(s, act)
  PROVE  IInv'
<1> DEFINE c == Call("sigaction", "restore", s)
           e == [c EXCEPT !.tmp = signal_list[s], !.act = act]
<1>1. /\ alive /\ stack = <<>> /\ s \in Ordinary /\ s \notin current_mask
      /\ signal_list' = [signal_list EXCEPT ![s] = "SIG_IGN"] /\ stack' = Append(stack, e)
  BY DEF Sigaction, InMain, Ordinary
<1>2. UNCHANGED <<current_mask, prev_handlers, initialized, pending, alive, want, owed>>
  BY DEF Sigaction, posix, history
<1>3. TypeOK /\ Masked /\ OwedOK /\ s \notin owed /\ ~Walking /\ ~Asked
  BY <1>1, OpenIsNotOwed DEF IInv, Walking, Asked
<1>4. /\ e \in Activation /\ e.op = "sigaction" /\ e.at = "restore" /\ e.signo = s
      /\ e.tmp = signal_list[s]
  <2> HIDE DEF c
  <2>1. c \in Activation /\ c.op = "sigaction" /\ c.at = "restore" /\ c.signo = s
    BY CallFacts DEF c
  <2>2. signal_list[s] \in Handlers
    BY <1>3, Types
  <2> QED BY <2>1, <2>2 DEF Activation
<1> HIDE DEF e
<1>5. stack' \in Seq(Activation) /\ stack'[1] = e /\ stack' # <<>> /\ OnlyFirstCalls'
  BY <1>1, <1>4, FirstCall
<1>6. ~Walking' /\ Asked'
  BY <1>4, <1>5 DEF Walking, Asked
<1>7. signal_list' \in [Sigs -> Handlers] /\ signal_list'[s] = "SIG_IGN" /\ \A t \in Sigs : t # s => signal_list'[t] = signal_list[t]
  <2>1. "SIG_IGN" \in Handlers
    BY DEF Handlers, Wanted
  <2> QED BY <2>1, <1>1, <1>3, Types
<1>8. TypeOK'
  BY <1>2, <1>3, <1>5, <1>7, Types DEF TypeOK
<1>9. \A t \in Ordinary : Settled(t, current_mask)
  BY <1>3 DEF Masked, RestOK
<1>10. \A t \in Ordinary : t # s => Settled(t, current_mask)'
  BY <1>2, <1>7, <1>9 DEF Settled, Ordinary
<1>11. e.tmp = want[s] /\ (initialized => prev_handlers[s] = "SIG_ERR")
  BY <1>1, <1>4, <1>9 DEF Settled
<1>12. AskedOK'
  BY <1>1, <1>2, <1>4, <1>5, <1>7, <1>10, <1>11 DEF AskedOK
<1>13. KillIsAlone'
  <2>1. SIGKILL \in Sigs /\ SIGKILL # s
    BY <1>1, Consts DEF Ordinary
  <2> QED BY <2>1, <1>2, <1>3, <1>7 DEF Masked, KillIsAlone
<1>14. OwedOK'
  BY <1>2, <1>3, <1>7, Types DEF OwedOK
<1>15. RestOK'
  BY <1>2, <1>3, <1>6 DEF Masked, RestOK
<1> QED BY <1>1, <1>2, <1>5, <1>6, <1>8, <1>12, <1>13, <1>14, <1>15 DEF IInv, Masked, WalkOK

\* sigaction puts the old handler back.
LEMMA RestoreStep == ASSUME IInv, SigactionRestore PROVE IInv'
<1> DEFINE c == stack[1]
           s == c.signo
<1>1. /\ stack # <<>> /\ Top.op = "sigaction" /\ Top.at = "restore"
      /\ signal_list' = [signal_list EXCEPT ![Top.signo] = Top.tmp]
      /\ IF Top.act = "NULL" THEN stack' = Pop ELSE Continue([Top EXCEPT !.at = "set"])
  BY DEF SigactionRestore
<1>2. UNCHANGED <<current_mask, prev_handlers, initialized, pending, alive, want, owed>>
  BY DEF SigactionRestore, posix, history
<1>3. Top = c /\ c \in Activation /\ Pop = <<>> /\ alive
  BY <1>1, FirstFrame
<1>4. TypeOK /\ Masked /\ OwedOK /\ Asked /\ ~Walking
  BY <1>1, <1>3 DEF IInv, Asked, Walking
<1>5. /\ s \in Ordinary /\ s \notin current_mask /\ \A t \in Ordinary : t # s => Settled(t, current_mask)
      /\ initialized => prev_handlers[s] = "SIG_ERR"
      /\ signal_list[s] = "SIG_IGN" /\ c.tmp = want[s]
  BY <1>1, <1>3, <1>4 DEF Masked, AskedOK
<1>6. signal_list' \in [Sigs -> Handlers] /\ signal_list'[s] = want[s] /\ \A t \in Sigs : t # s => signal_list'[t] = signal_list[t]
  BY <1>1, <1>3, <1>4, <1>5, FrameType, Types DEF Ordinary
<1> HIDE DEF s
<1>7. \A t \in Ordinary : Settled(t, current_mask)'
  BY <1>2, <1>5, <1>6 DEF Settled, Ordinary
<1>8. KillIsAlone'
  <2>1. SIGKILL \in Sigs /\ SIGKILL # s
    BY <1>5, Consts DEF Ordinary
  <2> QED BY <2>1, <1>2, <1>4, <1>6 DEF Masked, KillIsAlone
<1>9. OwedOK'
  BY <1>2, <1>4, <1>5, <1>6, Types DEF OwedOK
<1>10. stack' \in Seq(Activation) /\ OnlyFirstCalls' /\ RestOK' /\ AskedOK' /\ WalkOK'
  <2>1. CASE Top.act = "NULL"
    <3>1. stack' = <<>>
      BY <2>1, <1>1, <1>3
    <3>2. ~Walking' /\ ~Asked'
      BY <3>1 DEF Walking, Asked
    <3>3. RestOK'
      BY <1>2, <1>4, <1>7 DEF Masked, RestOK
    <3> QED BY <3>1, <3>2, <3>3 DEF OnlyFirstCalls, AskedOK, WalkOK
  <2>2. CASE Top.act # "NULL"
    <3> DEFINE e == [c EXCEPT !.at = "set"]
    <3>1. e \in Activation /\ e.op = c.op /\ e.at = "set" /\ e.signo = s /\ e.act = c.act
      BY <1>3 DEF Activation, s
    <3>2. Continue(e)
      BY <2>2, <1>1, <1>3
    <3> HIDE DEF e
    <3>3. stack' \in Seq(Activation) /\ stack'[1] = e /\ stack' # <<>> /\ OnlyFirstCalls'
      BY <3>1, <3>2, <1>1, ContinueFacts
    <3>4. ~Walking' /\ Asked'
      BY <3>1, <3>3, <1>1, <1>3 DEF Walking, Asked
    <3>5. AskedOK'
      BY <3>1, <3>3, <2>2, <1>2, <1>3, <1>5, <1>6, <1>7 DEF AskedOK
    <3>6. RestOK'
      BY <3>4, <1>2, <1>4 DEF Masked, RestOK
    <3> QED BY <3>3, <3>4, <3>5, <3>6 DEF WalkOK
  <2> QED BY <2>1, <2>2
<1>11. TypeOK'
  BY <1>2, <1>4, <1>6, <1>10, Types DEF TypeOK
<1> QED BY <1>2, <1>3, <1>8, <1>9, <1>10, <1>11 DEF IInv, Masked

\* sigaction installs the new handler.
LEMMA ActStep == ASSUME IInv, SigactionAct PROVE IInv'
<1> DEFINE c == stack[1]
<1>0. PICK s : s = c.signo
  OBVIOUS
<1>1. /\ stack # <<>> /\ Top.op = "sigaction" /\ Top.at = "set" /\ Install(Top.signo, Top.act)
      /\ stack' = Pop /\ UNCHANGED <<posix, alive>>
  BY DEF SigactionAct
<1>2. UNCHANGED <<current_mask, prev_handlers, initialized, pending, alive>>
  BY <1>1 DEF posix
<1>3. Top = c /\ c \in Activation /\ Pop = <<>> /\ alive
  BY <1>1, FirstFrame
<1>4. TypeOK /\ Masked /\ OwedOK /\ Asked /\ ~Walking
  BY <1>1, <1>3 DEF IInv, Asked, Walking
<1>5. /\ s \in Ordinary /\ s \notin current_mask /\ \A t \in Ordinary : t # s => Settled(t, current_mask)
      /\ initialized => prev_handlers[s] = "SIG_ERR"
      /\ signal_list[s] = want[s] /\ c.act \in Wanted
  BY <1>0, <1>1, <1>3, <1>4, FrameType DEF Masked, AskedOK
<1>6. Install(s, c.act)
  BY <1>0, <1>1, <1>3
<1>7. /\ signal_list' \in [Sigs -> Handlers] /\ want' \in [Sigs -> Wanted] /\ owed' \subseteq owed
      /\ signal_list'[s] = c.act /\ want'[s] = c.act
      /\ \A t \in Sigs : t # s => signal_list'[t] = signal_list[t] /\ want'[t] = want[t]
      /\ \A t \in Sigs : \A m : t # s => (Settled(t, m)' <=> Settled(t, m))
  BY <1>2, <1>4, <1>5, <1>6, InstallFacts
<1>8. Settled(s, current_mask)'
  BY <1>2, <1>5, <1>7 DEF Settled
<1>9. \A t \in Ordinary : Settled(t, current_mask)'
  BY <1>2, <1>5, <1>7, <1>8 DEF Ordinary
<1>10. KillIsAlone'
  <2>1. SIGKILL \in Sigs /\ SIGKILL # s
    BY <1>5, Consts DEF Ordinary
  <2> QED BY <2>1, <1>2, <1>4, <1>7 DEF Masked, KillIsAlone
<1>11. s \notin owed
  <2>1. want[s] # "sig_suspender"
    BY <1>4, <1>5, Types DEF Wanted, Ordinary
  <2> QED BY <2>1, <1>4, <1>5 DEF OwedOK
<1>12. stack' = <<>> /\ ~Walking' /\ ~Asked'
  BY <1>1, <1>3 DEF Walking, Asked
<1>13. OwedOK'
  BY <1>2, <1>4, <1>7, <1>11, Types DEF OwedOK
<1>14. TypeOK'
  <2>1. stack' \in Seq(Activation)
    BY <1>12
  <2> QED BY <2>1, <1>2, <1>4, <1>7, Types DEF TypeOK
<1>15. RestOK'
  BY <1>2, <1>4, <1>9 DEF Masked, RestOK
<1>16. OnlyFirstCalls'
  BY <1>12 DEF OnlyFirstCalls
<1> QED BY <1>2, <1>3, <1>10, <1>12, <1>13, <1>14, <1>15, <1>16 DEF IInv, Masked, AskedOK, WalkOK
-----------------------------------------------------------------------------
(* sigprocmask. *)

\* A step that touches signal k alone leaves the others settled.
LEMMA OthersSettled ==
  ASSUME NEW k, UNCHANGED <<initialized, want>>,
         \A t \in Sigs : t # k => signal_list'[t] = signal_list[t] /\ prev_handlers'[t] = prev_handlers[t]
  PROVE  \A t \in Sigs : \A m : t # k => (Settled(t, m)' <=> Settled(t, m))
BY DEF Settled

\* Only whether the mask has s matters to s.
LEMMA SettledByMask ==
  \A s, m, n : (s \in m <=> s \in n) => (Settled(s, m) <=> Settled(s, n)) /\ (Settled(s, m)' <=> Settled(s, n)')
BY DEF Settled

\* The state at a step of the walk.
LEMMA WalkFacts ==
  ASSUME IInv, stack # <<>>, Top.op = "sigprocmask"
  PROVE  /\ Top = stack[1] /\ stack[1] \in Activation /\ Pop = <<>> /\ alive
         /\ TypeOK /\ Masked /\ OwedOK /\ Walking /\ ~Asked
         /\ KillIsAlone /\ initialized /\ WalkAt(stack[1])
<1>1. Top = stack[1] /\ stack[1] \in Activation /\ Pop = <<>> /\ alive
  BY FirstFrame
<1>2. TypeOK /\ Masked /\ OwedOK /\ Walking /\ ~Asked
  BY <1>1 DEF IInv, Walking, Asked
<1> QED BY <1>1, <1>2 DEF Masked, WalkOK, WalkAt

\* The walk goes on.
LEMMA WalkGoesOn ==
  ASSUME IInv, stack # <<>>, Top.op = "sigprocmask", NEW e \in Activation, e.op = "sigprocmask", Continue(e),
         initialized', UNCHANGED alive, KillIsAlone', WalkAt(e)', OwedOK',
         signal_list' \in [Sigs -> Handlers], prev_handlers' \in [Sigs -> Handlers \cup {"SIG_ERR"}],
         pending' \subseteq Sigs, UNCHANGED <<current_mask, want, owed>>
  PROVE  IInv'
<1>1. stack' \in Seq(Activation) /\ stack'[1] = e /\ stack' # <<>> /\ OnlyFirstCalls'
  BY ContinueFacts
<1>2. Walking' /\ ~Asked'
  BY <1>1 DEF Walking, Asked
<1>3. TypeOK /\ alive
  BY WalkFacts
<1>4. initialized' \in BOOLEAN
  BY DEF WalkAt
<1>5. TypeOK'
  BY <1>1, <1>3, <1>4, Types DEF TypeOK
<1>6. RestOK' /\ AskedOK' /\ WalkOK'
  BY <1>1, <1>2 DEF RestOK, AskedOK, WalkOK
<1> QED BY <1>1, <1>3, <1>5, <1>6 DEF IInv, Masked

\* The walk comes to the next signal, with signal k settled.
LEMMA Advance ==
  ASSUME NEW c \in Activation, NEW e \in Activation, NEW k \in Sigs, NEW m, m = e.new_mask, k = c.signo,
         WalkAt(c), e.at = "top", e.how = c.how, e.set = c.set, e.signo = k + 1,
         initialized', UNCHANGED current_mask,
         \A t \in Sigs : \A n : t # k => (Settled(t, n)' <=> Settled(t, n)),
         \A t \in Sigs : t # k => (t \in m <=> t \in c.new_mask),
         k # SIGKILL => Settled(k, m)',
         k \in current_mask /\ k \notin m => Unblocks(c.how, c.set, k)
  PROVE  WalkAt(e)'
<1>1. k \in Nat /\ Sigs \subseteq Nat /\ m \subseteq Sigs
  BY Consts, FrameType
<1>2. ASSUME NEW s \in Ordinary, s < k + 1 PROVE Settled(s, m)'
  <2>1. CASE s = k
    BY <2>1 DEF Ordinary
  <2>2. CASE s # k
    <3>1. s < k /\ s \in Sigs
      BY <1>1, <1>2, <2>2 DEF Ordinary
    <3>2. Settled(s, c.new_mask)
      BY <3>1 DEF WalkAt
    <3> QED BY <3>1, <3>2, <2>2, SettledByMask
  <2> QED BY <2>1, <2>2
<1>3. ASSUME NEW s \in Ordinary, s > k PROVE Settled(s, current_mask)'
  <2>1. Settled(s, current_mask) /\ s # k /\ s \in Sigs
    BY <1>1, <1>3 DEF WalkAt, Ordinary
  <2> QED BY <2>1
<1>4. ASSUME NEW s \in Sigs, s < k + 1, s \in current_mask, s \notin m PROVE Unblocks(c.how, c.set, s)
  BY <1>1, <1>4 DEF WalkAt
<1>5. ASSUME NEW s \in m PROVE s < k + 1
  <2>1. s \in Sigs /\ s \in Nat
    BY <1>1
  <2> QED BY <2>1, <1>1 DEF WalkAt
<1>6. k + 1 > k /\ \A s \in Nat : s > k + 1 => s > k
  BY <1>1
<1>7. \A s \in Ordinary : s > k + 1 => Settled(s, current_mask)'
  BY <1>1, <1>3, <1>6 DEF Ordinary
<1>8. k + 1 \in Ordinary => Settled(k + 1, current_mask)'
  BY <1>3, <1>6
<1> QED BY <1>2, <1>4, <1>5, <1>7, <1>8 DEF WalkAt
\* The call begins.
LEMMA CallStep ==
  ASSUME HandlersBlock = FALSE, IInv, NEW how \in {"SIG_BLOCK", "SIG_UNBLOCK", "SIG_SETMASK"},
         NEW set \in SUBSET Sigs, Sigprocmask(how, set)
  PROVE  IInv'
<1>1. PICK c : c = Call("sigprocmask", "top", 1)
  OBVIOUS
<1>2. PICK e : e = [c EXCEPT !.how = how, !.set = set]
  OBVIOUS
<1>3. /\ alive /\ stack = <<>> /\ initialized' = TRUE /\ stack' = Append(stack, e)
      /\ UNCHANGED <<signal_list, alive, want, owed>>
      /\ IF initialized THEN UNCHANGED <<current_mask, pending, prev_handlers>>
         ELSE current_mask' = {} /\ pending' = {} /\ prev_handlers' = [s \in Sigs |-> "SIG_ERR"]
  BY <1>1, <1>2 DEF Sigprocmask, InMain, history
<1>4. TypeOK /\ Masked /\ OwedOK /\ ~Walking /\ ~Asked
  BY <1>3 DEF IInv, Walking, Asked
<1>5. /\ e \in Activation /\ e.op = "sigprocmask" /\ e.at = "top" /\ e.signo = 1 /\ e.new_mask = {}
  <2>1. 1 \in Sigs
    BY Consts DEF Sigs
  <2>2. c \in Activation /\ c.op = "sigprocmask" /\ c.at = "top" /\ c.signo = 1 /\ c.new_mask = {}
    BY <2>1, <1>1, CallFacts
  <2> QED BY <2>2, <1>2 DEF Activation
<1>6. stack' \in Seq(Activation) /\ stack'[1] = e /\ stack' # <<>> /\ OnlyFirstCalls'
  BY <1>3, <1>5, FirstCall
<1>7. Walking' /\ ~Asked'
  BY <1>5, <1>6 DEF Walking, Asked
<1>8. \A s \in Ordinary : Settled(s, current_mask)
  BY <1>4 DEF Masked, RestOK
<1>9. UNCHANGED current_mask
  BY <1>3, <1>4 DEF Masked, RestOK
<1>10. /\ pending' \subseteq Sigs /\ prev_handlers' \in [Sigs -> Handlers \cup {"SIG_ERR"}]
       /\ KillIsAlone' /\ \A s \in Ordinary : Settled(s, current_mask)'
  <2>1. CASE initialized
    BY <2>1, <1>3, <1>4, <1>8, Types DEF Masked, KillIsAlone, Settled
  <2>2. CASE ~initialized
    <3>1. current_mask = {} /\ current_mask' = {} /\ pending' = {} /\ prev_handlers' = [s \in Sigs |-> "SIG_ERR"]
      BY <2>2, <1>3, <1>4 DEF Masked, RestOK
    <3>2. KillIsAlone'
      BY <3>1, <1>3, <1>4, Consts DEF Masked, KillIsAlone
    <3>3. \A s \in Ordinary : Settled(s, current_mask)'
      BY <3>1, <1>3, <1>8 DEF Settled, Ordinary
    <3> QED BY <3>1, <3>2, <3>3
  <2> QED BY <2>1, <2>2
<1>11. OwedOK'
  <2>1. CASE initialized
    BY <2>1, <1>3, <1>4 DEF OwedOK
  <2>2. CASE ~initialized
    <3>1. current_mask = {}
      BY <2>2, <1>4 DEF Masked, RestOK
    <3>2. owed = {}
      BY <3>1, <1>3, <1>4, OpenIsNotOwed, Types
    <3> QED BY <3>2, <1>3 DEF OwedOK
  <2> QED BY <2>1, <2>2
<1>12. initialized' \in BOOLEAN /\ initialized'
  BY <1>3, Zenon
<1>13. TypeOK'
  BY <1>3, <1>4, <1>6, <1>9, <1>10, <1>12, Types DEF TypeOK
<1>14. WalkAt(e)'
  <2>1. \A s \in Sigs : ~(s < 1)
    BY Consts DEF Sigs
  <2> QED BY <2>1, <1>5, <1>10, <1>12 DEF WalkAt, Ordinary
<1>15. RestOK' /\ AskedOK' /\ WalkOK'
  BY <1>6, <1>7, <1>12, <1>14 DEF RestOK, AskedOK, WalkOK
<1> QED BY <1>3, <1>6, <1>10, <1>11, <1>13, <1>15 DEF IInv, Masked

\* A signal that stays as it is.
LEMMA KeepStep == ASSUME IInv, LoopKeep PROVE IInv'
<1>1. PICK c, k : c = stack[1] /\ k = c.signo
  OBVIOUS
<1>2. stack # <<>> /\ Top.op = "sigprocmask" /\ Top.at = "top" /\ Top.signo <= NSig
  BY DEF LoopKeep, AtLoop
<1>3. /\ Top = c /\ c \in Activation /\ TypeOK /\ OwedOK /\ KillIsAlone /\ initialized /\ WalkAt(c)
      /\ c.op = "sigprocmask" /\ c.at = "top" /\ Walking
  BY <1>1, <1>2, WalkFacts
<1>4. k \in Sigs
  BY <1>1, <1>2, <1>3, FrameType, Consts DEF Sigs
<1>5. UNCHANGED <<signal_list, current_mask, pending, prev_handlers, initialized, alive, want, owed>>
  BY DEF LoopKeep, posix, history
<1> DEFINE blocks == k \notin current_mask /\ k \in c.set /\ c.how # "SIG_UNBLOCK"
<1>6. PICK m : m = IF k \in current_mask \/ blocks THEN c.new_mask \cup {k} ELSE c.new_mask
  OBVIOUS
<1>7. PICK e : e = [c EXCEPT !.at = "top", !.new_mask = m, !.signo = k + 1]
  OBVIOUS
<1>8. Continue(e)
  BY <1>1, <1>3, <1>6, <1>7 DEF LoopKeep, NextSigno
<1>9. \/ k \in current_mask /\ ~Unblocks(c.how, c.set, k)
      \/ k \notin current_mask /\ ~blocks
      \/ blocks /\ (k = SIGKILL \/ prev_handlers[k] # "SIG_ERR")
  BY <1>1, <1>3 DEF LoopKeep
<1>10. k + 1 \in 1 .. NSig + 1 /\ m \in SUBSET Sigs /\ c.tmp \in Handlers /\ k \notin c.new_mask
  <2>1. k \in Nat /\ k + 1 \in 1 .. NSig + 1
    BY <1>4, Consts DEF Sigs
  <2> QED BY <2>1, <1>1, <1>3, <1>4, <1>6, FrameType DEF WalkAt
<1>11. /\ e \in Activation /\ e.op = c.op /\ e.at = "top" /\ e.how = c.how /\ e.set = c.set
       /\ e.signo = k + 1 /\ e.new_mask = m
  BY <1>3, <1>7, <1>10 DEF Activation
<1>12. ASSUME k # SIGKILL PROVE Settled(k, m)
  <2>1. Settled(k, current_mask)
    BY <1>1, <1>3, <1>4, <1>12 DEF WalkAt, Ordinary
  <2>2. k \in m <=> k \in current_mask
    <3>1. CASE blocks
      BY <3>1, <2>1, <1>3, <1>9, <1>12 DEF Settled
    <3>2. CASE ~blocks
      BY <3>2, <1>6, <1>10
    <3> QED BY <3>1, <3>2
  <2> QED BY <2>1, <2>2, SettledByMask
<1>13. \A s, n : Settled(s, n)' <=> Settled(s, n)
  BY <1>5, SameSettled
<1>14. WalkAt(e)'
  <2>1. \A t \in Sigs : t # k => (t \in m <=> t \in c.new_mask)
    BY <1>6
  <2>2. k \in current_mask => k \in m
    BY <1>6
  <2>3. k # SIGKILL => Settled(k, m)'
    BY <1>12, <1>13
  <2> HIDE DEF blocks
  <2> QED BY <2>1, <2>2, <2>3, <1>1, <1>3, <1>4, <1>5, <1>11, <1>13, Advance
<1>15. KillIsAlone' /\ OwedOK'
  <2>1. KillIsAlone'
    BY <1>3, <1>5 DEF KillIsAlone
  <2>2. OwedOK'
    BY <1>1, <1>3, <1>5 DEF OwedOK
  <2> QED BY <2>1, <2>2
<1> QED BY <1>2, <1>3, <1>5, <1>8, <1>11, <1>14, <1>15, Types, WalkGoesOn

\* A signal gets the suspender.
LEMMA BlockStep == ASSUME IInv, LoopBlock PROVE IInv'
<1>1. PICK c, k : c = stack[1] /\ k = c.signo
  OBVIOUS
<1>2. stack # <<>> /\ Top.op = "sigprocmask" /\ Top.at = "top" /\ Top.signo <= NSig
  BY DEF LoopBlock, AtLoop
<1>3. /\ Top = c /\ c \in Activation /\ TypeOK /\ OwedOK /\ KillIsAlone /\ initialized /\ WalkAt(c)
      /\ c.op = "sigprocmask" /\ c.at = "top" /\ Walking
  BY <1>1, <1>2, WalkFacts
<1>4. k \in Sigs /\ k \in Nat
  BY <1>1, <1>2, <1>3, FrameType, Consts DEF Sigs
<1>5. UNCHANGED <<current_mask, pending, prev_handlers, initialized, alive, want, owed>>
  BY DEF LoopBlock, posix, history
<1>6. PICK m : m = c.new_mask \cup {k}
  OBVIOUS
<1>7. PICK e : e = [c EXCEPT !.at = "store", !.tmp = signal_list[k], !.new_mask = m]
  OBVIOUS
<1>8. Continue(e) /\ k \notin current_mask /\ k # SIGKILL /\ signal_list' = [signal_list EXCEPT ![k] = "sig_suspender"]
  BY <1>1, <1>3, <1>6, <1>7 DEF LoopBlock
<1>9. /\ signal_list' \in [Sigs -> Handlers] /\ signal_list'[k] = "sig_suspender"
      /\ \A t \in Sigs : t # k => signal_list'[t] = signal_list[t]
  <2>1. "sig_suspender" \in Handlers
    BY DEF Handlers
  <2> QED BY <2>1, <1>3, <1>4, <1>8, Types
<1>10. \A t \in Sigs : \A n : t # k => (Settled(t, n)' <=> Settled(t, n))
  BY <1>5, <1>9, OthersSettled
<1>11. /\ e \in Activation /\ e.op = c.op /\ e.at = "store" /\ e.how = c.how /\ e.set = c.set
       /\ e.signo = k /\ e.new_mask = m /\ e.tmp = signal_list[k]
  <2>1. m \in SUBSET Sigs /\ signal_list[k] \in Handlers /\ k \in 1 .. NSig + 1
    BY <1>1, <1>3, <1>4, <1>6, FrameType, Types
  <2> QED BY <2>1, <1>1, <1>3, <1>7 DEF Activation
<1>12. signal_list[k] = want[k]
  BY <1>1, <1>3, <1>4, <1>8 DEF WalkAt, Ordinary, Settled
<1>13. WalkAt(e)'
  <2>1. ASSUME NEW s \in Ordinary, s < k PROVE Settled(s, m)'
    <3>1. Settled(s, c.new_mask) /\ s # k /\ s \in Sigs
      BY <2>1, <1>1, <1>3, <1>4 DEF WalkAt, Ordinary
    <3>2. Settled(s, c.new_mask)'
      BY <3>1, <1>10
    <3> QED BY <3>1, <3>2, <1>6, SettledByMask
  <2>2. ASSUME NEW s \in Ordinary, s > k PROVE Settled(s, current_mask)'
    <3>1. Settled(s, current_mask) /\ s # k /\ s \in Sigs
      BY <2>2, <1>1, <1>3, <1>4 DEF WalkAt, Ordinary
    <3> QED BY <3>1, <1>5, <1>10
  <2>3. \A s \in Sigs : s < k /\ s \in current_mask /\ s \notin m => Unblocks(c.how, c.set, s)
    BY <1>1, <1>3, <1>6 DEF WalkAt
  <2>4. \A s \in m : s < k \/ s = k
    BY <1>1, <1>3, <1>6 DEF WalkAt
  <2> QED BY <2>1, <2>2, <2>3, <2>4, <1>3, <1>4, <1>5, <1>6, <1>8, <1>9, <1>11, <1>12 DEF WalkAt
<1>14. KillIsAlone'
  BY <1>3, <1>5, <1>8, <1>9, Consts DEF KillIsAlone
<1>15. OwedOK'
  <2>1. want[k] # "sig_suspender"
    BY <1>3, <1>4, Types DEF Wanted
  <2>2. \A s \in owed : s # k /\ want[s] = "user" /\ signal_list[s] = "sig_suspender" /\ s \in pending
    BY <2>1, <1>1, <1>3, <1>12 DEF OwedOK
  <2> QED BY <2>2, <1>3, <1>5, <1>9, Types DEF OwedOK
<1> QED BY <1>2, <1>3, <1>5, <1>8, <1>9, <1>11, <1>13, <1>14, <1>15, Types, WalkGoesOn

\* The old handler is stored.
LEMMA StoreStep == ASSUME IInv, LoopStore PROVE IInv'
<1>1. PICK c, k : c = stack[1] /\ k = c.signo
  OBVIOUS
<1>2. stack # <<>> /\ Top.op = "sigprocmask" /\ Top.at = "store"
  BY DEF LoopStore, AtLoop
<1>3. /\ Top = c /\ c \in Activation /\ TypeOK /\ OwedOK /\ KillIsAlone /\ initialized /\ WalkAt(c)
      /\ c.op = "sigprocmask" /\ c.at = "store" /\ Walking
  BY <1>1, <1>2, WalkFacts
<1>4. /\ k \in Sigs /\ k # SIGKILL /\ k \notin current_mask /\ k \in c.new_mask
      /\ signal_list[k] = "sig_suspender" /\ c.tmp = want[k]
  BY <1>1, <1>3 DEF WalkAt
<1>5. UNCHANGED <<signal_list, current_mask, pending, initialized, alive, want, owed>>
  BY DEF LoopStore, history
<1>6. PICK e : e = [c EXCEPT !.at = "top", !.new_mask = c.new_mask, !.signo = k + 1]
  OBVIOUS
<1>7. Continue(e) /\ prev_handlers' = [prev_handlers EXCEPT ![k] = want[k]]
  BY <1>1, <1>3, <1>4, <1>6 DEF LoopStore, NextSigno
<1>8. /\ prev_handlers' \in [Sigs -> Handlers \cup {"SIG_ERR"}] /\ prev_handlers'[k] = want[k]
      /\ \A t \in Sigs : t # k => prev_handlers'[t] = prev_handlers[t]
  <2>1. want[k] \in Handlers
    BY <1>3, <1>4, Types DEF Handlers
  <2> QED BY <2>1, <1>3, <1>4, <1>7, Types
<1>9. \A t \in Sigs : \A n : t # k => (Settled(t, n)' <=> Settled(t, n))
  BY <1>5, <1>8, OthersSettled
<1>10. /\ e \in Activation /\ e.op = c.op /\ e.at = "top" /\ e.how = c.how /\ e.set = c.set
       /\ e.signo = k + 1 /\ e.new_mask = c.new_mask
  <2>1. k + 1 \in 1 .. NSig + 1 /\ c.new_mask \in SUBSET Sigs /\ c.tmp \in Handlers
    BY <1>3, <1>4, FrameType, Consts DEF Sigs
  <2> QED BY <2>1, <1>3, <1>6 DEF Activation
<1>11. Settled(k, c.new_mask)'
  BY <1>4, <1>5, <1>8 DEF Settled
<1>12. WalkAt(e)'
  BY <1>1, <1>3, <1>4, <1>5, <1>9, <1>10, <1>11, Advance
<1>13. KillIsAlone'
  BY <1>3, <1>4, <1>5, <1>8, Consts DEF KillIsAlone
<1>14. OwedOK'
  BY <1>1, <1>3, <1>5 DEF OwedOK
<1> QED BY <1>2, <1>3, <1>5, <1>7, <1>8, <1>10, <1>12, <1>13, <1>14, Types, WalkGoesOn
\* A signal gets its handler back.
LEMMA UnblockStep == ASSUME IInv, LoopUnblock PROVE IInv'
<1>1. PICK c, k : c = stack[1] /\ k = c.signo
  OBVIOUS
<1>2. stack # <<>> /\ Top.op = "sigprocmask" /\ Top.at = "top" /\ Top.signo <= NSig
  BY DEF LoopUnblock, AtLoop
<1>3. /\ Top = c /\ c \in Activation /\ TypeOK /\ OwedOK /\ KillIsAlone /\ initialized /\ WalkAt(c)
      /\ c.op = "sigprocmask" /\ c.at = "top" /\ Walking
  BY <1>1, <1>2, WalkFacts
<1>4. k \in Sigs /\ k \in Nat
  BY <1>1, <1>2, <1>3, FrameType, Consts DEF Sigs
<1>5. UNCHANGED <<current_mask, pending, prev_handlers, initialized, alive, want, owed>>
  BY DEF LoopUnblock, posix, history
<1>6. PICK a : a = IF k = SIGKILL THEN "check" ELSE "forget"
  OBVIOUS
<1>7. PICK e : e = [c EXCEPT !.at = a]
  OBVIOUS
<1>8. k \in current_mask /\ Unblocks(c.how, c.set, k)
  BY <1>1, <1>3 DEF LoopUnblock
<1>9. k # SIGKILL => prev_handlers[k] = want[k] /\ want[k] \in Wanted /\ want[k] # "SIG_ERR"
  <2>1. want[k] \in Wanted /\ want[k] # "SIG_ERR"
    BY <1>3, <1>4, Types DEF Wanted
  <2> QED BY <2>1, <1>1, <1>3, <1>4, <1>8 DEF WalkAt, Ordinary, Settled
<1>10. k = SIGKILL => prev_handlers[k] = "SIG_ERR"
  BY <1>3 DEF KillIsAlone
<1>11. /\ signal_list' = (IF k = SIGKILL THEN signal_list ELSE [signal_list EXCEPT ![k] = want[k]])
       /\ Continue(e)
  <2>1. IF prev_handlers[k] # "SIG_ERR"
        THEN signal_list' = [signal_list EXCEPT ![k] = prev_handlers[k]] /\ Continue([c EXCEPT !.at = "forget"])
        ELSE signal_list' = signal_list /\ Continue([c EXCEPT !.at = "check"])
    BY <1>1, <1>3 DEF LoopUnblock
  <2> QED BY <2>1, <1>6, <1>7, <1>9, <1>10
<1>12. /\ signal_list' \in [Sigs -> Handlers] /\ (k # SIGKILL => signal_list'[k] = want[k])
       /\ \A t \in Sigs : t # k => signal_list'[t] = signal_list[t]
  BY <1>3, <1>4, <1>9, <1>11, Types DEF Handlers
<1>13. \A t \in Sigs : \A n : t # k => (Settled(t, n)' <=> Settled(t, n))
  BY <1>5, <1>12, OthersSettled
<1>14. /\ e \in Activation /\ e.op = c.op /\ e.at = a /\ e.how = c.how /\ e.set = c.set
       /\ e.signo = k /\ e.new_mask = c.new_mask
  BY <1>1, <1>3, <1>6, <1>7 DEF Activation
<1>15. WalkAt(e)'
  <2>1. ASSUME NEW s \in Ordinary, s < k PROVE Settled(s, c.new_mask)'
    <3>1. Settled(s, c.new_mask) /\ s # k /\ s \in Sigs
      BY <2>1, <1>1, <1>3, <1>4 DEF WalkAt, Ordinary
    <3> QED BY <3>1, <1>13
  <2>2. ASSUME NEW s \in Ordinary, s > k PROVE Settled(s, current_mask)'
    <3>1. Settled(s, current_mask) /\ s # k /\ s \in Sigs
      BY <2>2, <1>1, <1>3, <1>4 DEF WalkAt, Ordinary
    <3> QED BY <3>1, <1>5, <1>13
  <2>3. \A s \in Sigs : s < k /\ s \in current_mask /\ s \notin c.new_mask => Unblocks(c.how, c.set, s)
    BY <1>1, <1>3 DEF WalkAt
  <2>4. \A s \in c.new_mask : s < k
    BY <1>1, <1>3 DEF WalkAt
  <2> QED BY <2>1, <2>2, <2>3, <2>4, <1>3, <1>4, <1>5, <1>6, <1>8, <1>12, <1>14 DEF WalkAt
<1>16. KillIsAlone'
  BY <1>3, <1>5, <1>11, <1>12, Consts DEF KillIsAlone
<1>17. OwedOK'
  <2>1. \A s \in owed : want[s] = "user" /\ signal_list[s] = "sig_suspender" /\ s \in pending
    BY <1>1, <1>3 DEF OwedOK
  <2>2. \A s \in owed : s = k => k # SIGKILL
    BY <2>1, <1>3 DEF KillIsAlone
  <2>3. stack'[1] = e /\ Walking'
    BY <1>2, <1>3, <1>11, <1>14, ContinueFacts DEF Walking
  <2> QED BY <2>1, <2>2, <2>3, <1>3, <1>5, <1>6, <1>12, <1>14, Types DEF OwedOK
<1> QED BY <1>2, <1>3, <1>5, <1>11, <1>12, <1>14, <1>15, <1>16, <1>17, Types, WalkGoesOn

\* The saved handler is forgotten.
LEMMA ForgetStep == ASSUME IInv, LoopForget PROVE IInv'
<1>1. PICK c, k : c = stack[1] /\ k = c.signo
  OBVIOUS
<1>2. stack # <<>> /\ Top.op = "sigprocmask" /\ Top.at = "forget"
  BY DEF LoopForget, AtLoop
<1>3. /\ Top = c /\ c \in Activation /\ TypeOK /\ OwedOK /\ KillIsAlone /\ initialized /\ WalkAt(c)
      /\ c.op = "sigprocmask" /\ c.at = "forget" /\ Walking
  BY <1>1, <1>2, WalkFacts
<1>4. k \in Sigs /\ k \in Nat /\ k # SIGKILL /\ signal_list[k] = want[k] /\ Unblocks(c.how, c.set, k)
  BY <1>1, <1>3, Consts DEF WalkAt
<1>5. UNCHANGED <<signal_list, current_mask, pending, initialized, alive, want, owed>>
  BY DEF LoopForget, history
<1>6. PICK e : e = [c EXCEPT !.at = "check"]
  OBVIOUS
<1>7. Continue(e) /\ prev_handlers' = [prev_handlers EXCEPT ![k] = "SIG_ERR"]
  BY <1>1, <1>3, <1>6 DEF LoopForget
<1>8. /\ prev_handlers' \in [Sigs -> Handlers \cup {"SIG_ERR"}] /\ prev_handlers'[k] = "SIG_ERR"
      /\ \A t \in Sigs : t # k => prev_handlers'[t] = prev_handlers[t]
  BY <1>3, <1>4, <1>7, Types
<1>9. \A t \in Sigs : \A n : t # k => (Settled(t, n)' <=> Settled(t, n))
  BY <1>5, <1>8, OthersSettled
<1>10. /\ e \in Activation /\ e.op = c.op /\ e.at = "check" /\ e.how = c.how /\ e.set = c.set
       /\ e.signo = k /\ e.new_mask = c.new_mask
  BY <1>1, <1>3, <1>6 DEF Activation
<1>11. WalkAt(e)'
  <2>1. ASSUME NEW s \in Ordinary, s < k PROVE Settled(s, c.new_mask)'
    <3>1. Settled(s, c.new_mask) /\ s # k /\ s \in Sigs
      BY <2>1, <1>1, <1>3, <1>4 DEF WalkAt, Ordinary
    <3> QED BY <3>1, <1>9
  <2>2. ASSUME NEW s \in Ordinary, s > k PROVE Settled(s, current_mask)'
    <3>1. Settled(s, current_mask) /\ s # k /\ s \in Sigs
      BY <2>2, <1>1, <1>3, <1>4 DEF WalkAt, Ordinary
    <3> QED BY <3>1, <1>5, <1>9
  <2>3. \A s \in Sigs : s < k /\ s \in current_mask /\ s \notin c.new_mask => Unblocks(c.how, c.set, s)
    BY <1>1, <1>3 DEF WalkAt
  <2>4. \A s \in c.new_mask : s < k
    BY <1>1, <1>3 DEF WalkAt
  <2>5. Settled(k, {})'
    BY <1>4, <1>5, <1>8 DEF Settled
  <2> QED BY <2>1, <2>2, <2>3, <2>4, <2>5, <1>3, <1>4, <1>5, <1>10 DEF WalkAt
<1>12. KillIsAlone'
  BY <1>3, <1>4, <1>5, <1>8, Consts DEF KillIsAlone
<1>13. OwedOK'
  <2>1. stack'[1] = e /\ Walking'
    BY <1>2, <1>3, <1>7, <1>10, ContinueFacts DEF Walking
  <2> QED BY <2>1, <1>1, <1>3, <1>5, <1>10 DEF OwedOK
<1> QED BY <1>2, <1>3, <1>5, <1>7, <1>8, <1>10, <1>11, <1>12, <1>13, Types, WalkGoesOn

\* What was recorded is looked for.
LEMMA CheckStep == ASSUME IInv, LoopCheck PROVE IInv'
<1>1. PICK c, k : c = stack[1] /\ k = c.signo
  OBVIOUS
<1>2. stack # <<>> /\ Top.op = "sigprocmask" /\ Top.at = "check"
  BY DEF LoopCheck, AtLoop
<1>3. /\ Top = c /\ c \in Activation /\ TypeOK /\ OwedOK /\ KillIsAlone /\ initialized /\ WalkAt(c)
      /\ c.op = "sigprocmask" /\ c.at = "check" /\ Walking
  BY <1>1, <1>2, WalkFacts
<1>4. k \in Sigs /\ k \in Nat /\ (k # SIGKILL => Settled(k, {})) /\ Unblocks(c.how, c.set, k) /\ k \notin c.new_mask
  <2>1. k \in Sigs
    BY <1>1, <1>3 DEF WalkAt
  <2>2. k \in Nat /\ ~(k < k)
    BY <2>1, Consts
  <2> QED BY <2>1, <2>2, <1>1, <1>3 DEF WalkAt
<1>5. UNCHANGED <<signal_list, current_mask, prev_handlers, initialized, alive, want, owed>>
  BY DEF LoopCheck, history
<1>6. \A t, n : Settled(t, n)' <=> Settled(t, n)
  BY <1>5, SameSettled
<1>7. KillIsAlone'
  BY <1>3, <1>5 DEF KillIsAlone
<1>8. CASE k \in pending
  <2>1. PICK e : e = [c EXCEPT !.at = "raise"]
    OBVIOUS
  <2>2. Continue(e) /\ pending' = pending \ {k}
    BY <2>1, <1>1, <1>3, <1>8 DEF LoopCheck
  <2>3. /\ e \in Activation /\ e.op = c.op /\ e.at = "raise" /\ e.how = c.how /\ e.set = c.set
        /\ e.signo = k /\ e.new_mask = c.new_mask
    BY <2>1, <1>1, <1>3 DEF Activation
  <2>4. WalkAt(e)'
    BY <2>3, <1>1, <1>3, <1>4, <1>5, <1>6 DEF WalkAt
  <2>5. OwedOK'
    <3>1. stack'[1] = e /\ Walking'
      BY <2>2, <2>3, <1>2, <1>3, ContinueFacts DEF Walking
    <3> QED BY <3>1, <2>2, <2>3, <1>1, <1>3, <1>5 DEF OwedOK
  <2>6. pending' \subseteq Sigs
    BY <2>2, <1>3, Types
  <2> QED BY <2>2, <2>3, <2>4, <2>5, <2>6, <1>2, <1>3, <1>5, <1>7, Types, WalkGoesOn
<1>9. CASE k \notin pending
  <2>1. PICK e : e = [c EXCEPT !.at = "top", !.new_mask = c.new_mask, !.signo = k + 1]
    OBVIOUS
  <2>2. Continue(e) /\ pending' = pending
    BY <2>1, <1>1, <1>3, <1>9 DEF LoopCheck, NextSigno
  <2>3. /\ e \in Activation /\ e.op = c.op /\ e.at = "top" /\ e.how = c.how /\ e.set = c.set
        /\ e.signo = k + 1 /\ e.new_mask = c.new_mask
    <3>1. k + 1 \in 1 .. NSig + 1
      BY <1>4, Consts DEF Sigs
    <3> QED BY <3>1, <2>1, <1>3 DEF Activation
  <2>4. k # SIGKILL => Settled(k, c.new_mask)'
    BY <1>4, <1>6, SettledByMask
  <2>5. WalkAt(e)'
    BY <2>3, <2>4, <1>1, <1>3, <1>4, <1>5, <1>6, Advance
  <2>6. OwedOK'
    BY <2>2, <1>1, <1>3, <1>5, <1>9 DEF OwedOK
  <2> QED BY <2>2, <2>3, <2>5, <2>6, <1>2, <1>3, <1>5, <1>7, Types, WalkGoesOn
<1> QED BY <1>8, <1>9
\* A recorded signal is raised; its handler runs on top of the walk.
LEMMA RaiseStep == ASSUME IInv, LoopRaise PROVE IInv'
<1>1. PICK c, k : c = stack[1] /\ k = c.signo
  OBVIOUS
<1>2. stack # <<>> /\ Top.op = "sigprocmask" /\ Top.at = "raise"
  BY DEF LoopRaise, AtLoop
<1>3. /\ Top = c /\ c \in Activation /\ TypeOK /\ OwedOK /\ KillIsAlone /\ initialized /\ WalkAt(c)
      /\ c.op = "sigprocmask" /\ c.at = "raise" /\ Walking /\ Pop = <<>> /\ alive
  BY <1>1, <1>2, WalkFacts
<1>4. k \in Sigs /\ k \in Nat /\ (k # SIGKILL => Settled(k, {})) /\ Unblocks(c.how, c.set, k) /\ k \notin c.new_mask
  <2>1. k \in Sigs
    BY <1>1, <1>3 DEF WalkAt
  <2>2. k \in Nat /\ ~(k < k)
    BY <2>1, Consts
  <2> QED BY <2>1, <2>2, <1>1, <1>3 DEF WalkAt
<1>5. UNCHANGED <<signal_list, current_mask, prev_handlers, initialized, want>>
  BY DEF LoopRaise
<1>6. PICK e : e = [c EXCEPT !.at = "top", !.signo = k + 1]
  OBVIOUS
<1>7. deliver(k, Append(Pop, e))
  BY <1>1, <1>3, <1>6 DEF LoopRaise
<1>8. /\ alive' = (signal_list[k] # "SIG_DFL") /\ Owe(k)
      /\ pending' = IF signal_list[k] = "sig_suspender" THEN pending \cup {k} ELSE pending
  BY <1>7 DEF deliver
<1>9. stack' = CASE signal_list[k] = "user"    -> Append(Append(Pop, e), Call("handler", "body", k))
                 [] signal_list[k] = "SIG_DFL" -> <<>>
                 [] OTHER                      -> Append(Pop, e)
  BY <1>7 DEF deliver
<1>10. owed' \subseteq Sigs /\ pending' \subseteq Sigs
  BY <1>3, <1>4, <1>8, Types DEF Owe
<1>11. CASE signal_list[k] = "SIG_DFL"
  <2>1. stack' = <<>>
    BY <1>9, <1>11
  <2>2. alive' \in BOOLEAN /\ ~alive'
    BY <1>8, <1>11
  <2>3. stack' \in Seq(Activation)
    BY <2>1
  <2>4. TypeOK'
    BY <2>2, <2>3, <1>3, <1>5, <1>10, Types DEF TypeOK
  <2>5. OnlyFirstCalls'
    BY <2>1 DEF OnlyFirstCalls
  <2> QED BY <2>1, <2>2, <2>4, <2>5 DEF IInv
<1>12. CASE signal_list[k] # "SIG_DFL"
  <2>1. alive' \in BOOLEAN /\ alive'
    BY <1>8, <1>12
  <2>2. k # SIGKILL /\ signal_list[k] = want[k] /\ want[k] \in Wanted /\ want[k] # "sig_suspender"
    BY <1>3, <1>4, <1>12, Types DEF KillIsAlone, Settled, Wanted
  <2>3. /\ e \in Activation /\ e.op = c.op /\ e.at = "top" /\ e.how = c.how /\ e.set = c.set
        /\ e.signo = k + 1 /\ e.new_mask = c.new_mask
    <3>1. k + 1 \in 1 .. NSig + 1
      BY <1>4, Consts DEF Sigs
    <3> QED BY <3>1, <1>3, <1>6 DEF Activation
  <2>4. stack' \in Seq(Activation) /\ stack' # <<>> /\ stack'[1] = e /\ OnlyFirstCalls'
    <3>1. PICK p : p = Append(Pop, e)
      OBVIOUS
    <3>2. p \in Seq(Activation) /\ Len(p) = 1 /\ p[1] = e
      <4>1. <<>> \in Seq(Activation) /\ Len(<<>>) = 0
        OBVIOUS
      <4> QED BY <4>1, <3>1, <2>3, <1>3, AppendFacts
    <3>3. CASE signal_list[k] = "user"
      <4>1. PICK h : h = Call("handler", "body", k)
        OBVIOUS
      <4>2. h \in Activation /\ h.op = "handler"
        BY <4>1, <1>4, CallFacts
      <4>3. stack' = Append(p, h)
        BY <4>1, <3>1, <3>3, <1>9
      <4>4. stack' \in Seq(Activation) /\ Len(stack') = 2 /\ stack'[2] = h /\ stack'[1] = e
        <5>1. /\ stack' \in Seq(Activation) /\ Len(stack') = Len(p) + 1 /\ stack'[Len(p) + 1] = h
              /\ \A i \in 1 .. Len(p) : stack'[i] = p[i]
          <6>1. p \in Seq(Activation) /\ h \in Activation
            BY <4>2, <3>2
          <6>2. /\ Append(p, h) \in Seq(Activation) /\ Len(Append(p, h)) = Len(p) + 1
                /\ Append(p, h)[Len(p) + 1] = h /\ \A i \in 1 .. Len(p) : Append(p, h)[i] = p[i]
            BY <6>1, AppendFacts
          <6> QED BY <6>2, <4>3
        <5>2. Len(p) + 1 = 2 /\ 1 \in 1 .. Len(p)
          BY <3>2
        <5> QED BY <5>1, <5>2, <3>2
      <4> QED BY <4>2, <4>4 DEF OnlyFirstCalls
    <3>4. CASE signal_list[k] # "user"
      <4>1. stack' = p
        BY <3>1, <3>4, <1>9, <1>12
      <4> QED BY <4>1, <3>2 DEF OnlyFirstCalls
    <3> QED BY <3>3, <3>4
  <2>5. Walking' /\ ~Asked'
    BY <2>3, <2>4, <1>3 DEF Walking, Asked
  <2>6. \A t, n : Settled(t, n)' <=> Settled(t, n)
    BY <1>5, SameSettled
  <2>7. WalkAt(e)'
    <3>1. k # SIGKILL => Settled(k, c.new_mask)'
      BY <2>6, <1>4, SettledByMask
    <3> QED BY <3>1, <2>3, <2>6, <1>1, <1>3, <1>4, <1>5, Advance
  <2>8. RestOK' /\ AskedOK' /\ WalkOK' /\ KillIsAlone'
    <3>1. KillIsAlone'
      BY <1>3, <1>5 DEF KillIsAlone
    <3>2. RestOK' /\ AskedOK' /\ WalkOK'
      BY <2>4, <2>5, <2>7, <1>3, <1>5 DEF RestOK, AskedOK, WalkOK
    <3> QED BY <3>1, <3>2
  <2>9. OwedOK'
    <3>1. pending' = pending /\ owed' = owed \ {k}
      <4>1. want[k] # "user" => k \notin owed
        BY <1>3 DEF OwedOK
      <4> QED BY <4>1, <2>2, <1>8 DEF Owe
    <3>2. \A s \in owed' : want[s] = "user" /\ signal_list[s] = "sig_suspender" /\ s \in pending
      BY <3>1, <1>1, <1>3 DEF OwedOK
    <3> QED BY <3>1, <3>2, <1>5 DEF OwedOK
  <2>10. TypeOK'
    BY <2>1, <2>4, <1>3, <1>5, <1>10, Types DEF TypeOK
  <2> QED BY <2>1, <2>4, <2>8, <2>9, <2>10 DEF IInv, Masked
<1> QED BY <1>11, <1>12

\* The walk ends, and the mask is what it has made of the handlers.
LEMMA EndStep == ASSUME IInv, LoopEnd PROVE IInv'
<1>1. PICK c, k : c = stack[1] /\ k = c.signo
  OBVIOUS
<1>2. stack # <<>> /\ Top.op = "sigprocmask" /\ Top.at = "top" /\ Top.signo > NSig
  BY DEF LoopEnd, AtLoop
<1>3. /\ Top = c /\ c \in Activation /\ TypeOK /\ OwedOK /\ KillIsAlone /\ initialized /\ WalkAt(c)
      /\ c.at = "top" /\ Pop = <<>> /\ alive
  BY <1>1, <1>2, WalkFacts
<1>4. /\ current_mask' = c.new_mask /\ stack' = <<>>
      /\ UNCHANGED <<signal_list, pending, prev_handlers, initialized, alive, want, owed>>
  BY <1>3 DEF LoopEnd, history
<1>5. \A s \in Sigs : s < k
  BY <1>1, <1>2, <1>3, FrameType, Consts DEF Sigs
<1>6. \A s \in Ordinary : Settled(s, c.new_mask)
  BY <1>1, <1>3, <1>5 DEF WalkAt, Ordinary
<1>7. \A s \in Ordinary : Settled(s, current_mask)'
  BY <1>4, <1>6 DEF Settled
<1>8. ~Walking' /\ ~Asked'
  BY <1>4 DEF Walking, Asked
<1>9. RestOK'
  BY <1>3, <1>4, <1>7 DEF RestOK
<1>10. OwedOK'
  BY <1>1, <1>3, <1>4 DEF OwedOK
<1>11. KillIsAlone'
  BY <1>3, <1>4 DEF KillIsAlone
<1>12. TypeOK'
  <2>1. stack' \in Seq(Activation)
    BY <1>4
  <2> QED BY <2>1, <1>3, <1>4, FrameType, Types DEF TypeOK
<1>13. OnlyFirstCalls'
  BY <1>4 DEF OnlyFirstCalls
<1> QED BY <1>3, <1>4, <1>8, <1>9, <1>10, <1>11, <1>12, <1>13 DEF IInv, Masked, AskedOK, WalkOK

-----------------------------------------------------------------------------
(* The theorems. *)

\* A step that changes nothing.
LEMMA StutterIInv == ASSUME IInv, UNCHANGED vars PROVE IInv'
<1>1. UNCHANGED <<signal_list, current_mask, pending, prev_handlers, initialized, stack, alive, want, owed>>
  BY DEF vars, posix, history
<1>2. TypeOK' /\ OnlyFirstCalls'
  BY <1>1 DEF IInv, TypeOK, OnlyFirstCalls
<1>3. SameBase
  BY <1>1 DEF SameBase, Walking, Asked
<1>4. alive => Masked' /\ OwedOK'
  <2>1. alive => Masked'
    BY <1>1, <1>3, SameMasked DEF IInv
  <2>2. alive => OwedOK'
    BY <1>1, <1>3 DEF IInv, OwedOK, SameBase
  <2> QED BY <2>1, <2>2
<1> QED BY <1>1, <1>2, <1>4 DEF IInv

\* Every step keeps the invariant.
LEMMA NextIInv == ASSUME HandlersBlock = FALSE, SignalOnBlocked = FALSE, IInv, Next PROVE IInv'
<1>1. ASSUME NEW s \in Sigs, Arrive(s) PROVE IInv'
  BY <1>1, ArriveStep
<1>2. CASE HandlerReturn
  BY <1>2, ReturnStep
<1>3. ASSUME NEW s \in Sigs, NEW h \in Wanted, Signal(s, h) PROVE IInv'
  BY <1>3, SignalStep
<1>4. ASSUME NEW s \in Sigs, NEW h \in Wanted \cup {"NULL"}, Sigaction(s, h) PROVE IInv'
  BY <1>4, SigactionStep
<1>5. CASE SigactionRestore \/ SigactionAct
  BY <1>5, RestoreStep, ActStep
<1>6. ASSUME NEW how \in {"SIG_BLOCK", "SIG_UNBLOCK", "SIG_SETMASK"}, NEW set \in SUBSET Sigs, Sigprocmask(how, set)
      PROVE  IInv'
  BY <1>6, CallStep
<1>7. CASE LoopKeep \/ LoopBlock \/ LoopStore
  BY <1>7, KeepStep, BlockStep, StoreStep
<1>8. CASE LoopUnblock \/ LoopForget \/ LoopCheck \/ LoopRaise \/ LoopEnd
  BY <1>8, UnblockStep, ForgetStep, CheckStep, RaiseStep, EndStep
<1>9. CASE Dead
  BY <1>9, StutterIInv DEF Dead
<1> QED BY <1>1, <1>2, <1>3, <1>4, <1>5, <1>6, <1>7, <1>8, <1>9 DEF Next

\* The walk of sigprocmask (sigprocm.c) over the signals keeps handlers, saved handlers and
\* mask together although signals interrupt it between any two statements.
THEOREM MaskInvariance == ASSUME HandlersBlock = FALSE, SignalOnBlocked = FALSE PROVE Spec => []IInv
<1>1. IInv /\ [Next]_vars => IInv'
  BY NextIInv, StutterIInv
<1> QED BY <1>1, InitIInv, PTL DEF Spec

\* When no call is in progress the mask, the saved handlers and signal_list say the same of
\* every signal (sigprocm.c, sigactio.c), and every variable has its type.
THEOREM MaskAgrees == ASSUME HandlersBlock = FALSE, SignalOnBlocked = FALSE PROVE Spec => []MaskOK
<1>1. IInv => MaskOK
  <2> SUFFICES ASSUME IInv, alive, initialized, stack = <<>>, NEW s \in Ordinary
               PROVE  /\ s \in current_mask <=> signal_list[s] = "sig_suspender"
                      /\ s \in current_mask <=> prev_handlers[s] # "SIG_ERR"
                      /\ s \in current_mask => prev_handlers[s] = want[s]
                      /\ s \notin current_mask => signal_list[s] = want[s]
    BY DEF MaskOK, MaskIsInstalled, IInv, Ordinary
  <2>1. Settled(s, current_mask)
    BY DEF IInv, Masked, RestOK, Walking, Asked
  <2>2. want[s] \in Wanted /\ want[s] # "sig_suspender" /\ want[s] # "SIG_ERR"
    BY Types DEF IInv, Wanted, Ordinary
  <2> QED BY <2>1, <2>2 DEF Settled
<1> QED BY <1>1, MaskInvariance, PTL

\* Signals that come for a blocked handler are recorded by sig_suspender and raised by the
\* call that unblocks them (sigprocm.c): when no call is in progress only blocked signals
\* are outstanding, and those are pending.
THEOREM SignalsAreKept == ASSUME HandlersBlock = FALSE, SignalOnBlocked = FALSE PROVE Spec => []NoSignalIsLost
<1>1. IInv => NoSignalIsLost
  <2> SUFFICES ASSUME IInv, alive, stack = <<>>, NEW s \in owed PROVE s \in current_mask /\ s \in pending
    BY DEF NoSignalIsLost
  <2>1. TypeOK /\ OwedOK /\ ~Walking
    BY DEF IInv, Walking
  <2>2. s \in Sigs /\ s \in pending
    BY <2>1, Types DEF OwedOK
  <2> QED BY <2>2, OpenIsNotOwed
<1> QED BY <1>1, MaskInvariance, PTL
\* A handler in force for a signal in the mask is there because a call is unblocking it.
LEMMA InForceMeansUnblocking ==
  ASSUME IInv, alive, NEW s \in Sigs, s \in current_mask, signal_list[s] = "user"
  PROVE  BeingUnblocked(s)
<1>1. TypeOK /\ Masked
  BY DEF IInv
<1>2. s \in Ordinary
  BY <1>1 DEF Masked, KillIsAlone, Ordinary
<1>3. ~Settled(s, current_mask)
  BY DEF Settled
<1>4. Walking
  BY <1>1, <1>2, <1>3 DEF Masked, RestOK, AskedOK
<1>5. PICK c, k : c = stack[1] /\ k = c.signo
  OBVIOUS
<1>6. c \in Activation /\ c.op = "sigprocmask" /\ 1 \in DOMAIN stack /\ WalkAt(c)
  <2>1. stack # <<>> /\ stack \in Seq(Activation)
    BY <1>1, <1>4, Types DEF Walking
  <2>2. Len(stack) \in Nat \ {0} /\ DOMAIN stack = 1 .. Len(stack)
    BY <2>1
  <2> QED BY <2>1, <2>2, <1>1, <1>4, <1>5 DEF Walking, Masked, WalkOK
<1>7. s \in Nat /\ k \in Nat
  BY <1>5, <1>6, FrameType, Consts
<1>8. CASE s < k
  <2>1. Settled(s, c.new_mask)
    BY <1>2, <1>5, <1>6, <1>8 DEF WalkAt
  <2>2. s \notin c.new_mask
    BY <2>1 DEF Settled
  <2>3. Unblocks(c.how, c.set, s)
    BY <2>2, <1>5, <1>6, <1>8 DEF WalkAt
  <2> QED BY <2>3, <1>5, <1>6, <1>7, <1>8 DEF BeingUnblocked
<1>9. CASE s = k
  <2>1. c.at \in {"forget", "check", "raise"}
    BY <1>2, <1>3, <1>5, <1>6, <1>9 DEF WalkAt
  <2>2. Unblocks(c.how, c.set, s)
    BY <2>1, <1>5, <1>6, <1>9 DEF WalkAt
  <2> QED BY <2>1, <2>2, <1>5, <1>6, <1>9 DEF BeingUnblocked
<1>10. CASE s > k
  BY <1>2, <1>3, <1>5, <1>6, <1>10 DEF WalkAt
<1> QED BY <1>7, <1>8, <1>9, <1>10

\* A frame is a handler for one signal only.
LEMMA OneSignal ==
  ASSUME NEW s, NEW t, Call("handler", "body", s) = Call("handler", "body", t) PROVE s = t
<1>1. Call("handler", "body", s).signo = s /\ Call("handler", "body", t).signo = t
  BY DEF Call
<1> QED BY <1>1

\* Handlers start by raise alone, for signals that are not blocked or are being unblocked.
LEMMA StartsUnblocked ==
  ASSUME IInv, Next, NEW s \in Sigs, StartsHandler(s), s \in current_mask
  PROVE  BeingUnblocked(s)
<1>1. TypeOK /\ stack \in Seq(Activation) /\ Len(stack) \in Nat
  BY Types DEF IInv, TypeOK
<1>2. Len(stack') = Len(stack) + 1 /\ stack'[Len(stack')] = Call("handler", "body", s)
  BY DEF StartsHandler
<1>3. Call("handler", "body", s).op = "handler"
  BY DEF Call
<1>4. stack' # stack /\ stack' # <<>>
  BY <1>1, <1>2
<1>5. ASSUME NEW t \in Sigs, Arrive(t) PROVE BeingUnblocked(s)
  <2>1. stack' = CASE signal_list[t] = "user"    -> Append(stack, Call("handler", "body", t))
                   [] signal_list[t] = "SIG_DFL" -> <<>>
                   [] OTHER                      -> stack
    BY <1>5 DEF Arrive, deliver
  <2>2. signal_list[t] = "user" /\ stack' = Append(stack, Call("handler", "body", t))
    BY <2>1, <1>4
  <2>3. stack'[Len(stack) + 1] = Call("handler", "body", t)
    BY <2>2, <1>1, <1>5, CallFacts, AppendFacts
  <2>4. s = t
    BY <2>3, <1>2, OneSignal
  <2> QED BY <2>2, <2>4, <1>5, InForceMeansUnblocking DEF Arrive
<1>6. CASE HandlerReturn
  <2>1. Len(stack') = Len(stack) - 1
    BY <1>1, <1>6, PopFacts DEF HandlerReturn, Pop
  <2> QED BY <2>1, <1>1, <1>2
<1>7. ASSUME NEW t \in Sigs, NEW h \in Wanted, Signal(t, h) PROVE BeingUnblocked(s)
  BY <1>4, <1>7 DEF Signal
<1>8. ASSUME NEW e \in Activation, e.op # "handler", stack' = Append(stack, e) PROVE FALSE
  <2>1. stack'[Len(stack) + 1] = e
    BY <1>1, <1>8, AppendFacts
  <2> QED BY <2>1, <1>2, <1>3, <1>8
<1>9. ASSUME NEW t \in Sigs, NEW h \in Wanted \cup {"NULL"}, Sigaction(t, h) PROVE BeingUnblocked(s)
  <2>1. PICK c : c = Call("sigaction", "restore", t)
    OBVIOUS
  <2>2. PICK e : e = [c EXCEPT !.tmp = signal_list[t], !.act = h]
    OBVIOUS
  <2>3. c \in Activation /\ c.op = "sigaction" /\ signal_list[t] \in Handlers
    BY <2>1, <1>1, <1>9, CallFacts, Types
  <2>4. e \in Activation /\ e.op = "sigaction"
    BY <2>2, <2>3 DEF Activation
  <2>5. stack' = Append(stack, e)
    BY <2>1, <2>2, <1>9 DEF Sigaction
  <2> QED BY <2>4, <2>5, <1>8
<1>10. ASSUME NEW how \in {"SIG_BLOCK", "SIG_UNBLOCK", "SIG_SETMASK"}, NEW set \in SUBSET Sigs, Sigprocmask(how, set)
       PROVE  BeingUnblocked(s)
  <2>1. PICK c : c = Call("sigprocmask", "top", 1)
    OBVIOUS
  <2>2. PICK e : e = [c EXCEPT !.how = how, !.set = set]
    OBVIOUS
  <2>3. c \in Activation /\ c.op = "sigprocmask"
    <3>1. 1 \in Sigs
      BY Consts DEF Sigs
    <3> QED BY <3>1, <2>1, CallFacts
  <2>4. e \in Activation /\ e.op = "sigprocmask"
    BY <2>2, <2>3, <1>10 DEF Activation
  <2>5. stack' = Append(stack, e)
    BY <2>1, <2>2, <1>10 DEF Sigprocmask
  <2> QED BY <2>4, <2>5, <1>8
<1>11. ASSUME stack # <<>>, Top.op # "handler", NEW e, stack' = Pop \/ Continue(e) PROVE FALSE
  <2>1. Len(stack) = 1 /\ Pop = <<>>
    BY <1>11, FirstFrame
  <2>2. CASE stack' = Pop
    BY <2>1, <2>2, <1>4
  <2>3. CASE Continue(e)
    <3>1. stack' = Append(<<>>, e)
      BY <2>1, <2>3 DEF Continue
    <3>2. Len(stack') = 1
      BY <3>1
    <3> QED BY <3>2, <2>1, <1>2
  <2> QED BY <2>2, <2>3, <1>11
<1>12. CASE SigactionRestore
  <2>1. stack # <<>> /\ Top.op # "handler" /\ (stack' = Pop \/ Continue([Top EXCEPT !.at = "set"]))
    BY <1>12 DEF SigactionRestore
  <2> QED BY <2>1, <1>11
<1>13. CASE SigactionAct \/ LoopEnd
  <2>1. stack # <<>> /\ Top.op # "handler" /\ stack' = Pop
    BY <1>13 DEF SigactionAct, LoopEnd, AtLoop
  <2> QED BY <2>1, <1>11
<1>14. CASE LoopKeep \/ LoopStore
  <2>1. stack # <<>> /\ Top.op # "handler" /\ \E m : NextSigno(m)
    BY <1>14 DEF LoopKeep, LoopStore, AtLoop
  <2>2. \E e : Continue(e)
    BY <2>1 DEF NextSigno
  <2> QED BY <2>1, <2>2, <1>11
<1>15. CASE LoopBlock \/ LoopUnblock \/ LoopForget
  <2>1. stack # <<>> /\ Top.op # "handler"
    BY <1>15 DEF LoopBlock, LoopUnblock, LoopForget, AtLoop
  <2>2. \E e : Continue(e)
    BY <1>15 DEF LoopBlock, LoopUnblock, LoopForget
  <2> QED BY <2>1, <2>2, <1>11
<1>16. CASE LoopCheck
  <2>1. stack # <<>> /\ Top.op # "handler"
    BY <1>16 DEF LoopCheck, AtLoop
  <2>2. \E e : Continue(e)
    BY <1>16 DEF LoopCheck, NextSigno
  <2> QED BY <2>1, <2>2, <1>11
<1>17. CASE LoopRaise
  <2>1. PICK c, k : c = stack[1] /\ k = c.signo
    OBVIOUS
  <2>2. stack # <<>> /\ Top.op = "sigprocmask" /\ Top.at = "raise"
    BY <1>17 DEF LoopRaise, AtLoop
  <2>3. /\ Top = c /\ c \in Activation /\ WalkAt(c) /\ c.at = "raise" /\ c.op = "sigprocmask" /\ Pop = <<>>
        /\ Len(stack) = 1
    BY <2>1, <2>2, WalkFacts, FirstFrame
  <2>4. PICK e : e = [c EXCEPT !.at = "top", !.signo = k + 1]
    OBVIOUS
  <2>5. stack' = CASE signal_list[k] = "user"    -> Append(Append(<<>>, e), Call("handler", "body", k))
                   [] signal_list[k] = "SIG_DFL" -> <<>>
                   [] OTHER                      -> Append(<<>>, e)
    BY <2>1, <2>3, <2>4, <1>17 DEF LoopRaise, deliver
  <2>6. Len(stack') = 2
    BY <2>3, <1>2
  <2>7. Len(Append(<<>>, e)) = 1
    OBVIOUS
  <2>8. stack' = Append(Append(<<>>, e), Call("handler", "body", k))
    BY <2>5, <2>6, <2>7, <1>4
  <2>9. stack'[2] = Call("handler", "body", k)
    <3>1. PICK h : h = Call("handler", "body", k)
      OBVIOUS
    <3>2. Append(Append(<<>>, e), h)[2] = h
      OBVIOUS
    <3> QED BY <3>1, <3>2, <2>8
  <2>10. s = k
    BY <2>6, <2>9, <1>2, OneSignal
  <2>11. Unblocks(c.how, c.set, k)
    BY <2>1, <2>3 DEF WalkAt
  <2>12. 1 \in DOMAIN stack
    BY <2>3, <1>1
  <2> QED BY <2>1, <2>3, <2>10, <2>11, <2>12 DEF BeingUnblocked
<1>18. CASE Dead
  BY <1>4, <1>18 DEF Dead, vars
<1> QED BY <1>5, <1>6, <1>7, <1>9, <1>10, <1>12, <1>13, <1>14, <1>15, <1>16, <1>17, <1>18 DEF Next

\* A handler never starts for a signal of the mask, but in the call of sigprocmask that
\* unblocks it (sigprocm.c: the suspender is in signal_list while the bit is in the mask).
THEOREM BlockedSignalsWait ==
  ASSUME HandlersBlock = FALSE, SignalOnBlocked = FALSE PROVE Spec => BlockedIsHeld
<1>1. IInv /\ [Next]_vars =>
        [\A s \in Sigs : StartsHandler(s) => s \notin current_mask \/ BeingUnblocked(s)]_vars
  BY StartsUnblocked
<1> QED BY <1>1, MaskInvariance, PTL DEF Spec, BlockedIsHeld
=============================================================================
