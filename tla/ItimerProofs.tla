---------------------------- MODULE ItimerProofs -----------------------------
(* Proofs about Itimer, for any tick, arguments and bounds. *)
EXTENDS Itimer, Lemmas

\* The statements that are executed only with the tick's vector given back: no tick
\* interrupts them.
Undisturbed == {"signal", "vector", "off", "default"}

\* The tick is ours only while its signal is, and the flag is set.
TickHasItsHandler == vec8 = "ours" => timer_on /\ sigtimr = "timer_action"

\* Only our handler of the tick posts SIGTIMR, and nothing goes on before it is delivered.
PostedByOurTick == forced => vec8 = "ours"

\* A call that was interrupted is not in the middle of taking or giving up the tick; the
\* one that runs has done what comes before its statement.
StepsInOrder ==
  /\ \A i \in 1 .. Len(stack) - 1 : stack[i].at \notin Undisturbed
  /\ stack # <<>> /\ Top.at \in Undisturbed =>
       /\ vec8 = "old"
       /\ Top.at \in {"signal", "vector"} => timer_on
       /\ Top.at = "vector" => sigtimr = "timer_action"

IInv == TypeOK /\ NeverKilled /\ TickHasItsHandler /\ PostedByOurTick /\ StepsInOrder

-----------------------------------------------------------------------------
(* Sequences and activations. *)

\* A new call is an activation.
LEMMA CallFacts ==
  ASSUME NEW op \in {"setitimer", "timer_action", "handler"}, NEW at \in Labels
  PROVE  Call(op, at) \in Activation /\ Call(op, at).at = at
BY DEF Call, Activation, Timers

-----------------------------------------------------------------------------
(* The invariant. *)

\* The invariant holds at the start: no tick is ours and nothing is in progress.
LEMMA InitIInv == Init => IInv
<1> SUFFICES ASSUME Init PROVE IInv
  OBVIOUS
<1>1. TypeOK
  <2>1. now \in 0..MaxTime /\ u_now \in 0..MaxTime /\ busy \in Nat /\ rearmed \in 0..MaxRearm /\ countdown \in Nat
    BY UnitAssumption, ArgAssumption DEF Init
  <2>2. exp \in [Timers -> Nat] /\ rel \in [Timers -> Nat] /\ due \in [Timers -> Nat]
    BY DEF Init
  <2>3. stack \in Seq(Activation) /\ Len(stack) <= MaxNest
    BY UnitAssumption DEF Init
  <2> QED BY <2>1, <2>2, <2>3 DEF Init, TypeOK
<1> QED BY <1>1 DEF Init, IInv, NeverKilled, TickHasItsHandler, PostedByOurTick, StepsInOrder

\* The innermost call is an activation.
LEMMA TopFacts == ASSUME TypeOK, stack # <<>> PROVE Top \in Activation /\ Len(stack) \in Nat \ {0}
BY PopFacts DEF TypeOK, Top

\* The innermost call goes on in another state.
LEMMA ContinueFacts ==
  ASSUME TypeOK, stack # <<>>, NEW e \in Activation, stack' = Append(Pop, e)
  PROVE  /\ stack' \in Seq(Activation) /\ Len(stack') = Len(stack) /\ stack' # <<>> /\ Top' = e
         /\ \A i \in 1 .. Len(stack) - 1 : stack'[i] = stack[i]
<1>1. stack \in Seq(Activation) /\ Len(stack) \in Nat \ {0}
  BY TopFacts DEF TypeOK
<1>2. /\ stack' \in Seq(Activation) /\ Len(stack') = Len(stack) /\ stack'[Len(stack)] = e
      /\ \A i \in 1 .. Len(stack) - 1 : stack'[i] = stack[i]
  BY <1>1, ReplaceFacts DEF Pop
<1> QED BY <1>1, <1>2 DEF Top

\* It goes on at another statement.
LEMMA GotoFacts ==
  ASSUME TypeOK, stack # <<>>, NEW at \in Labels, Goto(at)
  PROVE  /\ stack' \in Seq(Activation) /\ Len(stack') = Len(stack) /\ stack' # <<>> /\ Top'.at = at
         /\ \A i \in 1 .. Len(stack) - 1 : stack'[i] = stack[i]
<1>1. [Top EXCEPT !.at = at] \in Activation /\ [Top EXCEPT !.at = at].at = at
  BY TopFacts DEF Activation
<1> QED BY <1>1, ContinueFacts DEF Goto

\* It returns.
LEMMA ReturnFacts ==
  ASSUME TypeOK, stack # <<>>, stack' = Pop
  PROVE  /\ stack' \in Seq(Activation) /\ Len(stack') = Len(stack) - 1
         /\ \A i \in 1 .. Len(stack) - 1 : stack'[i] = stack[i]
BY PopFacts DEF TypeOK, Pop

\* Another call begins.
LEMMA PushFacts ==
  ASSUME TypeOK, NEW e \in Activation, stack' = Append(stack, e)
  PROVE  /\ stack' \in Seq(Activation) /\ Len(stack') = Len(stack) + 1 /\ stack' # <<>> /\ Top' = e
         /\ \A i \in 1 .. Len(stack) : stack'[i] = stack[i]
<1>1. stack \in Seq(Activation) /\ Len(stack) \in Nat
  BY DEF TypeOK
<1>2. /\ stack' \in Seq(Activation) /\ Len(stack') = Len(stack) + 1 /\ stack'[Len(stack) + 1] = e
      /\ \A i \in 1 .. Len(stack) : stack'[i] = stack[i]
  BY <1>1, AppendFacts
<1> QED BY <1>1, <1>2 DEF Top

\* The order of the steps survives a return, ...
LEMMA ReturnInOrder ==
  ASSUME TypeOK, StepsInOrder, stack # <<>>, stack' = Pop
  PROVE  StepsInOrder'
<1>1. Len(stack) \in Nat \ {0} /\ Len(stack') = Len(stack) - 1 /\ stack' \in Seq(Activation)
      /\ \A i \in 1 .. Len(stack) - 1 : stack'[i] = stack[i]
  BY TopFacts, ReturnFacts
<1>2. \A i \in 1 .. Len(stack') : stack'[i].at \notin Undisturbed
  BY <1>1 DEF StepsInOrder
<1>3. stack' # <<>> => Top'.at \notin Undisturbed
  BY <1>1, <1>2 DEF Top
<1> QED BY <1>1, <1>2, <1>3 DEF StepsInOrder

\* ... a new call from one that may be disturbed, ...
LEMMA PushInOrder ==
  ASSUME TypeOK, StepsInOrder, NEW e \in Activation, stack' = Append(stack, e), e.at \notin Undisturbed,
         stack # <<>> => Top.at \notin Undisturbed
  PROVE  StepsInOrder'
<1>1. Len(stack) \in Nat /\ Len(stack') = Len(stack) + 1 /\ Top' = e
      /\ \A i \in 1 .. Len(stack) : stack'[i] = stack[i]
  BY PushFacts DEF TypeOK
<1>2. \A i \in 1 .. Len(stack) : stack[i].at \notin Undisturbed
  BY <1>1 DEF StepsInOrder, Top
<1> QED BY <1>1, <1>2 DEF StepsInOrder

\* ... and a step to a statement that may be disturbed, or that finds what it needs.
LEMMA ContinueInOrder ==
  ASSUME TypeOK, StepsInOrder, stack # <<>>, NEW e \in Activation, stack' = Append(Pop, e),
         e.at \in Undisturbed => vec8' = "old" /\ (e.at \in {"signal", "vector"} => timer_on')
                                 /\ (e.at = "vector" => sigtimr' = "timer_action")
  PROVE  StepsInOrder'
BY ContinueFacts DEF StepsInOrder

\* The distance to the next expiry is at most that of any armed timer, and 0 when none is.
LEMMA NextEventFacts ==
  ASSUME TypeOK
  PROVE  /\ GetNextEvent \in Int
         /\ \A w \in Timers : exp[w] # 0 => GetNextEvent <= exp[w] - u_now
         /\ (\A w \in Timers : exp[w] = 0) => GetNextEvent = 0
         /\ \A w \in Timers : (exp[w] # 0 /\ \A t \in Timers : t # w => exp[t] = 0) => GetNextEvent = exp[w] - u_now
<1> DEFINE armed == {w \in Timers : exp[w] # 0}
           IsFirst(e) == e \in {exp[w] : w \in armed} /\ \A w \in armed : e <= exp[w]
<1>1. exp["REAL"] \in Nat /\ exp["PROF"] \in Nat /\ u_now \in Int
  BY UnitAssumption DEF TypeOK, Timers
<1>2. CASE armed = {}
  <2>1. \A w \in Timers : exp[w] = 0
    BY <1>2
  <2> QED BY <1>2, <2>1 DEF GetNextEvent
<1>3. CASE armed # {}
  <2>1. \E e : IsFirst(e)
    <3>1. CASE armed = {"REAL"} \/ ("REAL" \in armed /\ exp["REAL"] <= exp["PROF"])
      <4>1. IsFirst(exp["REAL"])
        BY <1>1, <3>1 DEF Timers
      <4> QED BY <4>1
    <3>2. CASE armed = {"PROF"} \/ ("PROF" \in armed /\ exp["PROF"] <= exp["REAL"])
      <4>1. IsFirst(exp["PROF"])
        BY <1>1, <3>2 DEF Timers
      <4> QED BY <4>1
    <3>3. armed \subseteq {"REAL", "PROF"} /\ (exp["REAL"] <= exp["PROF"] \/ exp["PROF"] <= exp["REAL"])
      BY <1>1 DEF Timers
    <3>4. armed = {"REAL"} \/ armed = {"PROF"} \/ ("REAL" \in armed /\ "PROF" \in armed)
      BY <1>3, <3>3
    <3> QED BY <3>1, <3>2, <3>3, <3>4
  <2>2. PICK f : IsFirst(f) /\ GetNextEvent = f - u_now
    <3>1. IsFirst(CHOOSE e \in {exp[w] : w \in armed} : \A w \in armed : e <= exp[w])
      BY <2>1
    <3>2. GetNextEvent = (CHOOSE e \in {exp[w] : w \in armed} : \A w \in armed : e <= exp[w]) - u_now
      BY <1>3 DEF GetNextEvent
    <3> QED BY <3>1, <3>2
  <2>3. f \in Nat
    BY <2>2 DEF TypeOK
  <2>4. \A w \in Timers : exp[w] \in Nat
    BY DEF TypeOK
  <2>5. \A w \in Timers : exp[w] # 0 => f <= exp[w]
    BY <2>2
  <2>6. ~(\A w \in Timers : exp[w] = 0)
    BY <1>3
  <2>7. \A w \in Timers : (exp[w] # 0 /\ \A t \in Timers : t # w => exp[t] = 0) => f = exp[w]
    BY <2>2
  <2> QED BY <1>1, <2>2, <2>3, <2>4, <2>5, <2>6, <2>7
<1> QED BY <1>2, <1>3

\* The ticks to skip are a number: a countdown is never negative.
LEMMA TicksFacts == ASSUME NEW next \in Int PROVE TicksToSkip(next) \in Nat
BY UnitAssumption DEF TicksToSkip

\* The clock, with the tick.
LEMMA AdvanceIInv == ASSUME IInv, Advance PROVE IInv'
<1> USE DEF IInv
<1>1. UNCHANGED <<statics, timer_on, vec8, sigtimr, alive, stack, due, rearmed>> /\ now' \in 0..MaxTime /\ busy' \in Nat
  BY UnitAssumption DEF Advance, TypeOK
<1>2. countdown' \in Nat /\ forced' \in BOOLEAN /\ (forced' => forced \/ vec8 = "ours")
  <2>1. CASE UNCHANGED <<countdown, forced>>
    BY <2>1 DEF TypeOK
  <2>2. CASE vec8 = "ours" /\ timer_hdlr
    <3>1. countdown \in Nat /\ forced \in BOOLEAN
      BY DEF TypeOK
    <3>2. CASE countdown = 0
      BY <2>2, <3>1, <3>2 DEF timer_hdlr
    <3>3. CASE countdown # 0
      BY <2>2, <3>1, <3>3 DEF timer_hdlr
    <3> QED BY <3>2, <3>3
  <2> QED BY <2>1, <2>2 DEF Advance
<1>3. TypeOK'
  BY <1>1, <1>2 DEF TypeOK, statics
<1> QED BY <1>1, <1>2, <1>3 DEF NeverKilled, TickHasItsHandler, PostedByOurTick, StepsInOrder, Top

\* SIGTIMR is delivered to timer_action: the tick that posted it is still ours.
LEMMA DeliverIInv == ASSUME IInv, Deliver PROVE IInv'
<1> USE DEF IInv
<1>1. vec8 = "ours" /\ sigtimr = "timer_action"
  BY DEF Deliver, PostedByOurTick, TickHasItsHandler
<1>2. stack' = Append(stack, Call("timer_action", "clock")) /\ UNCHANGED <<now, statics, irq, busy, due, rearmed, alive>> /\ forced' = FALSE
  BY <1>1 DEF Deliver
<1>3. Call("timer_action", "clock") \in Activation /\ Call("timer_action", "clock").at \notin Undisturbed
  BY CallFacts DEF Labels, Undisturbed
<1>4. StepsInOrder'
  BY <1>1, <1>2, <1>3, PushInOrder DEF StepsInOrder
<1>5. TypeOK'
  <2>1. stack' \in Seq(Activation) /\ Len(stack') <= MaxNest
    BY <1>2, <1>3, PushFacts, UnitAssumption DEF Deliver, TypeOK
  <2> QED BY <1>2, <2>1 DEF TypeOK, statics, irq
<1> QED BY <1>2, <1>4, <1>5 DEF NeverKilled, TickHasItsHandler, PostedByOurTick, irq

\* start_timer, and what timer_action shares with it.
LEMMA StartIInv == ASSUME IInv, Next_ \/ Count \/ Hook \/ HookSignal \/ HookVector PROVE IInv'
<1> USE DEF IInv
<1>1. stack # <<>> /\ ~forced /\ UNCHANGED <<now, statics, forced, alive, busy, due, rearmed>>
  BY DEF Next_, Count, Hook, HookSignal, HookVector, At
<1>2. Top \in Activation
  BY <1>1, TopFacts
<1>3. CASE Next_
  <2>1. PICK at \in {"stop", "count"} : stack' = Append(Pop, [Top EXCEPT !.next = GetNextEvent, !.at = at])
    BY <1>3 DEF Next_
  <2>2. [Top EXCEPT !.next = GetNextEvent, !.at = at] \in Activation /\ [Top EXCEPT !.next = GetNextEvent, !.at = at].at = at
    BY <1>2, NextEventFacts DEF Activation, Labels
  <2>3. StepsInOrder' /\ stack' \in Seq(Activation) /\ Len(stack') = Len(stack)
    BY <1>1, <2>1, <2>2, ContinueInOrder, ContinueFacts DEF Undisturbed
  <2> QED BY <1>1, <1>3, <2>3 DEF Next_, TypeOK, NeverKilled, TickHasItsHandler, PostedByOurTick, statics, irq
<1>4. CASE Count
  <2>1. PICK at \in {"raise", "hook"} : Goto(at)
    BY <1>4 DEF Count
  <2>2. at \in Labels /\ at \notin Undisturbed
    BY DEF Labels, Undisturbed
  <2>3. StepsInOrder' /\ stack' \in Seq(Activation) /\ Len(stack') = Len(stack)
    BY <1>1, <2>1, <2>2, GotoFacts DEF StepsInOrder
  <2>4. countdown' \in Nat
    BY <1>2, <1>4, TicksFacts DEF Count, Activation
  <2> QED BY <1>1, <1>4, <2>3, <2>4 DEF Count, TypeOK, NeverKilled, TickHasItsHandler, PostedByOurTick, statics
<1>5. CASE Hook
  <2>1. timer_on' = TRUE /\ UNCHANGED <<countdown, vec8, sigtimr>>
    BY <1>5 DEF Hook
  <2>2. StepsInOrder' /\ stack' \in Seq(Activation) /\ Len(stack') <= MaxNest
    <3>1. CASE timer_on
      BY <1>1, <1>5, <3>1, ReturnInOrder, ReturnFacts, UnitAssumption, TopFacts DEF Hook, TypeOK
    <3>2. CASE ~timer_on
      <4>1. Goto("signal") /\ vec8 = "old"
        BY <1>5, <3>2 DEF Hook, TickHasItsHandler, TypeOK
      <4> QED BY <1>1, <2>1, <4>1, GotoFacts DEF StepsInOrder, Labels, TypeOK
    <3> QED BY <3>1, <3>2
  <2> QED BY <1>1, <2>1, <2>2 DEF TypeOK, NeverKilled, TickHasItsHandler, PostedByOurTick, statics
<1>6. CASE HookSignal
  <2>1. Goto("vector") /\ sigtimr' = "timer_action" /\ UNCHANGED <<countdown, timer_on, vec8>> /\ vec8 = "old" /\ timer_on
    BY <1>1, <1>6 DEF HookSignal, At, StepsInOrder, Undisturbed
  <2>2. StepsInOrder' /\ stack' \in Seq(Activation) /\ Len(stack') = Len(stack)
    BY <1>1, <2>1, GotoFacts DEF StepsInOrder, Labels
  <2> QED BY <1>1, <2>1, <2>2 DEF TypeOK, NeverKilled, TickHasItsHandler, PostedByOurTick, statics
<1>7. CASE HookVector
  <2>1. stack' = Pop /\ vec8' = "ours" /\ UNCHANGED <<countdown, timer_on, sigtimr>> /\ sigtimr = "timer_action" /\ timer_on
    BY <1>1, <1>7 DEF HookVector, At, StepsInOrder, Undisturbed
  <2>2. StepsInOrder' /\ stack' \in Seq(Activation) /\ Len(stack') <= MaxNest
    BY <1>1, <2>1, ReturnInOrder, ReturnFacts, UnitAssumption, TopFacts DEF TypeOK
  <2> QED BY <1>1, <2>1, <2>2 DEF TypeOK, NeverKilled, TickHasItsHandler, PostedByOurTick, statics
<1> QED BY <1>3, <1>4, <1>5, <1>6, <1>7

\* stop_timer.
LEMMA StopIInv == ASSUME IInv, StopTest \/ StopCount \/ StopVector \/ StopFlag \/ StopSignal PROVE IInv'
<1> USE DEF IInv
<1>1. stack # <<>> /\ ~forced /\ UNCHANGED <<now, statics, forced, alive, busy, due, rearmed>>
  BY DEF StopTest, StopCount, StopVector, StopFlag, StopSignal, At
<1>2. CASE StopTest \/ StopCount
  <2>1. UNCHANGED <<timer_on, vec8, sigtimr>> /\ countdown' \in Nat
    BY <1>2 DEF StopTest, StopCount, irq, TypeOK, Minus1
  <2>2. PICK at \in {"minus1", "raise", "interval", "unhook"} : Goto(at)
    BY <1>2 DEF StopTest, StopCount
  <2>3. at \in Labels /\ at \notin Undisturbed
    BY DEF Labels, Undisturbed
  <2>4. StepsInOrder' /\ stack' \in Seq(Activation) /\ Len(stack') = Len(stack)
    BY <1>1, <2>2, <2>3, GotoFacts DEF StepsInOrder
  <2> QED BY <1>1, <2>1, <2>4 DEF TypeOK, NeverKilled, TickHasItsHandler, PostedByOurTick, statics
<1>3. CASE StopVector
  <2>1. Goto("off") /\ vec8' = "old" /\ UNCHANGED <<countdown, timer_on, sigtimr>>
    BY <1>3 DEF StopVector
  <2>2. StepsInOrder' /\ stack' \in Seq(Activation) /\ Len(stack') = Len(stack)
    BY <1>1, <2>1, GotoFacts DEF StepsInOrder, Labels
  <2> QED BY <1>1, <2>1, <2>2 DEF TypeOK, NeverKilled, TickHasItsHandler, PostedByOurTick, statics
<1>4. CASE StopFlag
  <2>1. Goto("default") /\ timer_on' = FALSE /\ UNCHANGED <<countdown, vec8, sigtimr>> /\ vec8 = "old"
    BY <1>1, <1>4 DEF StopFlag, At, StepsInOrder, Undisturbed
  <2>2. StepsInOrder' /\ stack' \in Seq(Activation) /\ Len(stack') = Len(stack)
    BY <1>1, <2>1, GotoFacts DEF StepsInOrder, Labels
  <2> QED BY <1>1, <2>1, <2>2 DEF TypeOK, NeverKilled, TickHasItsHandler, PostedByOurTick, statics
<1>5. CASE StopSignal
  <2>1. sigtimr' = "SIG_DFL" /\ UNCHANGED <<countdown, timer_on, vec8>> /\ vec8 = "old"
    BY <1>1, <1>5 DEF StopSignal, At, StepsInOrder, Undisturbed
  <2>2. PICK at \in {"raise", "interval"} : Goto(at)
    BY <1>5 DEF StopSignal
  <2>3. at \in Labels /\ at \notin Undisturbed
    BY DEF Labels, Undisturbed
  <2>4. StepsInOrder' /\ stack' \in Seq(Activation) /\ Len(stack') = Len(stack)
    BY <1>1, <2>2, <2>3, GotoFacts DEF StepsInOrder
  <2> QED BY <1>1, <2>1, <2>4 DEF TypeOK, NeverKilled, TickHasItsHandler, PostedByOurTick, statics
<1> QED BY <1>2, <1>3, <1>4, <1>5

\* Steps that leave the tick, its signal and the request alone.
LEMMA ApartIInv ==
  ASSUME IInv, UNCHANGED <<now, irq, forced, alive, busy>>, u_now' \in 0..MaxTime, rearmed' \in 0..MaxRearm,
         exp' \in [Timers -> Nat], rel' \in [Timers -> Nat], due' \in [Timers -> Nat],
         stack' \in Seq(Activation), Len(stack') <= MaxNest, StepsInOrder'
  PROVE  IInv'
BY DEF IInv, TypeOK, NeverKilled, TickHasItsHandler, PostedByOurTick, irq

\* timer_action and the handlers it raises.
LEMMA ActionIInv == ASSUME IInv, ActionClock \/ (\E w \in Timers : Check(w)) \/ Raise \/ HandlerReturn PROVE IInv'
<1> USE DEF IInv
<1>1. stack # <<>> /\ UNCHANGED <<now, rel, irq, forced, alive, busy, rearmed>> /\ Len(stack) \in Nat /\ MaxNest \in Nat
  <2>1. stack # <<>>
    BY DEF ActionClock, Check, Raise, HandlerReturn, At
  <2>2. UNCHANGED <<now, rel, irq, forced, alive, busy, rearmed>>
    BY DEF ActionClock, Check, Raise, HandlerReturn, statics
  <2> QED BY <2>1, <2>2, UnitAssumption DEF TypeOK
<1>2. Top \in Activation
  BY <1>1, TopFacts
<1>3. u_now' \in 0..MaxTime /\ rearmed' \in 0..MaxRearm /\ rel' \in [Timers -> Nat]
  <2>1. u_now' = u_now \/ u_now' = now
    BY DEF ActionClock, Check, Raise, HandlerReturn, statics
  <2> QED BY <1>1, <2>1 DEF TypeOK
<1>4. exp' \in [Timers -> Nat] /\ due' \in [Timers -> Nat]
  <2>1. CASE UNCHANGED <<exp, due>>
    BY <2>1 DEF TypeOK
  <2>2. ASSUME NEW w \in Timers, Check(w) PROVE exp' \in [Timers -> Nat] /\ due' \in [Timers -> Nat]
    <3>1. exp[w] \in Nat /\ rel[w] \in Nat /\ due[w] \in Nat /\ exp \in [Timers -> Nat] /\ due \in [Timers -> Nat]
      BY DEF TypeOK
    <3>2. ReloadOrDisarm(w) \in Nat
      BY <3>1 DEF ReloadOrDisarm
    <3>3. exp' \in [Timers -> Nat]
      BY <2>2, <3>1, <3>2 DEF Check
    <3>4. due' = due \/ due' = [due EXCEPT ![w] = @ + rel[w]] \/ due' = [due EXCEPT ![w] = 0]
      BY <2>2, Zenon DEF Check
    <3>5. due' \in [Timers -> Nat]
      BY <3>1, <3>4
    <3> QED BY <3>3, <3>5
  <2> QED BY <2>1, <2>2 DEF ActionClock, Raise, HandlerReturn, statics
<1>5. ASSUME stack' = Pop PROVE StepsInOrder' /\ stack' \in Seq(Activation) /\ Len(stack') <= MaxNest
  BY <1>1, <1>5, ReturnInOrder, ReturnFacts DEF TypeOK
<1>6. ASSUME NEW e \in Activation, stack' = Append(Pop, e), e.at \notin Undisturbed
      PROVE  StepsInOrder' /\ stack' \in Seq(Activation) /\ Len(stack') <= MaxNest
  BY <1>1, <1>6, ContinueInOrder, ContinueFacts DEF TypeOK
<1>7. StepsInOrder' /\ stack' \in Seq(Activation) /\ Len(stack') <= MaxNest
  <2>1. CASE ActionClock
    <3>1. [Top EXCEPT !.at = "REAL"] \in Activation /\ [Top EXCEPT !.at = "REAL"].at \notin Undisturbed
      BY <1>2 DEF Activation, Labels, Undisturbed
    <3> QED BY <1>6, <2>1, <3>1 DEF ActionClock, Goto
  <2>2. ASSUME NEW w \in Timers, Check(w) PROVE StepsInOrder' /\ stack' \in Seq(Activation) /\ Len(stack') <= MaxNest
    <3> DEFINE do == IF Expired(w) THEN Top.do \union {w} ELSE Top.do
               e(at) == [Top EXCEPT !.at = at, !.do = do]
    <3>1. do \in SUBSET Timers
      BY <1>2 DEF Activation
    <3>2. \A at \in {"PROF", "next"} : e(at) \in Activation /\ e(at).at \notin Undisturbed
      <4> HIDE DEF do
      <4> QED BY <1>2, <3>1 DEF Activation, Labels, Undisturbed
    <3>3. stack' = Append(Pop, e("PROF")) \/ stack' = Append(Pop, e("next")) \/ stack' = Pop
      BY <2>2 DEF Check
    <3> QED BY <1>5, <1>6, <3>2, <3>3
  <2>3. CASE HandlerReturn
    BY <1>5, <2>3 DEF HandlerReturn
  <2>4. CASE Raise /\ Top.do = {}
    BY <1>5, <2>4 DEF Raise
  <2>5. CASE Raise /\ Top.do # {}
    <3>1. PICK w : stack' = Append(Append(Pop, [Top EXCEPT !.do = @ \ {w}]), Call("handler", "body"))
      BY <2>5 DEF Raise
    <3> DEFINE e == [Top EXCEPT !.do = @ \ {w}]
               mid == Append(Pop, e)
    <3>2. e \in Activation /\ e.at = "raise"
      BY <1>2, <2>5 DEF Raise, At, Activation
    <3>3. /\ mid \in Seq(Activation) /\ Len(mid) = Len(stack) /\ mid[Len(stack)] = e
          /\ \A i \in 1 .. Len(stack) - 1 : mid[i] = stack[i]
      BY <1>1, <3>2, ReplaceFacts DEF Pop, TypeOK
    <3>4. Call("handler", "body") \in Activation /\ Call("handler", "body").at = "body"
      BY CallFacts DEF Labels
    <3>5. stack' = Append(mid, Call("handler", "body"))
      BY <3>1
    <3> HIDE DEF mid, e
    <3>6. /\ stack' \in Seq(Activation) /\ Len(stack') = Len(stack) + 1 /\ stack'[Len(stack) + 1].at = "body"
          /\ \A i \in 1 .. Len(stack) : stack'[i] = mid[i]
      BY <3>3, <3>4, <3>5, AppendFacts
    <3>7. \A i \in 1 .. Len(stack) : mid[i].at \notin Undisturbed
      BY <1>1, <3>2, <3>3 DEF StepsInOrder, Undisturbed
    <3>8. StepsInOrder'
      BY <1>1, <3>6, <3>7 DEF StepsInOrder, Top, Undisturbed
    <3> QED BY <1>1, <2>5, <3>6, <3>8 DEF Raise
  <2> QED BY <2>1, <2>2, <2>3, <2>4, <2>5
<1> QED BY <1>1, <1>3, <1>4, <1>7, ApartIInv

\* setitimer and getitimer.
LEMMA SetIInv == ASSUME IInv, setitimer \/ Disarm \/ SetInterval \/ SetValue \/ SetOrigin \/ getitimer PROVE IInv'
<1> USE DEF IInv
<1>1. UNCHANGED <<now, irq, forced, alive, busy>>
  BY DEF setitimer, Disarm, SetInterval, SetValue, SetOrigin, getitimer, statics
<1>2. exp \in [Timers -> Nat] /\ rel \in [Timers -> Nat] /\ due \in [Timers -> Nat] /\ now \in 0..MaxTime /\ u_now \in 0..MaxTime
      /\ rearmed \in 0..MaxRearm /\ stack \in Seq(Activation) /\ Len(stack) \in Nat /\ Len(stack) <= MaxNest /\ MaxNest \in Nat
      /\ MaxTime \in Nat
  BY UnitAssumption DEF TypeOK
<1>3. CASE getitimer
  <2>1. StepsInOrder'
    BY <1>3 DEF getitimer, irq, StepsInOrder, Top
  <2> QED BY <1>1, <1>2, <1>3, <2>1, ApartIInv DEF getitimer
<1>4. CASE setitimer
  <2>1. PICK w \in Timers, v \in Values, i \in Intervals :
          /\ rearmed' = (IF v # 0 /\ \E t \in Timers : exp[t] # 0 THEN rearmed + 1 ELSE rearmed) /\ rearmed' <= MaxRearm
          /\ stack' = Append(stack, [Call("setitimer", IF v = 0 THEN "disarm" ELSE "interval") EXCEPT
                                        !.which = w, !.val = RoundUp(v), !.int = RoundUp(i)])
    BY <1>4 DEF setitimer
  <2> DEFINE e == [Call("setitimer", IF v = 0 THEN "disarm" ELSE "interval") EXCEPT
                     !.which = w, !.val = RoundUp(v), !.int = RoundUp(i)]
  <2>2. RoundUp(v) \in Nat /\ RoundUp(i) \in Nat
    BY UnitAssumption, ArgAssumption DEF RoundUp
  <2>3. e \in Activation /\ e.at \notin Undisturbed
    <3> DEFINE at == IF v = 0 THEN "disarm" ELSE "interval"
               c == Call("setitimer", at)
    <3>1. at \in Labels /\ at \notin Undisturbed
      BY DEF Labels, Undisturbed
    <3> HIDE DEF at
    <3>2. c \in Activation /\ c.at = at
      BY <3>1, CallFacts
    <3> HIDE DEF c
    <3>3. \A w2 \in Timers, v2 \in Nat, i2 \in Nat :
            LET d == [c EXCEPT !.which = w2, !.val = v2, !.int = i2] IN d \in Activation /\ d.at = at
      BY <3>2 DEF Activation
    <3> QED BY <2>2, <3>1, <3>3 DEF c, at
  <2>4. stack' = Append(stack, e) /\ Len(stack) < MaxNest /\ (stack # <<>> => Top.at = "body")
    BY <1>4, <2>1 DEF setitimer, User
  <2> HIDE DEF e
  <2>5. StepsInOrder' /\ stack' \in Seq(Activation) /\ Len(stack') <= MaxNest
    BY <1>2, <2>3, <2>4, PushInOrder, PushFacts DEF Undisturbed
  <2>6. rearmed' \in 0..MaxRearm
    BY <1>2, <2>1, ArgAssumption
  <2> QED BY <1>1, <1>2, <1>4, <2>5, <2>6, ApartIInv DEF setitimer
<1>5. CASE Disarm \/ SetInterval \/ SetValue \/ SetOrigin
  <2>1. stack # <<>> /\ Top \in Activation /\ UNCHANGED <<u_now, rearmed>>
    BY <1>5, TopFacts DEF Disarm, SetInterval, SetValue, SetOrigin, At
  <2>2. Top.which \in Timers /\ Top.val \in Nat /\ Top.int \in Nat
    BY <2>1 DEF Activation
  <2>3. exp' \in [Timers -> Nat] /\ rel' \in [Timers -> Nat] /\ due' \in [Timers -> Nat]
    <3>1. CASE Disarm
      BY <1>2, <2>2, <3>1 DEF Disarm
    <3>2. CASE SetInterval
      BY <1>2, <2>2, <3>2 DEF SetInterval
    <3>3. CASE SetValue
      BY <1>2, <2>2, <3>3 DEF SetValue
    <3>4. CASE SetOrigin
      BY <1>2, <2>2, <3>4 DEF SetOrigin
    <3> QED BY <1>5, <3>1, <3>2, <3>3, <3>4
  <2>4. stack' = Pop \/ \E at \in {"stop", "interval", "value", "origin", "next"} : Goto(at)
    BY <1>5, Zenon DEF Disarm, SetInterval, SetValue, SetOrigin
  <2>5. ASSUME NEW at \in {"stop", "interval", "value", "origin", "next"}, Goto(at)
        PROVE  StepsInOrder' /\ stack' \in Seq(Activation) /\ Len(stack') <= MaxNest
    <3>1. at \in Labels /\ at \notin Undisturbed
      BY DEF Labels, Undisturbed
    <3> QED BY <1>2, <2>1, <2>5, <3>1, GotoFacts DEF StepsInOrder
  <2>6. ASSUME stack' = Pop PROVE StepsInOrder' /\ stack' \in Seq(Activation) /\ Len(stack') <= MaxNest
    BY <1>2, <2>1, <2>6, ReturnInOrder, ReturnFacts
  <2>7. StepsInOrder' /\ stack' \in Seq(Activation) /\ Len(stack') <= MaxNest
    BY <2>4, <2>5, <2>6
  <2> QED BY <1>1, <1>2, <2>1, <2>3, <2>7, ApartIInv
<1> QED BY <1>3, <1>4, <1>5

\* Every step keeps the invariant.
LEMMA NextIInv == ASSUME IInv, [Next]_vars PROVE IInv'
<1>1. CASE UNCHANGED vars
  BY <1>1 DEF IInv, TypeOK, NeverKilled, TickHasItsHandler, PostedByOurTick, StepsInOrder, Top, vars, statics, irq
<1> QED
  BY <1>1, AdvanceIInv, DeliverIInv, StartIInv, StopIInv, ActionIInv, SetIInv DEF Next

\* The inductive invariant holds at every step.
THEOREM Invariance == Spec => []IInv
<1>1. IInv /\ [Next]_vars => IInv'
  BY NextIInv
<1> QED BY <1>1, InitIInv, PTL DEF Spec

\* Every variable keeps its type; the countdown, an unsigned number in the code, is never
\* decremented below 0 (exceptn.S ___djgpp_timer_hdlr tests it first).
THEOREM TypeCorrect == Spec => []TypeOK
<1>1. IInv => TypeOK
  BY DEF IInv
<1> QED BY <1>1, Invariance, PTL

\* SIGTIMR never meets its default action, however ticks, expiries and calls of setitimer
\* in handlers interleave with start_timer and stop_timer (itimer.c): the tick is hooked
\* after the signal, and given back before it.
THEOREM TimerNeverKills == Spec => []NeverKilled
<1>1. IInv => NeverKilled
  BY DEF IInv
<1> QED BY <1>1, Invariance, PTL
-----------------------------------------------------------------------------
(* The times of the timers, as long as they are set only when none is running. *)

\* The statements each function may be at.
StopLabels == {"stop", "minus1", "unhook", "off", "default"}
StartLabels == {"hook", "signal", "vector"}
ActionLabels == {"clock", "REAL", "PROF", "next", "count", "raise"} \union StopLabels
ArmLabels == {"interval", "value", "origin", "next", "count"} \union StartLabels
DisarmLabels == {"disarm", "interval"} \union StopLabels

\* A call of setitimer that arms a timer.
Arming(f) == f.op = "setitimer" /\ f.val # 0

CallFits(f) ==
  /\ f.op = "handler" => f.at = "body"
  /\ f.op = "timer_action" => f.at \in ActionLabels
  /\ f.op = "setitimer" /\ f.val # 0 => f.at \in ArmLabels
  /\ f.op = "setitimer" /\ f.val = 0 => f.at \in DisarmLabels

CallsFit == \A i \in 1 .. Len(stack) : CallFits(stack[i])

\* The flag, the signal and the vector agree outside the statements that change them.
FlagsAgree ==
  /\ stack = <<>> \/ Top.at \notin Undisturbed => /\ timer_on <=> vec8 = "ours"
                                                  /\ sigtimr = "timer_action" <=> vec8 = "ours"
  /\ stack # <<>> /\ Top.at = "default" => ~timer_on

\* When the program last had no call in progress.
Since == now - busy

\* The clock was read since then by every call but a timer_action that begins.
ClockIsRead ==
  /\ u_now <= now /\ busy <= MaxSlip /\ busy <= now
  /\ \A i \in 1 .. Len(stack) : stack[i].at # "clock" => Since <= u_now

\* A call that arms a timer is alone with it: no tick comes before it is done, and no other
\* timer is armed.
AloneWithIt ==
  /\ vec8 = "old"
  /\ \A w \in Timers : w # Top.which \/ Top.at \in {"interval", "value"} => exp[w] = 0 /\ due[w] = 0
  /\ Top.at \notin {"interval", "value"} => exp[Top.which] # 0 /\ due[Top.which] = u_now + Top.val
  /\ Top.at = "origin" => exp[Top.which] = Top.val
  /\ Top.at \notin {"interval", "value", "origin"} => exp[Top.which] = due[Top.which]
  /\ Top.at \in {"count"} \union StartLabels => Top.next = Top.val
  /\ Top.at \in StartLabels => countdown = TicksToSkip(Top.next)
ArmsAlone ==
  /\ \A i \in 1 .. Len(stack) - 1 : ~Arming(stack[i])
  /\ stack # <<>> /\ Arming(Top) => AloneWithIt

\* A timer expires when it was asked to, but for the call that is about to say so.
AsAsked == stack = <<>> \/ ~Arming(Top) => exp = due

\* When no timer is armed and the tick is still ours, a call is about to give it back, and
\* only a timer_action that finds nothing to do comes before it.
StopsTheTick(f) ==
  \/ f.at \in {"stop", "minus1", "unhook"}
  \/ f.op = "timer_action" /\ (f.at = "next" \/ (f.at = "PROF" /\ f.do # {}))
FindsNothing(f) == f.op = "timer_action" /\ f.at \in {"clock", "REAL", "PROF"} /\ f.do = {}
NoneArmed == \A w \in Timers : exp[w] = 0
TickIsStopped ==
  NoneArmed /\ vec8 = "ours" =>
    \E j \in 1 .. Len(stack) : StopsTheTick(stack[j]) /\ \A i \in j + 1 .. Len(stack) : FindsNothing(stack[i])

\* What a call is going to store in the countdown is not too much for any timer, also for
\* those that were set in a handler above it.
CountsAreEarly ==
  \A i \in 1 .. Len(stack) : stack[i].at = "count" =>
    /\ \A w \in Timers : due[w] # 0 => stack[i].next + Since <= due[w]
    /\ \A k \in i + 1 .. Len(stack) : ~FindsNothing(stack[k]) => stack[i].next + Since <= u_now

\* The tick that posts comes in time for every timer.
PostsInTime ==
  vec8 = "ours" /\ (\A i \in 1 .. Len(stack) : stack[i].at # "unhook") =>
    \A w \in Timers : due[w] # 0 => countdown = 0 \/ PostTime <= due[w] + MaxSlip

Calls == CallsFit /\ FlagsAgree /\ ClockIsRead
Once == ArmsAlone /\ AsAsked /\ TickIsStopped /\ CountsAreEarly /\ PostsInTime
TInv == Calls /\ (rearmed = 0 => Once)

\* The calls up to the n-th are as they were.
Kept(n) ==
  /\ n \in Nat /\ Len(stack) \in Nat /\ Len(stack') \in Nat /\ n <= Len(stack) /\ n <= Len(stack')
  /\ \A i \in 1 .. n : stack'[i] = stack[i]

\* The innermost call goes on, ...
LEMMA MoveKept ==
  ASSUME TypeOK, stack # <<>>, NEW e \in Activation, stack' = Append(Pop, e)
  PROVE  Kept(Len(stack) - 1) /\ Len(stack') = Len(stack) /\ Len(stack) \in Nat \ {0} /\ stack' # <<>> /\ Top' = e
BY TopFacts, ContinueFacts DEF Kept

\* ... at another statement, ...
LEMMA GotoKept ==
  ASSUME TypeOK, stack # <<>>, NEW at \in Labels, Goto(at)
  PROVE  /\ Kept(Len(stack) - 1) /\ Len(stack') = Len(stack) /\ Len(stack) \in Nat \ {0} /\ stack' # <<>>
         /\ Top'.at = at /\ Top'.op = Top.op /\ Top'.which = Top.which /\ Top'.val = Top.val
         /\ Top'.int = Top.int /\ Top'.next = Top.next /\ Top'.do = Top.do
<1> DEFINE e == [Top EXCEPT !.at = at]
<1>1. /\ e \in Activation /\ e.at = at /\ e.op = Top.op /\ e.which = Top.which /\ e.val = Top.val
      /\ e.int = Top.int /\ e.next = Top.next /\ e.do = Top.do
  BY TopFacts DEF Activation
<1>2. stack' = Append(Pop, e)
  BY DEF Goto
<1> HIDE DEF e
<1> QED BY <1>1, <1>2, MoveKept

\* ... returns, ...
LEMMA ReturnKept ==
  ASSUME TypeOK, stack # <<>>, stack' = Pop
  PROVE  Kept(Len(stack) - 1) /\ Len(stack') = Len(stack) - 1 /\ Len(stack) \in Nat \ {0}
         /\ (stack' # <<>> => Top' = stack[Len(stack) - 1] /\ Len(stack) - 1 \in 1 .. Len(stack))
<1>1. /\ stack' \in Seq(Activation) /\ Len(stack') = Len(stack) - 1 /\ Len(stack) \in Nat \ {0}
      /\ \A i \in 1 .. Len(stack) - 1 : stack'[i] = stack[i]
  BY TopFacts, ReturnFacts
<1>2. stack' # <<>> => Len(stack') \in 1 .. Len(stack) - 1
  BY <1>1
<1> QED BY <1>1, <1>2 DEF Kept, Top

\* ... or calls.
LEMMA PushKept ==
  ASSUME TypeOK, NEW e \in Activation, stack' = Append(stack, e)
  PROVE  Kept(Len(stack)) /\ Len(stack') = Len(stack) + 1 /\ Len(stack) \in Nat /\ stack' # <<>> /\ Top' = e
BY PushFacts DEF Kept, TypeOK

\* The parts of the invariant, when the calls above the n-th change.
LEMMA KeepFits ==
  ASSUME NEW n, Kept(n), CallsFit, \A k \in n + 1 .. Len(stack') : CallFits(stack'[k])
  PROVE  CallsFit'
BY DEF Kept, CallsFit, CallFits

\* The clock stays read for the calls below the n-th.
LEMMA KeepRead ==
  ASSUME TypeOK, NEW n, Kept(n), ClockIsRead, UNCHANGED <<now, busy>>, u_now' = u_now \/ u_now' = now,
         \A k \in n + 1 .. Len(stack') : stack'[k].at = "clock" \/ Since <= u_now'
  PROVE  ClockIsRead'
<1>1. now \in Nat /\ u_now \in Nat /\ busy \in Nat /\ u_now <= now
  BY UnitAssumption DEF TypeOK, ClockIsRead
<1>2. Since' = Since /\ Since \in Int /\ u_now' \in Nat /\ u_now <= u_now' /\ u_now' <= now'
  BY <1>1 DEF Since
<1>3. ASSUME NEW i \in 1 .. Len(stack'), stack'[i].at # "clock" PROVE Since <= u_now'
  <2>1. CASE i <= n
    <3>1. i \in 1 .. Len(stack) /\ stack'[i] = stack[i]
      BY <2>1 DEF Kept
    <3>2. Since <= u_now
      BY <1>3, <3>1 DEF ClockIsRead
    <3> QED BY <1>1, <1>2, <3>2
  <2>2. CASE ~(i <= n)
    BY <1>3, <2>2 DEF Kept
  <2> QED BY <2>1, <2>2
<1> QED BY <1>1, <1>2, <1>3 DEF ClockIsRead

\* What the innermost call knows.
LEMMA TopCalls ==
  ASSUME TypeOK, Calls, stack # <<>>
  PROVE  Top \in Activation /\ CallFits(Top) /\ (Top.at # "clock" => Since <= u_now) /\ Since <= now
<1>1. Top \in Activation /\ Len(stack) \in 1 .. Len(stack)
  BY TopFacts
<1>2. Since <= now
  BY UnitAssumption DEF TypeOK, Since
<1> QED BY <1>1, <1>2 DEF Calls, CallsFit, ClockIsRead, Top

\* One statement of a call, the next one being at the label, keeps the calls' order.
LEMMA GotoCalls ==
  ASSUME TypeOK, Calls, stack # <<>>, NEW at \in Labels, Goto(at), Top.at # "clock", at # "clock",
         UNCHANGED <<now, busy, u_now>>,
         Top.op = "handler" => at = "body",
         Top.op = "timer_action" => at \in ActionLabels,
         Top.op = "setitimer" /\ Top.val # 0 => at \in ArmLabels,
         Top.op = "setitimer" /\ Top.val = 0 => at \in DisarmLabels
  PROVE  CallsFit' /\ ClockIsRead'
<1>1. /\ Kept(Len(stack) - 1) /\ Len(stack') = Len(stack) /\ Len(stack) \in Nat \ {0}
      /\ Top'.at = at /\ Top'.op = Top.op /\ Top'.val = Top.val
  BY GotoKept
<1>2. CallFits(Top')
  BY <1>1 DEF CallFits
<1>3. \A k \in Len(stack) - 1 + 1 .. Len(stack') : stack'[k] = Top'
  BY <1>1 DEF Top
<1>4. Since <= u_now'
  BY TopCalls
<1>5. CallsFit'
  BY <1>1, <1>2, <1>3, KeepFits DEF Calls
<1>6. ClockIsRead'
  BY <1>1, <1>3, <1>4, KeepRead DEF Calls
<1> QED BY <1>5, <1>6

\* A return keeps it.
LEMMA ReturnCalls ==
  ASSUME TypeOK, Calls, stack # <<>>, stack' = Pop, UNCHANGED <<now, busy, u_now>>
  PROVE  CallsFit' /\ ClockIsRead'
<1>1. Kept(Len(stack) - 1) /\ Len(stack') = Len(stack) - 1 /\ Len(stack) \in Nat \ {0}
  BY ReturnKept
<1>2. \A k \in Len(stack) - 1 + 1 .. Len(stack') : FALSE
  BY <1>1
<1> QED BY <1>1, <1>2, KeepFits, KeepRead DEF Calls
\* Every step keeps the calls' order, the flags and the reading of the clock.
LEMMA AdvanceCalls == ASSUME IInv, Calls, Advance PROVE Calls'
<1>1. UNCHANGED <<u_now, timer_on, vec8, sigtimr, stack>> /\ now' = now + 1 /\ now \in Nat /\ busy \in Nat /\ u_now \in Nat /\ MaxSlip \in Nat
  BY UnitAssumption DEF Advance, IInv, TypeOK, statics
<1>2. CallsFit' /\ FlagsAgree'
  BY <1>1 DEF Calls, CallsFit, FlagsAgree, Top
<1>3. CASE stack # <<>> \/ forced
  <2>1. busy' = busy + 1 /\ busy < MaxSlip
    BY <1>3 DEF Advance
  <2>2. Since' = Since
    BY <1>1, <2>1 DEF Since
  <2> QED BY <1>1, <1>2, <2>1, <2>2 DEF Calls, ClockIsRead
<1>4. CASE ~(stack # <<>> \/ forced)
  <2>1. busy' = 0 /\ stack' = <<>>
    BY <1>1, <1>4 DEF Advance
  <2> QED BY <1>1, <1>2, <2>1 DEF Calls, ClockIsRead
<1> QED BY <1>3, <1>4

\* timer_action begins.
LEMMA DeliverCalls == ASSUME IInv, Calls, Deliver PROVE Calls'
<1> DEFINE e == Call("timer_action", "clock")
<1>1. vec8 = "ours" /\ sigtimr = "timer_action" /\ timer_on /\ stack' = Append(stack, e) /\ UNCHANGED <<now, u_now, irq, busy>>
  BY DEF Deliver, IInv, PostedByOurTick, TickHasItsHandler, statics
<1>2. e \in Activation /\ e.at = "clock" /\ CallFits(e)
  BY CallFacts DEF Labels, CallFits, Call, ActionLabels
<1>3. TypeOK
  BY DEF IInv
<1> HIDE DEF e
<1>4. Kept(Len(stack)) /\ Len(stack') = Len(stack) + 1 /\ Len(stack) \in Nat /\ stack' # <<>> /\ Top' = e
  BY <1>1, <1>2, <1>3, PushKept
<1>5. \A k \in Len(stack) + 1 .. Len(stack') : stack'[k] = e
  BY <1>4 DEF Top
<1>6. CallsFit'
  BY <1>2, <1>4, <1>5, KeepFits DEF Calls
<1>7. ClockIsRead'
  BY <1>1, <1>2, <1>3, <1>4, <1>5, KeepRead DEF Calls
<1>8. FlagsAgree'
  BY <1>1, <1>2, <1>4 DEF FlagsAgree, irq
<1> QED BY <1>6, <1>7, <1>8 DEF Calls

\* start_timer, and what timer_action shares with it.
LEMMA StartCalls == ASSUME IInv, IInv', Calls, Next_ \/ Count \/ Hook \/ HookSignal \/ HookVector PROVE Calls'
<1>1. stack # <<>> /\ UNCHANGED <<now, busy, u_now>> /\ TypeOK
  BY DEF Next_, Count, Hook, HookSignal, HookVector, At, IInv, statics
<1>2. Top \in Activation /\ CallFits(Top) /\ (Top.at # "clock" => Since <= u_now)
  BY <1>1, TopCalls
<1>3. CASE Next_
  <2>1. PICK at \in {"stop", "count"} : stack' = Append(Pop, [Top EXCEPT !.next = GetNextEvent, !.at = at])
                                        /\ (at = "stop" => Top.op = "timer_action")
    BY <1>3 DEF Next_
  <2> DEFINE e == [Top EXCEPT !.next = GetNextEvent, !.at = at]
  <2>2. e \in Activation /\ e.at = at /\ e.op = Top.op /\ e.val = Top.val
    BY <1>1, <1>2, NextEventFacts DEF Activation, Labels
  <2>3. stack' = Append(Pop, e)
    BY <2>1
  <2> HIDE DEF e
  <2>4. Kept(Len(stack) - 1) /\ Len(stack') = Len(stack) /\ Len(stack) \in Nat \ {0} /\ stack' # <<>> /\ Top' = e
    BY <1>1, <2>2, <2>3, MoveKept
  <2>5. Top.at = "next"
    BY <1>3 DEF Next_, At
  <2>6. CallFits(e)
    BY <1>2, <2>1, <2>2, <2>5 DEF CallFits, ActionLabels, ArmLabels, DisarmLabels, StopLabels, Activation
  <2>7. \A k \in Len(stack) - 1 + 1 .. Len(stack') : stack'[k] = e
    BY <2>4 DEF Top
  <2>8. CallsFit'
    BY <2>4, <2>6, <2>7, KeepFits DEF Calls
  <2>9. ClockIsRead'
    BY <1>1, <1>2, <2>4, <2>5, <2>7, KeepRead DEF Calls
  <2>10. FlagsAgree'
    BY <1>1, <1>3, <2>2, <2>4, <2>5 DEF Next_, FlagsAgree, irq, Calls, Undisturbed
  <2> QED BY <2>8, <2>9, <2>10 DEF Calls
<1>4. CASE Count
  <2>1. Goto(IF Top.op = "timer_action" THEN "raise" ELSE "hook") /\ Top.at = "count" /\ UNCHANGED <<timer_on, vec8, sigtimr>>
    BY <1>4 DEF Count, At
  <2>2. PICK at \in {"raise", "hook"} : Goto(at) /\ at = (IF Top.op = "timer_action" THEN "raise" ELSE "hook")
    BY <2>1
  <2>3. at \in Labels /\ at \notin Undisturbed
    BY DEF Labels, Undisturbed
  <2>4. CallsFit' /\ ClockIsRead'
    <3>1. /\ Top.op # "handler" /\ (Top.op = "timer_action" => at \in ActionLabels)
          /\ (Top.op = "setitimer" /\ Top.val # 0 => at \in ArmLabels) /\ ~(Top.op = "setitimer" /\ Top.val = 0)
      BY <1>2, <2>1, <2>2 DEF CallFits, ActionLabels, ArmLabels, DisarmLabels, StopLabels, StartLabels
    <3> QED BY <1>1, <2>1, <2>2, <2>3, <3>1, GotoCalls
  <2>5. stack' # <<>> /\ Top'.at = at
    BY <1>1, <2>2, <2>3, GotoKept
  <2>6. FlagsAgree'
    BY <1>1, <2>1, <2>3, <2>5 DEF FlagsAgree, Calls, Undisturbed
  <2> QED BY <2>4, <2>6 DEF Calls
<1>5. Top.at \in StartLabels => Top.op = "setitimer" /\ Top.val # 0
  BY <1>2 DEF StartLabels, CallFits, ActionLabels, StopLabels, DisarmLabels, Activation
<1>6. CASE Hook
  <2>1. Top.at = "hook" /\ timer_on' = TRUE /\ UNCHANGED <<vec8, sigtimr>>
    BY <1>6 DEF Hook, At
  <2>2. (timer_on <=> vec8 = "ours") /\ (sigtimr = "timer_action" <=> vec8 = "ours")
    BY <1>1, <2>1 DEF Calls, FlagsAgree, Undisturbed
  <2>3. CASE timer_on
    <3>1. stack' = Pop
      BY <1>6, <2>3 DEF Hook
    <3>2. stack' # <<>> => Top'.at \notin Undisturbed
      <4>1. stack' # <<>> => Top' = stack[Len(stack) - 1] /\ Len(stack) - 1 \in 1 .. Len(stack) - 1
        BY <1>1, <3>1, ReturnKept
      <4> QED BY <4>1 DEF IInv, StepsInOrder
    <3>3. FlagsAgree'
      BY <2>1, <2>2, <2>3, <3>2 DEF FlagsAgree, Undisturbed
    <3> QED BY <1>1, <3>1, <3>3, ReturnCalls DEF Calls
  <2>4. CASE ~timer_on
    <3>1. Goto("signal") /\ "signal" \in Labels /\ "signal" \in ArmLabels
      BY <1>6, <2>4 DEF Hook, Labels, ArmLabels, StartLabels
    <3>2. CallsFit' /\ ClockIsRead'
      BY <1>1, <1>5, <2>1, <3>1, GotoCalls DEF StartLabels
    <3>3. stack' # <<>> /\ Top'.at = "signal"
      BY <1>1, <3>1, GotoKept
    <3> QED BY <3>2, <3>3 DEF Calls, FlagsAgree, Undisturbed
  <2> QED BY <2>3, <2>4
<1>7. CASE HookSignal
  <2>1. Goto("vector") /\ "vector" \in Labels /\ "vector" \in ArmLabels /\ Top.at = "signal"
    BY <1>7 DEF HookSignal, Labels, ArmLabels, StartLabels, At
  <2>2. CallsFit' /\ ClockIsRead'
    BY <1>1, <1>5, <2>1, GotoCalls DEF StartLabels
  <2>3. stack' # <<>> /\ Top'.at = "vector"
    BY <1>1, <2>1, GotoKept
  <2> QED BY <2>2, <2>3 DEF Calls, FlagsAgree, Undisturbed
<1>8. CASE HookVector
  <2>1. stack' = Pop /\ vec8' = "ours" /\ timer_on' /\ sigtimr' = "timer_action"
    BY <1>8 DEF HookVector, IInv, TickHasItsHandler
  <2>2. stack' # <<>> => Top'.at # "default"
    <3>1. stack' # <<>> => Top' = stack[Len(stack) - 1] /\ Len(stack) - 1 \in 1 .. Len(stack) - 1
      BY <1>1, <2>1, ReturnKept
    <3> QED BY <3>1 DEF IInv, StepsInOrder, Undisturbed
  <2> QED BY <1>1, <2>1, <2>2, ReturnCalls DEF Calls, FlagsAgree
<1> QED BY <1>3, <1>4, <1>6, <1>7, <1>8

\* stop_timer.
LEMMA StopCalls == ASSUME IInv, Calls, StopTest \/ StopCount \/ StopVector \/ StopFlag \/ StopSignal PROVE Calls'
<1>1. stack # <<>> /\ UNCHANGED <<now, busy, u_now>> /\ TypeOK /\ Top.at \in StopLabels
  BY DEF StopTest, StopCount, StopVector, StopFlag, StopSignal, At, IInv, statics, StopLabels
<1>2. Top \in Activation /\ CallFits(Top)
  BY <1>1, TopCalls
<1>3. Top.op = "timer_action" \/ (Top.op = "setitimer" /\ Top.val = 0)
  BY <1>1, <1>2 DEF CallFits, StopLabels, ArmLabels, StartLabels, Activation
<1>4. PICK at \in {"minus1", "raise", "interval", "unhook", "off", "default"} :
        /\ Goto(at)
        /\ at = "raise" => Top.op = "timer_action"
        /\ at = "interval" => Top.op # "timer_action"
  <2>1. CASE StopTest
    BY <2>1 DEF StopTest
  <2>2. CASE StopSignal
    BY <2>2 DEF StopSignal
  <2>3. CASE StopCount
    BY <2>3 DEF StopCount
  <2>4. CASE StopVector
    BY <2>4 DEF StopVector
  <2>5. CASE StopFlag
    BY <2>5 DEF StopFlag
  <2> QED BY <2>1, <2>2, <2>3, <2>4, <2>5
<1>5. at \in Labels /\ at # "clock" /\ (Top.op = "timer_action" => at \in ActionLabels) /\ (Top.op = "setitimer" => at \in DisarmLabels)
  BY <1>3, <1>4 DEF Labels, ActionLabels, DisarmLabels, StopLabels
<1>6. CallsFit' /\ ClockIsRead'
  BY <1>1, <1>3, <1>4, <1>5, GotoCalls DEF StopLabels
<1>7. stack' # <<>> /\ Top'.at = at
  BY <1>1, <1>4, <1>5, GotoKept
<1>8. FlagsAgree'
  <2>1. CASE StopTest \/ StopCount
    <3>1. PICK l \in {"minus1", "raise", "interval", "unhook"} : Goto(l)
      BY <2>1 DEF StopTest, StopCount
    <3>2. Top'.at = l /\ l \notin Undisturbed
      BY <1>1, <3>1, GotoKept DEF Labels, Undisturbed
    <3>3. Top.at \notin Undisturbed /\ UNCHANGED <<timer_on, vec8, sigtimr>>
      BY <2>1 DEF StopTest, StopCount, At, Undisturbed, irq
    <3> QED BY <1>1, <1>7, <3>2, <3>3 DEF FlagsAgree, Calls, Undisturbed
  <2>2. CASE StopVector
    BY <1>1, <2>2, <1>7, GotoKept DEF StopVector, FlagsAgree, Undisturbed, Labels
  <2>3. CASE StopFlag
    BY <1>1, <2>3, <1>7, GotoKept DEF StopFlag, FlagsAgree, Undisturbed, Labels
  <2>4. CASE StopSignal
    <3>1. vec8 = "old" /\ ~timer_on /\ sigtimr' = "SIG_DFL" /\ UNCHANGED <<vec8, timer_on>>
      BY <1>1, <2>4 DEF StopSignal, FlagsAgree, Calls, IInv, StepsInOrder, Undisturbed, At
    <3>2. Top'.at # "default"
      <4>1. at \in {"raise", "interval"} \/ Goto("raise") \/ Goto("interval")
        BY <2>4 DEF StopSignal
      <4> QED BY <1>1, <1>7, <4>1, GotoKept DEF Labels
    <3> QED BY <1>7, <3>1, <3>2 DEF FlagsAgree
  <2> QED BY <2>1, <2>2, <2>3, <2>4
<1> QED BY <1>6, <1>8 DEF Calls
\* A step that leaves the tick alone and does not go to a statement that changes it.
LEMMA ApartFlags ==
  ASSUME IInv, FlagsAgree, UNCHANGED irq, stack # <<>> => Top.at \notin Undisturbed,
         stack' # <<>> => Top'.at \notin Undisturbed
  PROVE  FlagsAgree'
BY DEF FlagsAgree, irq, Undisturbed

\* The call below the one that returns may be disturbed.
LEMMA BelowTop ==
  ASSUME IInv, stack # <<>>, stack' = Pop, stack' # <<>>
  PROVE  Top'.at \notin Undisturbed
<1>1. Top' = stack[Len(stack) - 1] /\ Len(stack) - 1 \in 1 .. Len(stack) - 1
  BY ReturnKept DEF IInv
<1> QED BY <1>1 DEF IInv, StepsInOrder

\* Two calls in the place of the innermost one: it goes on, and calls.
LEMMA CallKept ==
  ASSUME TypeOK, stack # <<>>, NEW e \in Activation, NEW c \in Activation, stack' = Append(Append(Pop, e), c)
  PROVE  /\ Kept(Len(stack) - 1) /\ Len(stack') = Len(stack) + 1 /\ Len(stack) \in Nat \ {0} /\ stack' # <<>>
         /\ Top' = c /\ stack'[Len(stack)] = e
<1> DEFINE mid == Append(Pop, e)
<1>1. /\ mid \in Seq(Activation) /\ Len(mid) = Len(stack) /\ mid[Len(stack)] = e
      /\ \A i \in 1 .. Len(stack) - 1 : mid[i] = stack[i]
  BY ReplaceFacts DEF Pop, TypeOK
<1>2. Len(stack) \in Nat \ {0} /\ stack' = Append(mid, c)
  BY TopFacts
<1> HIDE DEF mid
<1>3. /\ stack' \in Seq(Activation) /\ Len(stack') = Len(stack) + 1 /\ stack'[Len(stack) + 1] = c
      /\ \A i \in 1 .. Len(stack) : stack'[i] = mid[i]
  BY <1>1, <1>2, AppendFacts
<1>4. /\ stack' # <<>> /\ stack'[Len(stack)] = e /\ \A i \in 1 .. Len(stack) - 1 : stack'[i] = stack[i]
  BY <1>1, <1>2, <1>3
<1> QED BY <1>2, <1>3, <1>4 DEF Kept, Top

\* What raising a signal does to the stack.
LEMMA RaiseFacts ==
  ASSUME TypeOK, Raise, Top.do # {}
  PROVE  /\ Kept(Len(stack) - 1) /\ Len(stack') = Len(stack) + 1 /\ Len(stack) \in Nat \ {0} /\ stack' # <<>>
         /\ Top'.op = "handler" /\ Top'.at = "body"
         /\ stack'[Len(stack)].op = Top.op /\ stack'[Len(stack)].at = "raise" /\ stack'[Len(stack)].val = Top.val
<1>1. PICK w : stack' = Append(Append(Pop, [Top EXCEPT !.do = @ \ {w}]), Call("handler", "body"))
  BY DEF Raise
<1> DEFINE e == [Top EXCEPT !.do = @ \ {w}]
           c == Call("handler", "body")
<1>2. stack # <<>> /\ Top.at = "raise"
  BY DEF Raise, At
<1>3. e \in Activation /\ e.at = "raise" /\ e.op = Top.op /\ e.val = Top.val
  BY <1>2, TopFacts DEF Activation
<1>4. c \in Activation /\ c.at = "body" /\ c.op = "handler"
  BY CallFacts DEF Labels, Call
<1>5. stack' = Append(Append(Pop, e), c)
  BY <1>1
<1> HIDE DEF e, c
<1> QED BY <1>2, <1>3, <1>4, <1>5, CallKept

\* What looking at a timer does to the stack.
LEMMA CheckFacts ==
  ASSUME TypeOK, NEW w \in Timers, Check(w)
  PROVE  /\ stack # <<>> /\ Top \in Activation /\ Top.at = w
         /\ \/ stack' = Pop /\ w = "PROF" /\ ~Expired(w) /\ Top.do = {}
            \/ \E e \in Activation :
                 /\ stack' = Append(Pop, e) /\ e.op = Top.op /\ e.val = Top.val
                 /\ e.at = IF w = "REAL" THEN "PROF" ELSE "next"
                 /\ e.do = IF Expired(w) THEN Top.do \union {w} ELSE Top.do
                 /\ w = "PROF" => e.do # {}
<1>1. stack # <<>> /\ Top \in Activation /\ Top.at = w
  BY TopFacts DEF Check, At
<1> DEFINE do == IF Expired(w) THEN Top.do \union {w} ELSE Top.do
           e(at) == [Top EXCEPT !.at = at, !.do = do]
<1>2. do \in SUBSET Timers
  BY <1>1 DEF Activation
<1>3. \A at \in {"PROF", "next"} : e(at) \in Activation /\ e(at).at = at /\ e(at).op = Top.op /\ e(at).val = Top.val /\ e(at).do = do
  <2> HIDE DEF do
  <2> QED BY <1>1, <1>2 DEF Activation, Labels
<1>4. CASE w = "REAL"
  <2>1. stack' = Append(Pop, e("PROF"))
    BY <1>4 DEF Check
  <2>2. e("PROF") \in Activation /\ e("PROF").at = "PROF" /\ e("PROF").op = Top.op /\ e("PROF").val = Top.val /\ e("PROF").do = do
    BY <1>3
  <2> HIDE DEF e
  <2> QED BY <1>1, <1>4, <2>1, <2>2
<1>5. CASE w = "PROF" /\ do # {}
  <2>1. stack' = Append(Pop, e("next"))
    BY <1>5 DEF Check
  <2>2. e("next") \in Activation /\ e("next").at = "next" /\ e("next").op = Top.op /\ e("next").val = Top.val /\ e("next").do = do
    BY <1>3
  <2> HIDE DEF e
  <2> QED BY <1>1, <1>5, <2>1, <2>2
<1>6. CASE w = "PROF" /\ do = {}
  <2>1. stack' = Pop
    BY <1>6 DEF Check
  <2> QED BY <1>1, <1>6, <2>1
<1> QED BY <1>4, <1>5, <1>6 DEF Timers

\* timer_action and the handlers it raises.
LEMMA ActionCalls == ASSUME IInv, Calls, ActionClock \/ (\E w \in Timers : Check(w)) \/ Raise \/ HandlerReturn PROVE Calls'
<1>1. stack # <<>> /\ UNCHANGED <<now, busy, irq>> /\ TypeOK
  <2>1. stack # <<>>
    BY DEF ActionClock, Check, Raise, HandlerReturn, At
  <2>2. UNCHANGED <<now, busy, irq>>
    BY DEF ActionClock, Check, Raise, HandlerReturn
  <2> QED BY <2>1, <2>2 DEF IInv
<1>2. Top \in Activation /\ CallFits(Top) /\ (Top.at # "clock" => Since <= u_now) /\ Since <= now
  BY <1>1, TopCalls
<1>3. ASSUME NEW e \in Activation, stack' = Append(Pop, e), u_now' = u_now \/ u_now' = now, Since <= u_now', CallFits(e),
             Top.at \notin Undisturbed, e.at \notin Undisturbed
      PROVE  Calls'
  <2>1. Kept(Len(stack) - 1) /\ Len(stack') = Len(stack) /\ Len(stack) \in Nat \ {0} /\ stack' # <<>> /\ Top' = e
    BY <1>1, <1>3, MoveKept
  <2>2. \A k \in Len(stack) - 1 + 1 .. Len(stack') : stack'[k] = e
    BY <2>1 DEF Top
  <2>3. CallsFit'
    BY <1>3, <2>1, <2>2, KeepFits DEF Calls
  <2>4. ClockIsRead'
    BY <1>1, <1>3, <2>1, <2>2, KeepRead DEF Calls
  <2>5. FlagsAgree'
    BY <1>1, <1>3, <2>1, ApartFlags DEF Calls
  <2> QED BY <2>3, <2>4, <2>5 DEF Calls
<1>4. ASSUME stack' = Pop, u_now' = u_now, Top.at \notin Undisturbed PROVE Calls'
  BY <1>1, <1>4, ReturnCalls, BelowTop, ApartFlags DEF Calls
<1>5. CASE ActionClock
  <2> DEFINE e == [Top EXCEPT !.at = "REAL"]
  <2>1. e \in Activation /\ e.at = "REAL" /\ e.op = "timer_action" /\ stack' = Append(Pop, e) /\ u_now' = now /\ Top.at = "clock"
    BY <1>2, <1>5 DEF Activation, Labels, ActionClock, Goto, At
  <2> HIDE DEF e
  <2>2. CallFits(e) /\ e.at \notin Undisturbed /\ Top.at \notin Undisturbed
    BY <2>1 DEF CallFits, ActionLabels, Undisturbed
  <2> QED BY <1>2, <1>3, <2>1, <2>2
<1>6. ASSUME NEW w \in Timers, Check(w) PROVE Calls'
  <2>1. Top.at = w /\ u_now' = u_now /\ Top.at \notin Undisturbed /\ Top.at # "clock"
    BY <1>1, <1>6, CheckFacts DEF Check, Timers, Undisturbed
  <2>2. CASE stack' = Pop
    BY <1>4, <2>1, <2>2
  <2>3. CASE stack' # Pop
    <3>1. PICK e \in Activation : stack' = Append(Pop, e) /\ e.op = Top.op /\ e.val = Top.val /\ e.at \in {"PROF", "next"}
      BY <1>1, <1>6, <2>3, CheckFacts
    <3>2. CallFits(e) /\ e.at \notin Undisturbed
      BY <1>2, <2>1, <3>1 DEF CallFits, ActionLabels, Undisturbed, ArmLabels, DisarmLabels, StartLabels, StopLabels, Timers
    <3> QED BY <1>2, <1>3, <2>1, <3>1, <3>2
  <2> QED BY <2>2, <2>3
<1>7. CASE HandlerReturn
  BY <1>4, <1>7, <1>1 DEF HandlerReturn, User, statics, Undisturbed
<1>8. CASE Raise /\ Top.do = {}
  BY <1>4, <1>8 DEF Raise, At, statics, Undisturbed
<1>9. CASE Raise /\ Top.do # {}
  <2>1. /\ Kept(Len(stack) - 1) /\ Len(stack') = Len(stack) + 1 /\ Len(stack) \in Nat \ {0} /\ stack' # <<>>
        /\ Top'.op = "handler" /\ Top'.at = "body"
        /\ stack'[Len(stack)].op = Top.op /\ stack'[Len(stack)].at = "raise" /\ stack'[Len(stack)].val = Top.val
    BY <1>1, <1>9, RaiseFacts
  <2>2. Top.at = "raise" /\ u_now' = u_now
    BY <1>9 DEF Raise, At, statics
  <2>3. CallFits(Top') /\ CallFits(stack'[Len(stack)])
    BY <1>2, <2>1, <2>2 DEF CallFits
  <2>4. \A k \in Len(stack) - 1 + 1 .. Len(stack') : stack'[k] = Top' \/ stack'[k] = stack'[Len(stack)]
    BY <2>1 DEF Top
  <2>5. CallsFit'
    BY <2>1, <2>3, <2>4, KeepFits DEF Calls
  <2>6. ClockIsRead'
    BY <1>1, <1>2, <2>1, <2>2, <2>4, KeepRead DEF Calls
  <2>7. FlagsAgree'
    BY <1>1, <2>1, <2>2, ApartFlags DEF Calls, Undisturbed
  <2> QED BY <2>5, <2>6, <2>7 DEF Calls
<1> QED BY <1>5, <1>6, <1>7, <1>8, <1>9

\* What a call of setitimer begins with.
LEMMA BeginFacts ==
  ASSUME TypeOK, setitimer
  PROVE  \E e \in Activation : /\ stack' = Append(stack, e) /\ e.op = "setitimer"
                               /\ e.at = IF e.val = 0 THEN "disarm" ELSE "interval"
                               /\ rearmed' = IF e.val # 0 /\ ~NoneArmed THEN rearmed + 1 ELSE rearmed
<1>1. PICK w \in Timers, v \in Values, i \in Intervals :
        /\ rearmed' = (IF v # 0 /\ \E t \in Timers : exp[t] # 0 THEN rearmed + 1 ELSE rearmed)
        /\ stack' = Append(stack, [Call("setitimer", IF v = 0 THEN "disarm" ELSE "interval") EXCEPT
                                      !.which = w, !.val = RoundUp(v), !.int = RoundUp(i)])
  BY DEF setitimer
<1>2. RoundUp(v) \in Nat /\ RoundUp(i) \in Nat /\ (RoundUp(v) = 0 <=> v = 0)
  BY UnitAssumption, ArgAssumption DEF RoundUp
<1> DEFINE at == IF v = 0 THEN "disarm" ELSE "interval"
           c == Call("setitimer", at)
           e == [c EXCEPT !.which = w, !.val = RoundUp(v), !.int = RoundUp(i)]
<1>3. at \in Labels /\ at = IF RoundUp(v) = 0 THEN "disarm" ELSE "interval"
  BY <1>2 DEF Labels
<1>4. stack' = Append(stack, e)
  BY <1>1
<1> HIDE DEF at
<1>5. c \in Activation /\ c.at = at /\ c.op = "setitimer"
  BY <1>3, CallFacts DEF Call
<1> HIDE DEF c
<1>6. e \in Activation /\ e.at = at /\ e.op = "setitimer" /\ e.val = RoundUp(v)
  BY <1>2, <1>5 DEF Activation
<1> HIDE DEF e
<1>7. rearmed' = IF e.val # 0 /\ ~NoneArmed THEN rearmed + 1 ELSE rearmed
  BY <1>1, <1>2, <1>6 DEF NoneArmed
<1> QED BY <1>3, <1>4, <1>6, <1>7

\* setitimer and getitimer.
LEMMA SetCalls == ASSUME IInv, Calls, setitimer \/ Disarm \/ SetInterval \/ SetValue \/ SetOrigin \/ getitimer PROVE Calls'
<1>1. UNCHANGED <<now, irq, busy>> /\ TypeOK
  BY DEF setitimer, Disarm, SetInterval, SetValue, SetOrigin, getitimer, IInv
<1>2. now \in Nat /\ u_now \in Nat /\ busy \in Nat /\ Since <= now
  BY <1>1, UnitAssumption DEF TypeOK, Since
<1>3. CASE getitimer
  <2>1. u_now' = now /\ UNCHANGED stack
    BY <1>3 DEF getitimer
  <2> QED BY <1>1, <1>2, <2>1 DEF Calls, CallsFit, ClockIsRead, FlagsAgree, Top, Since, irq
<1>4. CASE setitimer
  <2>1. PICK e \in Activation : stack' = Append(stack, e) /\ e.op = "setitimer" /\ e.at = IF e.val = 0 THEN "disarm" ELSE "interval"
    BY <1>1, <1>4, BeginFacts
  <2>2. u_now' = now /\ (stack # <<>> => Top.at \notin Undisturbed)
    BY <1>4 DEF setitimer, User, Undisturbed
  <2>3. Kept(Len(stack)) /\ Len(stack') = Len(stack) + 1 /\ Len(stack) \in Nat /\ stack' # <<>> /\ Top' = e
    BY <1>1, <2>1, PushKept
  <2>4. CallFits(e) /\ e.at \notin Undisturbed
    BY <2>1 DEF CallFits, Undisturbed, ArmLabels, DisarmLabels
  <2>5. \A k \in Len(stack) + 1 .. Len(stack') : stack'[k] = e
    BY <2>3 DEF Top
  <2>6. CallsFit'
    BY <2>3, <2>4, <2>5, KeepFits DEF Calls
  <2>7. ClockIsRead'
    BY <1>1, <1>2, <2>2, <2>3, <2>5, KeepRead DEF Calls
  <2>8. FlagsAgree'
    BY <1>1, <2>2, <2>3, <2>4, ApartFlags DEF Calls
  <2> QED BY <2>6, <2>7, <2>8 DEF Calls
<1>5. CASE Disarm \/ SetInterval \/ SetValue \/ SetOrigin
  <2>1. stack # <<>> /\ u_now' = u_now /\ Top.at \in {"disarm", "interval", "value", "origin"}
    BY <1>5 DEF Disarm, SetInterval, SetValue, SetOrigin, At
  <2>2. Top \in Activation /\ CallFits(Top)
    BY <1>1, <2>1, TopCalls
  <2>3. Top.op = "setitimer" /\ Top.at \notin Undisturbed /\ Top.at # "clock"
    BY <2>1, <2>2 DEF CallFits, ActionLabels, StopLabels, Activation, Undisturbed
  <2>4. CASE stack' = Pop
    BY <1>1, <2>1, <2>3, <2>4, ReturnCalls, BelowTop, ApartFlags DEF Calls
  <2>5. CASE stack' # Pop
    <3>1. PICK at \in {"stop", "interval", "value", "origin", "next"} :
            /\ Goto(at)
            /\ at = "stop" => Top.at = "disarm"
            /\ at = "interval" => Top.at = "disarm"
            /\ at \in {"value", "origin", "next"} => Top.val # 0
      <4>1. CASE Disarm
        BY <4>1 DEF Disarm, At
      <4>2. CASE SetInterval
        BY <2>5, <4>2 DEF SetInterval, At
      <4>3. CASE SetValue
        BY <2>2, <2>3, <4>3 DEF SetValue, At, CallFits, DisarmLabels, StopLabels
      <4>4. CASE SetOrigin
        BY <2>2, <2>3, <4>4 DEF SetOrigin, At, CallFits, DisarmLabels, StopLabels
      <4> QED BY <1>5, <4>1, <4>2, <4>3, <4>4
    <3>2. at \in Labels /\ at # "clock" /\ at \notin Undisturbed
      BY DEF Labels, Undisturbed
    <3>3. (Top.val # 0 => at \in ArmLabels) /\ (Top.val = 0 => at \in DisarmLabels)
      BY <2>2, <2>3, <3>1 DEF CallFits, ArmLabels, DisarmLabels, StartLabels, StopLabels
    <3>4. CallsFit' /\ ClockIsRead'
      BY <1>1, <2>1, <2>3, <3>1, <3>2, <3>3, GotoCalls
    <3>5. stack' # <<>> /\ Top'.at = at
      BY <1>1, <2>1, <3>1, <3>2, GotoKept
    <3> QED BY <1>1, <2>3, <3>2, <3>4, <3>5, ApartFlags DEF Calls
  <2> QED BY <2>4, <2>5
<1> QED BY <1>3, <1>4, <1>5
-----------------------------------------------------------------------------
(* Ticks. *)

\* Dividing by the length of a tick.
LEMMA DivFacts ==
  ASSUME NEW d \in Nat \ {0}, NEW a \in Nat
  PROVE  /\ a \div d \in Nat /\ a % d \in Nat /\ a % d < d /\ a = d * (a \div d) + (a % d)
<1>1. PICK q \in Int, r \in Int : q = a \div d /\ r = a % d /\ r >= 0 /\ r < d /\ a = d * q + r
  OBVIOUS
<1>2. ASSUME q < 0 PROVE FALSE
  <2>1. PICK m \in Nat : q = -1 - m
    <3>1. -1 - q \in Nat /\ q = -1 - (-1 - q)
      BY <1>2
    <3> QED BY <3>1
  <2>2. d * q = -d - d * m /\ d * m \in Nat
    BY <2>1
  <2> QED BY <1>1, <2>2
<1>3. q \in Nat /\ r \in Nat
  BY <1>1, <1>2
<1>4. a = d * (a \div d) + (a % d)
  BY <1>1, Zenon
<1>5. a \div d \in Nat /\ a % d \in Nat /\ a % d < d
  BY <1>1, <1>3, Zenon
<1> QED BY <1>4, <1>5, Zenon

\* Quotient and remainder are unique.
LEMMA DivUnique ==
  ASSUME NEW d \in Nat \ {0}, NEW q \in Int, NEW r \in Nat, NEW p \in Int, NEW s \in Nat, r < d, s < d, d * q + r = d * p + s
  PROVE  q = p
<1>1. ASSUME NEW x \in Int, NEW y \in Int, x < y PROVE d * x + d <= d * y
  <2>1. y - x >= 1 /\ y - x \in Nat
    BY <1>1
  <2>2. d * (y - x) >= d
    BY <2>1
  <2>3. d * (y - x) = d * y - d * x
    OBVIOUS
  <2>4. d * y \in Int /\ d * x \in Int
    OBVIOUS
  <2> QED BY <2>2, <2>3, <2>4
<1>2. d * q \in Int /\ d * p \in Int
  OBVIOUS
<1>3. ~(q < p)
  BY <1>1, <1>2
<1>4. ~(p < q)
  BY <1>1, <1>2
<1> QED BY <1>3, <1>4

\* The clock enters another tick when it reaches a multiple of the length of one.
LEMMA TickDiv ==
  ASSUME NEW d \in Nat \ {0}, NEW a \in Nat
  PROVE  (a + 1) \div d = IF (a + 1) % d = 0 THEN a \div d + 1 ELSE a \div d
<1>1. PICK q \in Nat, r \in Nat : q = a \div d /\ r < d /\ a = d * q + r
  BY DivFacts
<1>2. PICK p \in Nat, s \in Nat : p = (a + 1) \div d /\ s = (a + 1) % d /\ s < d /\ a + 1 = d * p + s
  BY DivFacts
<1>3. d * q \in Nat /\ d * p \in Nat /\ d * (q + 1) = d * q + d /\ d * (q + 1) \in Nat
  OBVIOUS
<1>4. CASE r + 1 < d
  <2>1. d * q + (r + 1) = d * p + s
    BY <1>1, <1>2, <1>3
  <2>2. p = q
    BY <1>2, <1>4, <2>1, DivUnique
  <2>3. s = r + 1
    BY <1>3, <2>1, <2>2
  <2> QED BY <1>1, <1>2, <2>2, <2>3
<1>5. CASE ~(r + 1 < d)
  <2>1. d * (q + 1) + 0 = d * p + s
    BY <1>1, <1>2, <1>3, <1>5
  <2>2. p = q + 1
    BY <1>2, <2>1, DivUnique
  <2>3. s = 0
    BY <1>3, <2>1, <2>2
  <2> QED BY <1>1, <1>2, <2>2, <2>3
<1> QED BY <1>4, <1>5

\* Skipping the ticks that lie in b units does not take longer than b units.
LEMMA SkipDiv ==
  ASSUME NEW d \in Nat \ {0}, NEW a \in Nat, NEW b \in Int, b \div d > 0
  PROVE  ((a \div d) + ((b \div d) - 1) + 1) * d <= a + b
<1>1. PICK q \in Int, r \in Int : q = a \div d /\ r >= 0 /\ a = d * q + r
  BY DivFacts
<1>2. PICK p \in Int, s \in Int : p = b \div d /\ s >= 0 /\ b = d * p + s
  OBVIOUS
<1>3. (q + (p - 1) + 1) * d = d * q + d * p /\ d * q \in Int /\ d * p \in Int
  OBVIOUS
<1> QED BY <1>1, <1>2, <1>3

\* What is stored in the countdown for an expiry in next units is served no later than that.
LEMMA CountIsEarly ==
  ASSUME NEW t \in Nat, NEW next \in Int
  PROVE  TicksToSkip(next) = 0 \/ (t \div U + TicksToSkip(next) + 1) * U <= t + next
<1>1. CASE next \div U > 0
  <2>1. TicksToSkip(next) = (next \div U) - 1
    BY <1>1 DEF TicksToSkip
  <2>2. ((t \div U) + ((next \div U) - 1) + 1) * U <= t + next
    BY <1>1, SkipDiv, UnitAssumption
  <2> QED BY <2>1, <2>2, Zenon
<1>2. CASE ~(next \div U > 0)
  BY <1>2 DEF TicksToSkip
<1> QED BY <1>1, <1>2

-----------------------------------------------------------------------------
(* The parts of Once, when the calls above the n-th change. *)

\* No call in progress arms a timer.
LEMMA KeepAlone ==
  ASSUME NEW n, Kept(n), stack' \in Seq(Activation), \A i \in 1 .. n : ~Arming(stack[i]),
         \A k \in n + 1 .. Len(stack') : ~Arming(stack'[k])
  PROVE  ArmsAlone'
<1>1. \A i \in 1 .. Len(stack') : ~Arming(stack'[i])
  BY DEF Kept, Arming
<1>2. stack' # <<>> => Len(stack') \in 1 .. Len(stack')
  OBVIOUS
<1>3. stack' # <<>> => ~Arming(Top')
  BY <1>1, <1>2 DEF Top
<1>4. \A i \in 1 .. Len(stack') - 1 : ~Arming(stack'[i])
  BY <1>1 DEF Kept
<1> QED BY <1>3, <1>4 DEF ArmsAlone, Arming

\* The innermost call stops the tick, ...
LEMMA TopStops ==
  ASSUME stack' \in Seq(Activation), stack' # <<>>, StopsTheTick(Top')
  PROVE  TickIsStopped'
<1>1. Len(stack') \in 1 .. Len(stack') /\ \A i \in Len(stack') + 1 .. Len(stack') : FALSE
  OBVIOUS
<1>2. StopsTheTick(stack'[Len(stack')])
  BY DEF Top
<1> QED BY <1>1, <1>2 DEF TickIsStopped, StopsTheTick, FindsNothing

\* ... or one below it does, ...
LEMMA KeepStops ==
  ASSUME NEW n, Kept(n), TickIsStopped, NoneArmed /\ vec8 = "ours",
         \A k \in n + 1 .. Len(stack) : ~StopsTheTick(stack[k]),
         \A k \in n + 1 .. Len(stack') : FindsNothing(stack'[k])
  PROVE  TickIsStopped'
<1>1. PICK j \in 1 .. Len(stack) : StopsTheTick(stack[j]) /\ \A i \in j + 1 .. Len(stack) : FindsNothing(stack[i])
  BY DEF TickIsStopped
<1>2. j \in 1 .. n /\ j \in 1 .. Len(stack')
  BY <1>1 DEF Kept
<1>3. StopsTheTick(stack'[j])
  BY <1>1, <1>2 DEF Kept
<1>4. ASSUME NEW i \in j + 1 .. Len(stack') PROVE FindsNothing(stack'[i])
  <2>1. CASE i <= n
    BY <1>1, <1>2, <2>1 DEF Kept
  <2>2. CASE ~(i <= n)
    BY <1>2, <2>2 DEF Kept
  <2> QED BY <2>1, <2>2
<1> QED BY <1>2, <1>3, <1>4 DEF TickIsStopped, StopsTheTick, FindsNothing

\* ... or the tick is not ours, or is for a timer.
LEMMA TickIsBusy ==
  ASSUME TypeOK, TickIsStopped, stack = <<>> \/ (~StopsTheTick(Top) /\ ~FindsNothing(Top))
  PROVE  ~(NoneArmed /\ vec8 = "ours")
<1> SUFFICES ASSUME NoneArmed /\ vec8 = "ours" PROVE FALSE
  OBVIOUS
<1>1. PICK j \in 1 .. Len(stack) : StopsTheTick(stack[j]) /\ \A i \in j + 1 .. Len(stack) : FindsNothing(stack[i])
  BY DEF TickIsStopped
<1>2. stack # <<>> /\ Len(stack) \in Nat
  BY <1>1 DEF TypeOK
<1>3. CASE j = Len(stack)
  BY <1>1, <1>2, <1>3 DEF Top
<1>4. CASE j # Len(stack)
  <2>1. Len(stack) \in j + 1 .. Len(stack)
    BY <1>2, <1>4
  <2> QED BY <1>1, <1>2, <2>1 DEF Top
<1> QED BY <1>3, <1>4

\* A call above the n-th did more than look at the timers.
Above(n) == \E k \in n + 1 .. Len(stack) : ~FindsNothing(stack[k])

\* Each timer is due no earlier than before, or is set now by such a call.
LaterDue(n) ==
  \A w \in Timers : due'[w] # 0 => \/ due[w] # 0 /\ due[w] <= due'[w]
                                   \/ Above(n) /\ u_now <= due'[w]

\* What the calls below the n-th are going to store in the countdown stays early enough.
LEMMA KeepCounts ==
  ASSUME TypeOK, TypeOK', NEW n, Kept(n), CountsAreEarly, UNCHANGED <<now, busy>>, u_now <= u_now', LaterDue(n),
         \A k \in n + 1 .. Len(stack') : \/ FindsNothing(stack'[k])
                                         \/ Above(n)
                                         \/ \E w \in Timers : due[w] # 0 /\ due[w] <= u_now',
         \A k \in n + 1 .. Len(stack') : stack'[k].at = "count" =>
            k = Len(stack') /\ \A w \in Timers : due'[w] # 0 => stack'[k].next + Since <= due'[w]
  PROVE  CountsAreEarly'
<1>1. Since' = Since /\ Since \in Int /\ u_now \in Int /\ u_now' \in Int
  BY UnitAssumption DEF Since, TypeOK
<1>2. \A w \in Timers : due[w] \in Int /\ due'[w] \in Int
  BY DEF TypeOK
<1> SUFFICES ASSUME NEW i \in 1 .. Len(stack'), stack'[i].at = "count"
             PROVE  /\ \A w \in Timers : due'[w] # 0 => stack'[i].next + Since <= due'[w]
                    /\ \A k \in i + 1 .. Len(stack') : ~FindsNothing(stack'[k]) => stack'[i].next + Since <= u_now'
  BY <1>1 DEF CountsAreEarly, FindsNothing
<1>3. CASE ~(i <= n)
  <2>1. i = Len(stack') /\ \A w \in Timers : due'[w] # 0 => stack'[i].next + Since <= due'[w]
    BY <1>3 DEF Kept
  <2> QED BY <2>1 DEF Kept
<1>4. CASE i <= n
  <2>1. i \in 1 .. Len(stack) /\ stack'[i] = stack[i] /\ n \in Nat /\ Len(stack) \in Nat /\ Len(stack') \in Nat
    BY <1>4 DEF Kept
  <2>2. PICK b \in Int : b = stack[i].next + Since
    <3>1. stack[i] \in Activation
      BY <2>1 DEF TypeOK
    <3> QED BY <1>1, <3>1 DEF Activation
  <2>3. /\ \A w \in Timers : due[w] # 0 => b <= due[w]
        /\ \A k \in i + 1 .. Len(stack) : ~FindsNothing(stack[k]) => b <= u_now
    BY <2>1, <2>2 DEF CountsAreEarly
  <2>4. Above(n) => b <= u_now
    BY <1>4, <2>1, <2>3 DEF Above
  <2>5. \A w \in Timers : due'[w] # 0 => b <= due'[w]
    BY <1>1, <1>2, <2>3, <2>4 DEF LaterDue
  <2>6. ASSUME NEW k \in i + 1 .. Len(stack'), ~FindsNothing(stack'[k]) PROVE b <= u_now'
    <3>1. CASE k <= n
      <4>1. k \in i + 1 .. Len(stack) /\ stack'[k] = stack[k]
        BY <2>1, <3>1 DEF Kept
      <4>2. b <= u_now
        BY <2>3, <2>6, <4>1
      <4> QED BY <1>1, <4>2
    <3>2. CASE ~(k <= n)
      <4>1. k \in n + 1 .. Len(stack')
        BY <2>1, <3>2
      <4>2. Above(n) \/ \E w \in Timers : due[w] # 0 /\ due[w] <= u_now'
        BY <2>6, <4>1
      <4> QED BY <1>1, <1>2, <2>3, <2>4, <4>2
    <3> QED BY <3>1, <3>2
  <2> QED BY <2>1, <2>2, <2>5, <2>6
<1> QED BY <1>3, <1>4

\* No timer is due earlier, and the tick is counted as before.
LEMMA KeepPosts ==
  ASSUME TypeOK, TypeOK', NEW n, Kept(n), PostsInTime, vec8' = "ours" => vec8 = "ours", UNCHANGED <<countdown, now>>,
         \A k \in n + 1 .. Len(stack) : stack[k].at # "unhook",
         \A w \in Timers : due'[w] # 0 => due[w] # 0 /\ due[w] <= due'[w]
  PROVE  PostsInTime'
<1> SUFFICES ASSUME vec8' = "ours", \A i \in 1 .. Len(stack') : stack'[i].at # "unhook",
                    NEW w \in Timers, due'[w] # 0, countdown' # 0
             PROVE  PostTime' <= due'[w] + MaxSlip
  BY DEF PostsInTime
<1>1. \A i \in 1 .. Len(stack) : stack[i].at # "unhook"
  BY DEF Kept
<1>2. PostTime <= due[w] + MaxSlip
  BY <1>1 DEF PostsInTime
<1>3. PostTime' = PostTime
  BY DEF PostTime
<1>4. PICK p \in Int : p = PostTime
  <2>1. now \in Nat /\ countdown \in Nat
    BY UnitAssumption DEF TypeOK
  <2>2. now \div U \in Nat
    BY <2>1, UnitAssumption, DivFacts
  <2>3. PICK x \in Int : x = now \div U + countdown + 1
    BY <2>1, <2>2
  <2>4. x * U \in Int
    BY UnitAssumption
  <2> QED BY <2>3, <2>4 DEF PostTime
<1>5. due[w] \in Int /\ due'[w] \in Int /\ MaxSlip \in Int /\ due[w] <= due'[w]
  BY UnitAssumption DEF TypeOK
<1> QED BY <1>2, <1>3, <1>4, <1>5
-----------------------------------------------------------------------------
(* Every step keeps the times. *)

\* The tick counts down and posts at the time that was counted for.
LEMMA AdvanceOnce == ASSUME IInv, Calls, Once, Advance PROVE Once'
<1>1. UNCHANGED <<exp, due, u_now, vec8, stack>> /\ now' = now + 1 /\ now \in Nat /\ busy \in Nat /\ countdown \in Nat
  BY UnitAssumption DEF Advance, IInv, TypeOK, statics
<1>2. (stack # <<>> /\ Arming(Top)) => UNCHANGED countdown
  BY DEF Advance, Once, ArmsAlone, AloneWithIt
<1>3. ArmsAlone'
  BY <1>1, <1>2 DEF Once, ArmsAlone, AloneWithIt, Top
<1>4. AsAsked' /\ TickIsStopped'
  BY <1>1 DEF Once, AsAsked, TickIsStopped, NoneArmed, Top
<1>5. CountsAreEarly'
  <2>1. CASE stack = <<>>
    BY <1>1, <2>1 DEF CountsAreEarly
  <2>2. CASE stack # <<>>
    <3>1. busy' = busy + 1
      BY <2>2 DEF Advance
    <3>2. Since' = Since
      BY <1>1, <3>1 DEF Since
    <3> QED BY <1>1, <3>2 DEF Once, CountsAreEarly
  <2> QED BY <2>1, <2>2
<1>6. PostsInTime'
  <2> SUFFICES ASSUME vec8 = "ours", \A i \in 1 .. Len(stack) : stack[i].at # "unhook",
                      NEW w \in Timers, due[w] # 0, countdown' # 0
               PROVE  PostTime' <= due[w] + MaxSlip
    BY <1>1 DEF PostsInTime
  <2>1. (now + 1) \div U = IF (now + 1) % U = 0 THEN now \div U + 1 ELSE now \div U
    BY <1>1, TickDiv, UnitAssumption
  <2>2. now \div U \in Nat
    BY <1>1, DivFacts, UnitAssumption
  <2>3. countdown # 0 /\ now' \div U + countdown' + 1 = now \div U + countdown + 1
    <3>1. CASE (now + 1) % U = 0
      <4>1. timer_hdlr
        BY <3>1 DEF Advance
      <4>2. countdown # 0 /\ countdown' = countdown - 1
        BY <4>1 DEF timer_hdlr
      <4>3. now' \div U = now \div U + 1
        BY <1>1, <2>1, <3>1
      <4> QED BY <1>1, <2>2, <4>2, <4>3
    <3>2. CASE (now + 1) % U # 0
      <4>1. countdown' = countdown
        BY <3>2 DEF Advance
      <4> QED BY <1>1, <2>1, <3>2, <4>1
    <3> QED BY <3>1, <3>2
  <2>4. PostTime' = PostTime
    BY <2>3, Zenon DEF PostTime
  <2> QED BY <2>3, <2>4 DEF Once, PostsInTime
<1> QED BY <1>3, <1>4, <1>5, <1>6 DEF Once

\* A call that does not arm a timer is at the top: none does.
LEMMA NoneArming ==
  ASSUME TypeOK, ArmsAlone, stack # <<>> => ~Arming(Top)
  PROVE  \A i \in 1 .. Len(stack) : ~Arming(stack[i])
BY DEF ArmsAlone, Top, TypeOK

\* timer_action begins: no call that arms a timer was interrupted.
LEMMA DeliverOnce == ASSUME IInv, IInv', Once, Deliver PROVE Once'
<1> DEFINE e == Call("timer_action", "clock")
<1>1. /\ vec8 = "ours" /\ vec8' = vec8 /\ stack' = Append(stack, e)
      /\ UNCHANGED <<now, u_now, exp, due, countdown, busy>> /\ TypeOK /\ TypeOK' /\ stack' \in Seq(Activation)
  BY DEF Deliver, IInv, PostedByOurTick, TickHasItsHandler, statics, irq, TypeOK
<1>2. e \in Activation /\ FindsNothing(e) /\ ~Arming(e) /\ e.at = "clock"
  BY CallFacts DEF Labels, Call, FindsNothing, Arming
<1> HIDE DEF e
<1>3. Kept(Len(stack)) /\ Len(stack') = Len(stack) + 1 /\ Len(stack) \in Nat /\ stack' # <<>> /\ Top' = e
  BY <1>1, <1>2, PushKept
<1>4. (\A k \in Len(stack) + 1 .. Len(stack') : stack'[k] = e) /\ (\A k \in Len(stack) + 1 .. Len(stack) : FALSE)
  BY <1>3 DEF Top
<1>5. stack # <<>> => ~Arming(Top)
  BY <1>1 DEF Once, ArmsAlone, AloneWithIt
<1>6. ArmsAlone'
  BY <1>1, <1>2, <1>3, <1>4, <1>5, NoneArming, KeepAlone DEF Once
<1>7. AsAsked'
  BY <1>1, <1>5 DEF Once, AsAsked
<1>8. TickIsStopped'
  <2>1. CASE NoneArmed
    BY <1>1, <1>2, <1>3, <1>4, <2>1, KeepStops DEF Once
  <2>2. CASE ~NoneArmed
    BY <1>1, <2>2 DEF TickIsStopped, NoneArmed
  <2> QED BY <2>1, <2>2
<1>9. LaterDue(Len(stack)) /\ u_now <= u_now' /\ \A w \in Timers : due'[w] # 0 => due[w] # 0 /\ due[w] <= due'[w]
  BY <1>1, UnitAssumption DEF LaterDue, TypeOK
<1>10. CountsAreEarly'
  BY <1>1, <1>2, <1>3, <1>4, <1>9, KeepCounts DEF Once
<1>11. PostsInTime'
  BY <1>1, <1>3, <1>4, <1>9, KeepPosts DEF Once
<1> QED BY <1>6, <1>7, <1>8, <1>10, <1>11 DEF Once

\* A timer is due no earlier than before.
NoneEarlier == \A w \in Timers : due'[w] # 0 => due[w] # 0 /\ due[w] <= due'[w]

\* No timer is due earlier when none is touched.
LEMMA SameDue == ASSUME TypeOK, UNCHANGED due PROVE NoneEarlier
BY DEF TypeOK, NoneEarlier

\* The tick is counted as before.
LEMMA SamePosts ==
  ASSUME IInv, IInv', Once, stack # <<>>, Kept(Len(stack) - 1), vec8' = "ours" => vec8 = "ours", UNCHANGED <<countdown, now>>,
         Top.at # "unhook", NoneEarlier
  PROVE  PostsInTime'
<1>1. TypeOK /\ TypeOK' /\ Len(stack) \in Nat \ {0}
  BY TopFacts DEF IInv, TypeOK
<1>2. \A k \in Len(stack) - 1 + 1 .. Len(stack) : stack[k].at # "unhook"
  BY <1>1 DEF Top
<1> QED BY <1>1, <1>2, KeepPosts DEF Once, NoneEarlier

\* What a call does that arms nothing and has more to do than to look at the timers.
LEMMA QuietOnce ==
  ASSUME IInv, IInv', Once, stack # <<>>, Kept(Len(stack) - 1), UNCHANGED <<now, u_now, busy>>,
         ~Arming(Top), ~FindsNothing(Top), \A k \in Len(stack) .. Len(stack') : ~Arming(stack'[k]),
         \A k \in Len(stack) .. Len(stack') : stack'[k].at = "count" =>
            k = Len(stack') /\ \A w \in Timers : due'[w] # 0 => stack'[k].next + Since <= due'[w],
         NoneEarlier, exp' = due', TickIsStopped', PostsInTime'
  PROVE  Once'
<1> DEFINE n == Len(stack) - 1
<1>1. TypeOK /\ TypeOK' /\ stack' \in Seq(Activation) /\ Len(stack) \in Nat \ {0} /\ n + 1 = Len(stack)
  BY TopFacts DEF IInv, TypeOK
<1>2. (\A k \in n + 1 .. Len(stack) : stack[k] = Top) /\ Len(stack) \in n + 1 .. Len(stack)
  BY <1>1 DEF Top
<1>3. ArmsAlone'
  BY <1>1, KeepAlone DEF Once, ArmsAlone
<1>4. AsAsked'
  BY DEF AsAsked
<1>5. Above(n)
  BY <1>2 DEF Above
<1>6. LaterDue(n) /\ u_now <= u_now'
  BY <1>1, UnitAssumption DEF LaterDue, NoneEarlier, TypeOK
<1> HIDE DEF n
<1>7. CountsAreEarly'
  <2>1. Kept(n) /\ \A k \in n + 1 .. Len(stack') : stack'[k].at = "count" =>
            k = Len(stack') /\ \A w \in Timers : due'[w] # 0 => stack'[k].next + Since <= due'[w]
    BY <1>1 DEF n
  <2> QED BY <1>1, <1>5, <1>6, <2>1, KeepCounts DEF Once
<1> QED BY <1>3, <1>4, <1>7 DEF Once

\* It goes to another statement, ...
LEMMA GotoOnce ==
  ASSUME IInv, IInv', Once, stack # <<>>, NEW at \in Labels, Goto(at), at # "count", UNCHANGED <<now, u_now, busy>>,
         ~Arming(Top), ~FindsNothing(Top), NoneEarlier, exp' = due', TickIsStopped', PostsInTime'
  PROVE  Once'
<1>1. /\ Kept(Len(stack) - 1) /\ Len(stack') = Len(stack) /\ Len(stack) \in Nat \ {0}
      /\ Top'.at = at /\ Top'.op = Top.op /\ Top'.val = Top.val
  BY GotoKept DEF IInv
<1>2. \A k \in Len(stack) .. Len(stack') : stack'[k] = Top'
  BY <1>1 DEF Top
<1>3. ~Arming(Top')
  BY <1>1 DEF Arming
<1> QED BY <1>1, <1>2, <1>3, QuietOnce

\* ... or returns.
LEMMA ReturnOnce ==
  ASSUME IInv, IInv', Once, stack # <<>>, stack' = Pop, UNCHANGED <<now, u_now, busy, exp, due, vec8, countdown>>,
         ~Arming(Top), ~FindsNothing(Top), ~StopsTheTick(Top)
  PROVE  Once'
<1>1. Kept(Len(stack) - 1) /\ Len(stack') = Len(stack) - 1 /\ Len(stack) \in Nat \ {0} /\ TypeOK
  BY ReturnKept DEF IInv
<1>2. \A k \in Len(stack) .. Len(stack') : FALSE
  BY <1>1
<1>3. TickIsStopped'
  BY <1>1, TickIsBusy DEF Once, TickIsStopped, NoneArmed
<1>4. NoneEarlier /\ exp' = due' /\ PostsInTime'
  BY <1>1, SameDue, SamePosts DEF Once, AsAsked, StopsTheTick
<1> QED BY <1>1, <1>2, <1>3, <1>4, QuietOnce

\* stop_timer, of setitimer and of timer_action.
LEMMA StopOnce == ASSUME IInv, IInv', Calls, Once, StopTest \/ StopCount \/ StopVector \/ StopFlag \/ StopSignal PROVE Once'
<1>1. stack # <<>> /\ UNCHANGED <<now, busy, u_now, exp, due>> /\ TypeOK /\ TypeOK' /\ stack' \in Seq(Activation) /\ Top.at \in StopLabels
  <2>1. stack # <<>> /\ Top.at \in StopLabels
    BY DEF StopTest, StopCount, StopVector, StopFlag, StopSignal, At, StopLabels
  <2>2. UNCHANGED <<now, busy, u_now, exp, due>>
    BY DEF StopTest, StopCount, StopVector, StopFlag, StopSignal, statics
  <2> QED BY <2>1, <2>2 DEF IInv, TypeOK
<1>2. ~Arming(Top) /\ ~FindsNothing(Top)
  <2>1. CallFits(Top)
    BY <1>1, TopCalls
  <2> QED BY <1>1, <2>1 DEF CallFits, Arming, FindsNothing, StopLabels, ArmLabels, StartLabels
<1>3. NoneEarlier /\ exp' = due'
  BY <1>1, <1>2, SameDue DEF Once, AsAsked
<1>4. CASE StopTest
  <2>1. PICK at \in {"minus1", "raise", "interval"} : Goto(at) /\ (timer_on => at = "minus1")
    BY <1>4 DEF StopTest
  <2>2. at \in Labels /\ at # "count"
    BY DEF Labels
  <2>3. Kept(Len(stack) - 1) /\ stack' # <<>> /\ Top'.at = at
    BY <1>1, <2>1, <2>2, GotoKept
  <2>4. UNCHANGED <<vec8, countdown>> /\ Top.at = "stop"
    BY <1>4 DEF StopTest, irq, At
  <2>5. PostsInTime'
    BY <1>1, <1>3, <2>3, <2>4, SamePosts
  <2>6. TickIsStopped'
    <3>1. CASE timer_on
      BY <1>1, <2>1, <2>3, <3>1, TopStops DEF StopsTheTick
    <3>2. CASE ~timer_on
      BY <2>4, <3>2 DEF IInv, TickHasItsHandler, TickIsStopped
    <3> QED BY <3>1, <3>2
  <2> QED BY <1>1, <1>2, <1>3, <2>1, <2>2, <2>5, <2>6, GotoOnce
<1>5. CASE StopCount
  <2>1. Goto("unhook") /\ "unhook" \in Labels
    BY <1>5 DEF StopCount, Labels
  <2>2. stack' # <<>> /\ Top'.at = "unhook"
    BY <1>1, <2>1, GotoKept
  <2>3. Len(stack') \in 1 .. Len(stack') /\ stack'[Len(stack')].at = "unhook"
    BY <1>1, <2>2 DEF Top
  <2>4. PostsInTime'
    BY <2>3 DEF PostsInTime
  <2>5. TickIsStopped'
    BY <1>1, <2>2, TopStops DEF StopsTheTick
  <2> QED BY <1>1, <1>2, <1>3, <2>1, <2>4, <2>5, GotoOnce
<1>6. CASE StopVector \/ StopFlag \/ StopSignal
  <2>1. vec8' = "old"
    BY <1>1, <1>6 DEF StopVector, StopFlag, StopSignal, At, IInv, StepsInOrder, Undisturbed
  <2>2. PostsInTime' /\ TickIsStopped'
    BY <2>1 DEF PostsInTime, TickIsStopped
  <2>3. PICK at \in {"off", "default", "raise", "interval"} : Goto(at)
    BY <1>6 DEF StopVector, StopFlag, StopSignal
  <2>4. at \in Labels /\ at # "count"
    BY DEF Labels
  <2> QED BY <1>1, <1>2, <1>3, <2>2, <2>3, <2>4, GotoOnce
<1> QED BY <1>4, <1>5, <1>6

\* A call that arms a timer goes on.
LEMMA ArmOnce ==
  ASSUME IInv, IInv', Once, stack # <<>>, Arming(Top), Kept(Len(stack) - 1), Len(stack') = Len(stack), stack' # <<>>, Arming(Top'),
         UNCHANGED <<now, u_now, busy>>, AloneWithIt', LaterDue(Len(stack) - 1),
         Top'.at = "count" => \A w \in Timers : due'[w] # 0 => Top'.next + Since <= due'[w]
  PROVE  Once'
<1> DEFINE n == Len(stack) - 1
<1>1. TypeOK /\ TypeOK' /\ stack' \in Seq(Activation) /\ Len(stack) \in Nat \ {0} /\ n + 1 = Len(stack)
  BY TopFacts DEF IInv, TypeOK
<1>2. \A i \in 1 .. Len(stack') - 1 : ~Arming(stack'[i])
  BY DEF Once, ArmsAlone, Kept
<1>3. ArmsAlone'
  BY <1>2 DEF ArmsAlone, Arming
<1>4. AsAsked' /\ TickIsStopped' /\ PostsInTime'
  BY DEF AsAsked, TickIsStopped, PostsInTime, AloneWithIt, Arming
<1>5. Len(stack) \in n + 1 .. Len(stack) /\ ~FindsNothing(stack[Len(stack)])
  BY <1>1 DEF FindsNothing, Arming, Top
<1>6. Above(n) /\ u_now <= u_now'
  BY <1>1, <1>5, UnitAssumption DEF Above, TypeOK
<1>7. \A k \in n + 1 .. Len(stack') : k = Len(stack') /\ stack'[k] = Top'
  BY <1>1 DEF Top
<1>8. Kept(n) /\ LaterDue(n)
  OBVIOUS
<1> HIDE DEF n
<1>9. CountsAreEarly'
  <2>1. \A k \in n + 1 .. Len(stack') : stack'[k].at = "count" =>
            k = Len(stack') /\ \A w \in Timers : due'[w] # 0 => stack'[k].next + Since <= due'[w]
    BY <1>7
  <2> QED BY <1>1, <1>6, <1>8, <2>1, KeepCounts DEF Once
<1> QED BY <1>3, <1>4, <1>9 DEF Once

\* start_timer counts the ticks up to the timer that the call has armed, and timer_action those
\* up to the next one.
LEMMA StartOnce == ASSUME IInv, IInv', Calls, Once, Next_ \/ Count \/ Hook \/ HookSignal \/ HookVector PROVE Once'
<1>1. stack # <<>> /\ UNCHANGED <<now, busy, u_now, exp, due>> /\ TypeOK /\ TypeOK' /\ stack' \in Seq(Activation)
  <2>1. stack # <<>>
    BY DEF Next_, Count, Hook, HookSignal, HookVector, At
  <2>2. UNCHANGED <<now, busy, u_now, exp, due>>
    BY DEF Next_, Count, Hook, HookSignal, HookVector, statics
  <2> QED BY <2>1, <2>2 DEF IInv, TypeOK
<1>2. Top \in Activation /\ CallFits(Top) /\ (Top.at # "clock" => Since <= u_now)
  BY <1>1, TopCalls
<1>3. now \in Nat /\ u_now \in Nat /\ busy \in Nat /\ countdown \in Nat /\ busy <= MaxSlip /\ MaxSlip \in Nat /\ Since = now - busy
      /\ \A w \in Timers : exp[w] \in Nat /\ due[w] \in Nat
  BY <1>1, UnitAssumption DEF TypeOK, Calls, ClockIsRead, Since
<1>4. NoneEarlier /\ LaterDue(Len(stack) - 1)
  BY <1>1, SameDue DEF NoneEarlier, LaterDue
<1>5. Top.at \in {"next", "count"} \union StartLabels => Top.op = "timer_action" \/ Arming(Top)
  BY <1>2 DEF CallFits, Arming, Activation, DisarmLabels, StopLabels, StartLabels
<1>6. Top.at \in StartLabels => Arming(Top)
  BY <1>2 DEF CallFits, Arming, Activation, DisarmLabels, StopLabels, StartLabels, ActionLabels
<1>7. Top.op = "timer_action" => ~Arming(Top)
  BY DEF Arming
<1>8. CASE Next_
  <2>1. PICK at \in {"stop", "count"} : /\ stack' = Append(Pop, [Top EXCEPT !.next = GetNextEvent, !.at = at])
                                        /\ at = "stop" <=> Top.op = "timer_action" /\ GetNextEvent = 0
    BY <1>8 DEF Next_
  <2> DEFINE e == [Top EXCEPT !.next = GetNextEvent, !.at = at]
  <2>2. e \in Activation /\ e.at = at /\ e.op = Top.op /\ e.val = Top.val /\ e.which = Top.which /\ e.next = GetNextEvent
    BY <1>1, <1>2, NextEventFacts DEF Activation, Labels
  <2>3. stack' = Append(Pop, e)
    BY <2>1
  <2> HIDE DEF e
  <2>4. Kept(Len(stack) - 1) /\ Len(stack') = Len(stack) /\ Len(stack) \in Nat \ {0} /\ stack' # <<>> /\ Top' = e
    BY <1>1, <2>2, <2>3, MoveKept
  <2>5. Top.at = "next" /\ UNCHANGED <<vec8, countdown>>
    BY <1>8 DEF Next_, At, irq
  <2>6. \A k \in Len(stack) .. Len(stack') : stack'[k] = Top' /\ k = Len(stack')
    BY <2>4 DEF Top
  <2>7. exp = due
    <3>1. ASSUME Arming(Top), NEW w \in Timers PROVE exp[w] = due[w]
      BY <1>1, <2>5, <3>1 DEF Once, ArmsAlone, AloneWithIt
    <3>2. exp = [w \in Timers |-> exp[w]] /\ due = [w \in Timers |-> due[w]]
      BY <1>1 DEF TypeOK
    <3> QED BY <3>1, <3>2 DEF Once, AsAsked
  <2>8. \A w \in Timers : due'[w] # 0 => Top'.next + Since <= due'[w]
    <3>1. GetNextEvent \in Int /\ \A w \in Timers : exp[w] # 0 => GetNextEvent <= exp[w] - u_now
      BY <1>1, NextEventFacts
    <3>2. Since <= u_now /\ Since \in Int
      BY <1>2, <1>3, <2>5
    <3>3. \A w \in Timers : due[w] # 0 => GetNextEvent + Since <= due[w]
      BY <1>3, <2>7, <3>1, <3>2
    <3> QED BY <1>1, <2>2, <2>4, <3>3
  <2>9. CASE Arming(Top)
    <3>1. AloneWithIt /\ Top.op = "setitimer"
      BY <1>1, <2>9 DEF Once, ArmsAlone, Arming
    <3>2. GetNextEvent = Top.val
      <4>1. Top.which \in Timers /\ Top.val \in Nat
        BY <1>2 DEF Activation
      <4>2. /\ exp[Top.which] # 0 /\ exp[Top.which] = u_now + Top.val /\ \A t \in Timers : t # Top.which => exp[t] = 0
        BY <2>5, <3>1, <4>1 DEF AloneWithIt
      <4>3. GetNextEvent = exp[Top.which] - u_now
        BY <1>1, <4>1, <4>2, NextEventFacts
      <4> QED BY <1>3, <4>1, <4>2, <4>3
    <3>3. at = "count"
      BY <2>1, <3>1
    <3>4. AloneWithIt' /\ Arming(Top')
      BY <1>1, <2>2, <2>4, <2>5, <2>9, <3>1, <3>2, <3>3 DEF AloneWithIt, Arming, StartLabels
    <3> QED BY <1>1, <1>4, <2>4, <2>8, <2>9, <3>4, ArmOnce
  <2>10. CASE ~Arming(Top)
    <3>1. Top.op = "timer_action" /\ ~FindsNothing(Top)
      BY <1>5, <2>5, <2>10 DEF FindsNothing
    <3>2. TickIsStopped'
      <4>1. CASE NoneArmed
        <5>1. at = "stop"
          BY <1>1, <2>1, <3>1, <4>1, NextEventFacts DEF NoneArmed
        <5> QED BY <1>1, <2>2, <2>4, <5>1, TopStops DEF StopsTheTick
      <4>2. CASE ~NoneArmed
        BY <1>1, <4>2 DEF TickIsStopped, NoneArmed
      <4> QED BY <4>1, <4>2
    <3>3. PostsInTime'
      BY <1>1, <1>4, <2>4, <2>5, SamePosts
    <3>4. ~Arming(Top') /\ exp' = due'
      BY <1>1, <2>2, <2>4, <2>7, <2>10 DEF Arming
    <3> QED BY <1>1, <1>4, <2>4, <2>6, <2>8, <2>10, <3>1, <3>2, <3>3, <3>4, QuietOnce
  <2> QED BY <2>9, <2>10
<1>9. CASE Count
  <2>1. PICK at \in {"raise", "hook"} : Goto(at) /\ (at = "raise" <=> Top.op = "timer_action")
    BY <1>9 DEF Count
  <2>2. Top.at = "count" /\ countdown' = TicksToSkip(Top.next) /\ UNCHANGED vec8 /\ Top.next \in Int
    BY <1>2, <1>9 DEF Count, At, Activation
  <2>3. at \in Labels
    BY DEF Labels
  <2>4. /\ Kept(Len(stack) - 1) /\ Len(stack') = Len(stack) /\ Len(stack) \in Nat \ {0} /\ stack' # <<>>
        /\ Top'.at = at /\ Top'.op = Top.op /\ Top'.which = Top.which /\ Top'.val = Top.val /\ Top'.next = Top.next
    BY <1>1, <2>1, <2>3, GotoKept
  <2>5. CASE Arming(Top)
    <3>1. AloneWithIt /\ Arming(Top') /\ at = "hook"
      BY <1>1, <2>1, <2>4, <2>5 DEF Once, ArmsAlone, Arming
    <3>2. AloneWithIt'
      BY <1>1, <2>2, <2>4, <3>1 DEF AloneWithIt, StartLabels
    <3> QED BY <1>1, <1>4, <2>4, <2>5, <3>1, <3>2, ArmOnce
  <2>6. CASE ~Arming(Top)
    <3>1. at = "raise" /\ ~FindsNothing(Top) /\ ~StopsTheTick(Top)
      BY <1>5, <2>1, <2>2, <2>6 DEF FindsNothing, StopsTheTick
    <3>2. TickIsStopped' /\ exp' = due'
      BY <1>1, <2>2, <2>6, <3>1, TickIsBusy DEF Once, TickIsStopped, NoneArmed, AsAsked
    <3>3. PostsInTime'
      <4> SUFFICES ASSUME NEW w \in Timers, due'[w] # 0, countdown' # 0 PROVE PostTime' <= due'[w] + MaxSlip
        BY DEF PostsInTime
      <4>1. Top.next + Since <= due[w]
        BY <1>1, <2>2, <2>4 DEF Once, CountsAreEarly, Top
      <4>2. PICK p \in Int : p = TicksToSkip(Top.next)
        BY <2>2, TicksFacts
      <4>3. (now \div U + p + 1) * U <= now + Top.next
        BY <1>3, <2>2, <4>2, CountIsEarly
      <4>4. PICK x \in Int : x = (now \div U + p + 1) * U
        <5>1. now \div U \in Nat
          BY <1>3, DivFacts, UnitAssumption
        <5>2. PICK y \in Int : y = now \div U + p + 1
          BY <5>1
        <5>3. y * U \in Int
          BY UnitAssumption
        <5> QED BY <5>2, <5>3
      <4>5. PostTime' = x
        BY <1>1, <2>2, <4>2, <4>4, Zenon DEF PostTime
      <4>6. x <= now + Top.next
        BY <4>3, <4>4, Zenon
      <4>7. x <= due[w] + MaxSlip
        BY <1>3, <2>2, <4>1, <4>6
      <4> QED BY <1>1, <4>5, <4>7
    <3> QED BY <1>1, <1>4, <2>1, <2>3, <2>6, <3>1, <3>2, <3>3, GotoOnce
  <2> QED BY <2>5, <2>6
<1>10. CASE Hook \/ HookSignal
  <2>1. Top.at \in StartLabels /\ UNCHANGED <<vec8, countdown>>
    BY <1>10 DEF Hook, HookSignal, At, StartLabels
  <2>2. AloneWithIt /\ Arming(Top)
    BY <1>1, <1>6, <2>1 DEF Once, ArmsAlone
  <2>3. PICK at \in {"signal", "vector"} : Goto(at)
    <3>1. Hook => ~timer_on
      BY <2>2 DEF Hook, At, Calls, FlagsAgree, AloneWithIt, Undisturbed
    <3> QED BY <1>10, <3>1 DEF Hook, HookSignal
  <2>4. at \in Labels /\ at # "count" /\ at \in StartLabels
    BY DEF Labels, StartLabels
  <2>5. /\ Kept(Len(stack) - 1) /\ Len(stack') = Len(stack) /\ Len(stack) \in Nat \ {0} /\ stack' # <<>>
        /\ Top'.at = at /\ Top'.op = Top.op /\ Top'.which = Top.which /\ Top'.val = Top.val /\ Top'.next = Top.next
    BY <1>1, <2>3, <2>4, GotoKept
  <2>6. Arming(Top')
    BY <2>2, <2>5 DEF Arming
  <2>7. AloneWithIt'
    BY <1>1, <2>1, <2>2, <2>4, <2>5 DEF AloneWithIt, StartLabels
  <2> QED BY <1>1, <1>4, <2>2, <2>4, <2>5, <2>6, <2>7, ArmOnce
<1>11. CASE HookVector
  <2>1. Top.at = "vector" /\ vec8' = "ours" /\ stack' = Pop /\ UNCHANGED countdown
    BY <1>11 DEF HookVector, At
  <2>2. AloneWithIt /\ Arming(Top) /\ Top.which \in Timers /\ Top.val \in Nat
    BY <1>1, <1>2, <1>6, <2>1 DEF Once, ArmsAlone, StartLabels, Activation
  <2>3. Kept(Len(stack) - 1) /\ Len(stack') = Len(stack) - 1 /\ Len(stack) \in Nat \ {0}
    BY <1>1, <2>1, ReturnKept
  <2>4. \A k \in Len(stack) - 1 + 1 .. Len(stack') : FALSE
    BY <2>3
  <2>5. ArmsAlone'
    BY <1>1, <2>3, <2>4, KeepAlone DEF Once, ArmsAlone
  <2>6. /\ \A w \in Timers : w # Top.which => exp[w] = 0 /\ due[w] = 0
        /\ exp[Top.which] # 0 /\ due[Top.which] = u_now + Top.val /\ exp[Top.which] = due[Top.which]
        /\ countdown = TicksToSkip(Top.val)
    BY <2>1, <2>2 DEF AloneWithIt, StartLabels
  <2>7. AsAsked'
    <3>1. \A w \in Timers : exp[w] = due[w]
      BY <2>6
    <3>2. exp = [w \in Timers |-> exp[w]] /\ due = [w \in Timers |-> due[w]]
      BY <1>1 DEF TypeOK
    <3>3. exp = due
      BY <3>1, <3>2
    <3> QED BY <1>1, <3>3 DEF AsAsked
  <2>8. TickIsStopped'
    BY <1>1, <2>2, <2>6 DEF TickIsStopped, NoneArmed
  <2>9. CountsAreEarly'
    BY <1>1, <1>3, <1>4, <2>3, <2>4, KeepCounts DEF Once
  <2>10. PostsInTime'
    <3> SUFFICES ASSUME NEW w \in Timers, due'[w] # 0, countdown' # 0 PROVE PostTime' <= due'[w] + MaxSlip
      BY DEF PostsInTime
    <3>1. due[w] = u_now + Top.val
      BY <1>1, <2>6
    <3>2. PICK p \in Int : p = TicksToSkip(Top.val)
      BY <2>2, TicksFacts
    <3>3. (now \div U + p + 1) * U <= now + Top.val
      BY <1>1, <1>3, <2>1, <2>2, <2>6, <3>2, CountIsEarly
    <3>4. PICK x \in Int : x = (now \div U + p + 1) * U
      <4>1. now \div U \in Nat
        BY <1>3, DivFacts, UnitAssumption
      <4>2. PICK y \in Int : y = now \div U + p + 1
        BY <4>1
      <4>3. y * U \in Int
        BY UnitAssumption
      <4> QED BY <4>2, <4>3
    <3>5. PostTime' = x
      BY <1>1, <2>1, <2>6, <3>2, <3>4, Zenon DEF PostTime
    <3>6. x <= now + Top.val
      BY <3>3, <3>4, Zenon
    <3>7. Since <= u_now
      BY <1>2, <2>1
    <3>8. x <= due[w] + MaxSlip
      BY <1>3, <2>2, <3>1, <3>6, <3>7
    <3> QED BY <1>1, <3>5, <3>8
  <2> QED BY <2>5, <2>7, <2>8, <2>9, <2>10 DEF Once
<1> QED BY <1>8, <1>9, <1>10, <1>11
\* timer_action reads the clock.
LEMMA ClockOnce == ASSUME IInv, IInv', Calls, Once, ActionClock PROVE Once'
<1>1. stack # <<>> /\ UNCHANGED <<now, busy, exp, due, vec8, countdown>> /\ TypeOK /\ TypeOK' /\ stack' \in Seq(Activation)
  BY DEF ActionClock, At, irq, IInv, TypeOK
<1>2. u_now' = now /\ Top.at = "clock" /\ Top.op = "timer_action" /\ Goto("REAL") /\ "REAL" \in Labels /\ u_now <= u_now'
  BY DEF ActionClock, At, Labels, Calls, ClockIsRead
<1>3. /\ Kept(Len(stack) - 1) /\ Len(stack') = Len(stack) /\ Len(stack) \in Nat \ {0} /\ stack' # <<>>
      /\ Top'.at = "REAL" /\ Top'.op = "timer_action" /\ Top'.do = Top.do
  BY <1>1, <1>2, GotoKept
<1>4. /\ \A k \in Len(stack) - 1 + 1 .. Len(stack') : stack'[k] = Top'
      /\ \A k \in Len(stack) - 1 + 1 .. Len(stack) : stack[k] = Top
      /\ Len(stack) \in Len(stack) - 1 + 1 .. Len(stack)
  BY <1>3 DEF Top
<1>5. ~Arming(Top) /\ ~Arming(Top') /\ ~StopsTheTick(Top) /\ (FindsNothing(Top) <=> FindsNothing(Top'))
  BY <1>2, <1>3 DEF Arming, StopsTheTick, FindsNothing
<1>6. ArmsAlone'
  BY <1>1, <1>3, <1>4, <1>5, KeepAlone DEF Once, ArmsAlone
<1>7. AsAsked'
  BY <1>1, <1>5 DEF Once, AsAsked
<1>8. TickIsStopped'
  <2>1. CASE NoneArmed /\ vec8 = "ours"
    <3>1. FindsNothing(Top')
      BY <1>1, <1>5, <2>1, TickIsBusy DEF Once
    <3> QED BY <1>3, <1>4, <1>5, <2>1, <3>1, KeepStops DEF Once
  <2>2. CASE ~(NoneArmed /\ vec8 = "ours")
    BY <1>1, <2>2 DEF TickIsStopped, NoneArmed
  <2> QED BY <2>1, <2>2
<1>9. NoneEarlier /\ LaterDue(Len(stack) - 1)
  BY <1>1, SameDue DEF NoneEarlier, LaterDue
<1>10. FindsNothing(Top') \/ Above(Len(stack) - 1)
  BY <1>4, <1>5 DEF Above
<1>11. CountsAreEarly'
  BY <1>1, <1>2, <1>3, <1>4, <1>9, <1>10, KeepCounts DEF Once
<1>12. PostsInTime'
  BY <1>1, <1>2, <1>3, <1>9, SamePosts
<1> QED BY <1>6, <1>7, <1>8, <1>11, <1>12 DEF Once

\* timer_action looks at a timer, and reloads or disarms it when it has expired.
LEMMA CheckOnce == ASSUME IInv, IInv', Calls, Once, NEW w \in Timers, Check(w) PROVE Once'
<1>1. stack # <<>> /\ UNCHANGED <<now, u_now, busy, rel, vec8, countdown>> /\ TypeOK /\ TypeOK' /\ stack' \in Seq(Activation)
  BY DEF Check, At, irq, IInv, TypeOK
<1>2. Top \in Activation /\ Top.at = w /\ CallFits(Top)
  BY <1>1, TopCalls, CheckFacts
<1>3. Top.op = "timer_action" /\ ~Arming(Top) /\ Top.at # "unhook"
  BY <1>2 DEF CallFits, Arming, Activation, ArmLabels, DisarmLabels, StartLabels, StopLabels, Timers
<1>4. exp = due
  BY <1>3 DEF Once, AsAsked
<1>5. /\ exp \in [Timers -> Nat] /\ due \in [Timers -> Nat] /\ rel \in [Timers -> Nat] /\ u_now \in Nat
  BY <1>1, UnitAssumption DEF TypeOK
<1>6. exp' = due' /\ NoneEarlier
  <2>1. CASE ~Expired(w)
    <3>1. exp' = exp /\ due' = due
      BY <2>1 DEF Check
    <3> QED BY <1>1, <1>4, <3>1, SameDue
  <2>2. CASE Expired(w) /\ rel[w] # 0
    <3>1. exp' = [exp EXCEPT ![w] = exp[w] + rel[w]] /\ due' = [due EXCEPT ![w] = due[w] + rel[w]]
      BY <2>2, Zenon DEF Check, ReloadOrDisarm
    <3>2. exp[w] # 0
      BY <2>2 DEF Expired
    <3> QED BY <1>4, <1>5, <3>1, <3>2 DEF NoneEarlier
  <2>3. CASE Expired(w) /\ ~(rel[w] # 0)
    <3>1. exp' = [exp EXCEPT ![w] = 0] /\ due' = [due EXCEPT ![w] = 0]
      BY <2>3, Zenon DEF Check, ReloadOrDisarm
    <3> QED BY <1>4, <1>5, <3>1 DEF NoneEarlier
  <2> QED BY <2>1, <2>2, <2>3
<1>7. Len(stack) \in Nat \ {0} /\ (\A k \in Len(stack) - 1 + 1 .. Len(stack) : stack[k] = Top) /\ Len(stack) \in Len(stack) - 1 + 1 .. Len(stack)
  BY <1>1, TopFacts DEF Top
<1>8. LaterDue(Len(stack) - 1) /\ u_now <= u_now' /\ AsAsked'
  BY <1>1, <1>5, <1>6 DEF LaterDue, NoneEarlier, AsAsked
<1>9. CASE stack' = Pop
  <2>1. Kept(Len(stack) - 1) /\ Len(stack') = Len(stack) - 1
    BY <1>1, <1>9, ReturnKept
  <2>2. \A k \in Len(stack) - 1 + 1 .. Len(stack') : FALSE
    BY <1>7, <2>1
  <2>3. w = "PROF" /\ ~Expired(w) /\ Top.do = {}
    <3>1. ASSUME NEW e \in Activation, stack' = Append(Pop, e) PROVE FALSE
      BY <1>1, <1>7, <2>1, <3>1, MoveKept
    <3> QED BY <1>1, <3>1, CheckFacts
  <2>4. ArmsAlone'
    BY <1>1, <2>1, <2>2, KeepAlone DEF Once, ArmsAlone
  <2>5. TickIsStopped'
    <3>1. UNCHANGED exp
      BY <2>3 DEF Check
    <3>2. ~StopsTheTick(Top)
      BY <1>2, <2>3 DEF StopsTheTick
    <3>3. CASE NoneArmed /\ vec8 = "ours"
      BY <1>7, <2>1, <2>2, <3>2, <3>3, KeepStops DEF Once
    <3>4. CASE ~(NoneArmed /\ vec8 = "ours")
      BY <1>1, <3>1, <3>4 DEF TickIsStopped, NoneArmed
    <3> QED BY <3>3, <3>4
  <2>6. CountsAreEarly'
    BY <1>1, <1>8, <2>1, <2>2, KeepCounts DEF Once
  <2>7. PostsInTime'
    BY <1>1, <1>3, <1>6, <2>1, SamePosts
  <2> QED BY <1>8, <2>4, <2>5, <2>6, <2>7 DEF Once
<1>10. CASE stack' # Pop
  <2>1. PICK e \in Activation :
          /\ stack' = Append(Pop, e) /\ e.op = Top.op /\ e.val = Top.val
          /\ e.at = (IF w = "REAL" THEN "PROF" ELSE "next")
          /\ e.do = (IF Expired(w) THEN Top.do \union {w} ELSE Top.do)
          /\ w = "PROF" => e.do # {}
    BY <1>1, <1>10, CheckFacts
  <2>2. Kept(Len(stack) - 1) /\ Len(stack') = Len(stack) /\ stack' # <<>> /\ Top' = e
    BY <1>1, <2>1, MoveKept
  <2>3. \A k \in Len(stack) - 1 + 1 .. Len(stack') : stack'[k] = e
    BY <1>7, <2>2 DEF Top
  <2>4. ~Arming(e) /\ e.at # "count" /\ e.at \in {"PROF", "next"} /\ e.op = "timer_action"
    BY <1>3, <2>1 DEF Arming
  <2>5. ArmsAlone'
    BY <1>1, <2>2, <2>3, <2>4, KeepAlone DEF Once, ArmsAlone
  <2>6. TickIsStopped'
    <3>1. CASE e.do # {}
      BY <1>1, <2>2, <2>4, <3>1, TopStops DEF StopsTheTick
    <3>2. CASE e.do = {}
      <4>1. w = "REAL" /\ ~Expired(w) /\ Top.do = {} /\ e.at = "PROF"
        BY <2>1, <3>2 DEF Timers
      <4>2. UNCHANGED exp
        BY <4>1 DEF Check
      <4>3. ~StopsTheTick(Top) /\ FindsNothing(e)
        BY <1>2, <2>4, <3>2, <4>1 DEF StopsTheTick, FindsNothing
      <4>4. CASE NoneArmed /\ vec8 = "ours"
        BY <1>7, <2>2, <2>3, <4>3, <4>4, KeepStops DEF Once
      <4>5. CASE ~(NoneArmed /\ vec8 = "ours")
        BY <1>1, <4>2, <4>5 DEF TickIsStopped, NoneArmed
      <4> QED BY <4>4, <4>5
    <3> QED BY <3>1, <3>2
  <2>7. FindsNothing(e) \/ Above(Len(stack) - 1) \/ \E t \in Timers : due[t] # 0 /\ due[t] <= u_now'
    <3>1. CASE Expired(w)
      BY <1>1, <1>4, <3>1 DEF Expired
    <3>2. CASE ~Expired(w) /\ Top.do # {}
      <4>1. ~FindsNothing(Top)
        BY <3>2 DEF FindsNothing
      <4> QED BY <1>7, <4>1 DEF Above
    <3>3. CASE ~Expired(w) /\ Top.do = {}
      <4>1. e.do = {} /\ e.at = "PROF"
        BY <2>1, <3>3 DEF Timers
      <4> QED BY <2>4, <4>1 DEF FindsNothing
    <3> QED BY <3>1, <3>2, <3>3
  <2>8. CountsAreEarly'
    BY <1>1, <1>8, <2>2, <2>3, <2>4, <2>7, KeepCounts DEF Once
  <2>9. PostsInTime'
    BY <1>1, <1>3, <1>6, <2>2, SamePosts
  <2> QED BY <1>8, <2>5, <2>6, <2>8, <2>9 DEF Once
<1> QED BY <1>9, <1>10

\* timer_action raises its signals; a handler returns.
LEMMA RaiseOnce == ASSUME IInv, IInv', Calls, Once, Raise \/ HandlerReturn PROVE Once'
<1>1. stack # <<>> /\ UNCHANGED <<now, u_now, busy, exp, due, vec8, countdown>> /\ TypeOK
  BY DEF Raise, HandlerReturn, At, irq, statics, IInv
<1>2. Top \in Activation /\ CallFits(Top) /\ Top.at \in {"raise", "body"}
  BY <1>1, TopCalls DEF Raise, HandlerReturn, At, User
<1>3. ~Arming(Top) /\ ~FindsNothing(Top) /\ ~StopsTheTick(Top) /\ Top.at # "unhook"
  BY <1>2 DEF CallFits, Arming, FindsNothing, StopsTheTick, Activation, ArmLabels, DisarmLabels, StartLabels, StopLabels
<1>4. CASE stack' = Pop
  BY <1>1, <1>3, <1>4, ReturnOnce
<1>5. CASE Raise /\ Top.do # {}
  <2>1. /\ Kept(Len(stack) - 1) /\ Len(stack') = Len(stack) + 1 /\ Len(stack) \in Nat \ {0} /\ stack' # <<>>
        /\ Top'.op = "handler" /\ Top'.at = "body"
        /\ stack'[Len(stack)].op = Top.op /\ stack'[Len(stack)].at = "raise" /\ stack'[Len(stack)].val = Top.val
    BY <1>1, <1>5, RaiseFacts
  <2>2. \A k \in Len(stack) .. Len(stack') : stack'[k] = Top' \/ stack'[k] = stack'[Len(stack)]
    BY <2>1 DEF Top
  <2>3. ~Arming(Top') /\ ~Arming(stack'[Len(stack)])
    BY <1>3, <2>1 DEF Arming
  <2>4. TickIsStopped'
    BY <1>1, <1>3, TickIsBusy DEF Once, TickIsStopped, NoneArmed
  <2>5. NoneEarlier /\ exp' = due' /\ PostsInTime'
    BY <1>1, <1>3, <2>1, SameDue, SamePosts DEF Once, AsAsked
  <2> QED BY <1>1, <1>3, <2>1, <2>2, <2>3, <2>4, <2>5, QuietOnce
<1> QED BY <1>4, <1>5 DEF Raise, HandlerReturn
\* The program itself, or a handler, runs: it neither arms a timer nor stops the tick.
LEMMA UserFacts ==
  ASSUME TypeOK, Calls, User
  PROVE  stack # <<>> => ~Arming(Top) /\ ~FindsNothing(Top) /\ ~StopsTheTick(Top) /\ Top.at = "body"
<1> SUFFICES ASSUME stack # <<>> PROVE ~Arming(Top) /\ ~FindsNothing(Top) /\ ~StopsTheTick(Top) /\ Top.at = "body"
  OBVIOUS
<1>1. Top \in Activation /\ CallFits(Top) /\ Top.at = "body"
  BY TopCalls DEF User
<1> QED BY <1>1 DEF CallFits, Arming, FindsNothing, StopsTheTick, ArmLabels, StartLabels

\* setitimer begins: when it arms a timer no other is armed, and the tick is not ours.
LEMMA BeginOnce == ASSUME IInv, IInv', Calls, Once, setitimer, rearmed = 0, rearmed' = 0 PROVE Once'
<1>1. UNCHANGED <<now, busy, exp, due, vec8, countdown>> /\ TypeOK /\ TypeOK' /\ stack' \in Seq(Activation) /\ User
      /\ u_now' = now /\ u_now <= u_now'
  BY DEF setitimer, irq, IInv, TypeOK, Calls, ClockIsRead
<1>2. PICK e \in Activation : /\ stack' = Append(stack, e) /\ e.op = "setitimer"
                              /\ e.at = (IF e.val = 0 THEN "disarm" ELSE "interval")
                              /\ rearmed' = (IF e.val # 0 /\ ~NoneArmed THEN rearmed + 1 ELSE rearmed)
  BY <1>1, BeginFacts
<1>3. stack # <<>> => ~Arming(Top) /\ ~FindsNothing(Top) /\ ~StopsTheTick(Top) /\ Top.at = "body"
  BY <1>1, UserFacts
<1>4. Kept(Len(stack)) /\ Len(stack') = Len(stack) + 1 /\ Len(stack) \in Nat /\ stack' # <<>> /\ Top' = e
  BY <1>1, <1>2, PushKept
<1>5. (\A k \in Len(stack) + 1 .. Len(stack') : stack'[k] = e) /\ (\A k \in Len(stack) + 1 .. Len(stack) : FALSE)
  BY <1>4 DEF Top
<1>6. ~(NoneArmed /\ vec8 = "ours") /\ TickIsStopped'
  BY <1>1, <1>3, TickIsBusy DEF Once, TickIsStopped, NoneArmed
<1>7. exp = due
  BY <1>3 DEF Once, AsAsked
<1>8. \A i \in 1 .. Len(stack) : ~Arming(stack[i])
  BY <1>1, <1>3, NoneArming DEF Once
<1>9. ArmsAlone' /\ AsAsked'
  <2>1. CASE e.val = 0
    <3>1. ~Arming(e)
      BY <2>1 DEF Arming
    <3>2. ArmsAlone'
      BY <1>1, <1>4, <1>5, <1>8, <3>1, KeepAlone
    <3> QED BY <1>1, <1>7, <3>2 DEF AsAsked
  <2>2. CASE e.val # 0
    <3>1. NoneArmed /\ vec8 = "old" /\ e.at = "interval" /\ Arming(e)
      BY <1>1, <1>2, <1>6, <2>2 DEF TypeOK, Arming
    <3>2. AloneWithIt'
      BY <1>1, <1>4, <1>7, <3>1 DEF AloneWithIt, NoneArmed, StartLabels
    <3>3. \A i \in 1 .. Len(stack') - 1 : ~Arming(stack'[i])
      BY <1>4, <1>8 DEF Kept, Arming
    <3> QED BY <1>4, <3>1, <3>2, <3>3 DEF ArmsAlone, AsAsked, Arming
  <2> QED BY <2>1, <2>2
<1>10. NoneEarlier
  BY <1>1, SameDue
<1>11. CountsAreEarly'
  <2>1. CASE stack = <<>>
    <3>1. Len(stack) = 0
      BY <2>1
    <3>2. \A i \in 1 .. Len(stack') : stack'[i].at # "count"
      BY <1>2, <1>4, <1>5, <3>1
    <3> QED BY <3>2 DEF CountsAreEarly
  <2>2. CASE stack # <<>>
    <3> DEFINE n == Len(stack) - 1
    <3>1. Len(stack) \in Nat \ {0} /\ Kept(n) /\ n + 1 = Len(stack)
      BY <1>1, <1>4, <2>2, TopFacts DEF Kept
    <3>2. Len(stack) \in n + 1 .. Len(stack) /\ ~FindsNothing(stack[Len(stack)])
      BY <1>3, <2>2, <3>1 DEF Top
    <3>3. Above(n) /\ LaterDue(n)
      BY <1>10, <3>2 DEF Above, LaterDue, NoneEarlier
    <3>4. \A k \in n + 1 .. Len(stack') : stack'[k].at # "count"
      <4> HIDE DEF n
      <4>1. \A k \in n + 1 .. Len(stack') : k = Len(stack) \/ k \in Len(stack) + 1 .. Len(stack')
        BY <1>4, <3>1
      <4>2. stack'[Len(stack)] = Top
        BY <1>4, <3>1 DEF Kept, Top
      <4> QED BY <1>2, <1>3, <1>5, <2>2, <4>1, <4>2
    <3> QED BY <1>1, <3>1, <3>3, <3>4, KeepCounts DEF Once
  <2> QED BY <2>1, <2>2
<1>12. PostsInTime'
  BY <1>1, <1>4, <1>5, <1>10, KeepPosts DEF Once, NoneEarlier
<1> QED BY <1>6, <1>9, <1>11, <1>12 DEF Once

\* getitimer reads the clock.
LEMMA GetOnce == ASSUME IInv, IInv', Calls, Once, getitimer PROVE Once'
<1>1. UNCHANGED <<now, busy, exp, due, vec8, countdown, stack>> /\ TypeOK /\ TypeOK' /\ User /\ u_now <= u_now'
  BY DEF getitimer, irq, IInv, Calls, ClockIsRead
<1>2. stack # <<>> => ~Arming(Top)
  BY <1>1, UserFacts
<1>3. ArmsAlone'
  BY <1>1, <1>2 DEF Once, ArmsAlone, Top, Arming
<1>4. AsAsked' /\ TickIsStopped' /\ PostsInTime'
  BY <1>1 DEF Once, AsAsked, TickIsStopped, NoneArmed, PostsInTime, PostTime, Top
<1>5. Kept(Len(stack)) /\ (\A k \in Len(stack) + 1 .. Len(stack') : FALSE)
  BY <1>1 DEF Kept, TypeOK
<1>6. LaterDue(Len(stack))
  BY <1>1, SameDue DEF LaterDue, NoneEarlier
<1>7. CountsAreEarly'
  BY <1>1, <1>5, <1>6, KeepCounts DEF Once
<1> QED BY <1>3, <1>4, <1>7 DEF Once

\* setitimer stores the times.
LEMMA SetOnce == ASSUME IInv, IInv', Calls, Once, Disarm \/ SetInterval \/ SetValue \/ SetOrigin PROVE Once'
<1>1. /\ stack # <<>> /\ UNCHANGED <<now, u_now, busy, vec8, countdown>> /\ TypeOK /\ TypeOK' /\ stack' \in Seq(Activation)
      /\ Top.at \in {"disarm", "interval", "value", "origin"}
  <2>1. stack # <<>> /\ Top.at \in {"disarm", "interval", "value", "origin"}
    BY DEF Disarm, SetInterval, SetValue, SetOrigin, At
  <2>2. UNCHANGED <<now, u_now, busy, vec8, countdown>>
    BY DEF Disarm, SetInterval, SetValue, SetOrigin, irq
  <2> QED BY <2>1, <2>2 DEF IInv, TypeOK
<1>2. Top \in Activation /\ CallFits(Top)
  BY <1>1, TopCalls
<1>3. Top.op = "setitimer" /\ ~FindsNothing(Top) /\ ~StopsTheTick(Top) /\ Top.at # "unhook" /\ Top.which \in Timers /\ Top.val \in Nat
  BY <1>1, <1>2 DEF CallFits, ActionLabels, StopLabels, Activation, FindsNothing, StopsTheTick
<1>4. exp \in [Timers -> Nat] /\ due \in [Timers -> Nat] /\ u_now \in Nat
  BY <1>1, UnitAssumption DEF TypeOK
<1>5. CASE Disarm
  <2>1. ~Arming(Top)
    BY <1>2, <1>5 DEF Disarm, At, CallFits, Arming, ArmLabels, StartLabels
  <2>2. exp = due
    BY <2>1 DEF Once, AsAsked
  <2>3. exp' = due' /\ NoneEarlier
    BY <1>3, <1>4, <1>5, <2>2 DEF Disarm, NoneEarlier
  <2>4. PICK at \in {"stop", "interval"} : Goto(at) /\ (NoneArmed' => at = "stop")
    BY <1>5, Zenon DEF Disarm, NoneArmed
  <2>5. at \in Labels /\ at # "count"
    BY DEF Labels
  <2>6. Kept(Len(stack) - 1) /\ stack' # <<>> /\ Top'.at = at
    BY <1>1, <2>4, <2>5, GotoKept
  <2>7. TickIsStopped'
    <3>1. CASE at = "stop"
      BY <1>1, <2>6, <3>1, TopStops DEF StopsTheTick
    <3>2. CASE at # "stop"
      BY <2>4, <3>2 DEF TickIsStopped
    <3> QED BY <3>1, <3>2
  <2>8. PostsInTime'
    BY <1>1, <1>3, <2>3, <2>6, SamePosts
  <2> QED BY <1>1, <1>3, <2>1, <2>3, <2>4, <2>5, <2>7, <2>8, GotoOnce
<1>6. CASE SetInterval /\ Top.val = 0
  BY <1>1, <1>3, <1>6, ReturnOnce DEF SetInterval, Arming
<1>7. CASE (SetInterval /\ Top.val # 0) \/ SetValue \/ SetOrigin
  <2>1. Arming(Top)
    BY <1>2, <1>3, <1>7 DEF SetValue, SetOrigin, At, CallFits, Arming, DisarmLabels, StopLabels
  <2>2. AloneWithIt
    BY <1>1, <2>1 DEF Once, ArmsAlone
  <2>3. ASSUME NEW at \in {"value", "origin", "next"}, Goto(at), AloneWithIt', LaterDue(Len(stack) - 1) PROVE Once'
    <3>1. at \in Labels /\ at # "count"
      BY DEF Labels
    <3>2. /\ Kept(Len(stack) - 1) /\ Len(stack') = Len(stack) /\ stack' # <<>> /\ Top'.at = at /\ Top'.op = Top.op /\ Top'.val = Top.val
      BY <1>1, <2>3, <3>1, GotoKept
    <3>3. Arming(Top')
      BY <2>1, <3>2 DEF Arming
    <3> QED BY <1>1, <2>1, <2>3, <3>1, <3>2, <3>3, ArmOnce
  <2>4. ASSUME NEW at \in {"value", "origin", "next"}, Goto(at) PROVE Top'.at = at /\ Top'.which = Top.which /\ Top'.val = Top.val
    <3>1. at \in Labels
      BY DEF Labels
    <3> QED BY <1>1, <2>4, <3>1, GotoKept
  <2>5. CASE SetInterval /\ Top.val # 0
    <3>1. Goto("value") /\ Top.at = "interval" /\ UNCHANGED <<exp, due>>
      BY <2>5 DEF SetInterval, At
    <3>2. LaterDue(Len(stack) - 1)
      BY <1>1, <3>1, SameDue DEF LaterDue, NoneEarlier
    <3>3. Top'.at = "value" /\ Top'.which = Top.which /\ Top'.val = Top.val
      BY <2>4, <3>1
    <3>4. AloneWithIt'
      BY <1>1, <2>2, <3>1, <3>3 DEF AloneWithIt, StartLabels
    <3> QED BY <2>3, <3>1, <3>2, <3>4
  <2>6. CASE SetValue
    <3>1. /\ Goto("origin") /\ Top.at = "value"
          /\ exp' = [exp EXCEPT ![Top.which] = Top.val] /\ due' = [due EXCEPT ![Top.which] = u_now + Top.val]
      BY <2>6 DEF SetValue, At
    <3>2. Top'.at = "origin" /\ Top'.which = Top.which /\ Top'.val = Top.val
      BY <2>4, <3>1
    <3>3. exp'[Top.which] = Top.val /\ due'[Top.which] = u_now + Top.val
          /\ \A w \in Timers : w # Top.which => exp'[w] = exp[w] /\ due'[w] = due[w]
      BY <1>3, <1>4, <3>1
    <3>4. \A w \in Timers : exp[w] = 0 /\ due[w] = 0
      BY <2>2, <3>1 DEF AloneWithIt
    <3>5. AloneWithIt'
      BY <1>1, <2>1, <2>2, <3>2, <3>3, <3>4 DEF AloneWithIt, StartLabels, Arming
    <3>6. LaterDue(Len(stack) - 1)
      <4>1. Len(stack) \in Len(stack) - 1 + 1 .. Len(stack) /\ stack[Len(stack)] = Top
        BY <1>1, TopFacts DEF Top
      <4>2. Above(Len(stack) - 1)
        BY <1>3, <4>1 DEF Above
      <4>3. u_now <= u_now + Top.val
        BY <1>3, <1>4
      <4> QED BY <3>3, <3>4, <4>2, <4>3 DEF LaterDue
    <3> QED BY <2>3, <3>1, <3>5, <3>6
  <2>7. CASE SetOrigin
    <3>1. Goto("next") /\ Top.at = "origin" /\ exp' = [exp EXCEPT ![Top.which] = exp[Top.which] + u_now] /\ UNCHANGED due
      BY <2>7, Zenon DEF SetOrigin, At
    <3>2. Top'.at = "next" /\ Top'.which = Top.which /\ Top'.val = Top.val
      BY <2>4, <3>1
    <3>3. exp[Top.which] = Top.val /\ exp[Top.which] # 0 /\ due[Top.which] = u_now + Top.val
      BY <2>2, <3>1 DEF AloneWithIt
    <3>4. exp'[Top.which] = due[Top.which] /\ exp'[Top.which] # 0 /\ \A w \in Timers : w # Top.which => exp'[w] = exp[w]
      BY <1>3, <1>4, <3>1, <3>3
    <3>5. AloneWithIt'
      BY <1>1, <2>2, <3>1, <3>2, <3>3, <3>4 DEF AloneWithIt, StartLabels
    <3>6. LaterDue(Len(stack) - 1)
      BY <1>1, <3>1, SameDue DEF LaterDue, NoneEarlier
    <3> QED BY <2>3, <3>1, <3>5, <3>6
  <2> QED BY <1>7, <2>5, <2>6, <2>7
<1> QED BY <1>5, <1>6, <1>7

\* At the start no timer is armed and the tick is not ours.
LEMMA InitTInv == Init => TInv
<1> SUFFICES ASSUME Init PROVE TInv
  OBVIOUS
<1>1. Len(stack) = 0 /\ stack = <<>>
  BY DEF Init
<1>2. Calls
  BY <1>1, UnitAssumption DEF Init, Calls, CallsFit, FlagsAgree, ClockIsRead
<1>3. Once
  BY <1>1 DEF Init, Once, ArmsAlone, AsAsked, TickIsStopped, CountsAreEarly, PostsInTime
<1> QED BY <1>2, <1>3 DEF TInv

\* The count of timers set while one is running only grows.
LEMMA NeverForgotten == ASSUME IInv, IInv', Next, rearmed' = 0 PROVE rearmed = 0
<1>1. rearmed \in Nat /\ rearmed' \in Nat
  BY ArgAssumption DEF IInv, TypeOK
<1>2. setitimer => rearmed' = rearmed + 1 \/ rearmed' = rearmed
  BY DEF setitimer
<1>3. ~setitimer => UNCHANGED rearmed
  BY DEF Next, Advance, Deliver, Next_, Count, Hook, HookSignal, HookVector, StopTest, StopCount, StopVector,
     StopFlag, StopSignal, ActionClock, Raise, HandlerReturn, Check, Disarm, SetInterval, SetValue, SetOrigin, getitimer
<1> QED BY <1>1, <1>2, <1>3

\* Every step keeps the invariant.
LEMMA NextTInv == ASSUME IInv, IInv', TInv, [Next]_vars PROVE TInv'
<1>1. Calls
  BY DEF TInv
<1>2. CASE UNCHANGED vars
  <2>1. UNCHANGED <<now, busy, u_now, exp, due, timer_on, vec8, sigtimr, countdown, stack, rearmed>>
    BY <1>2 DEF vars, statics, irq
  <2>2. Calls'
    BY <1>1, <2>1 DEF Calls, CallsFit, FlagsAgree, ClockIsRead, Since, Top
  <2>3. Once => Once'
    BY <2>1 DEF Once, ArmsAlone, AloneWithIt, AsAsked, TickIsStopped, NoneArmed, CountsAreEarly, PostsInTime, PostTime, Since, Top
  <2> QED BY <2>1, <2>2, <2>3 DEF TInv
<1>3. CASE Next
  <2>1. Calls'
    BY <1>1, <1>3, AdvanceCalls, DeliverCalls, StartCalls, StopCalls, ActionCalls, SetCalls DEF Next
  <2>2. ASSUME rearmed' = 0 PROVE Once'
    <3>1. rearmed = 0
      BY <1>3, <2>2, NeverForgotten
    <3>2. Once
      BY <3>1 DEF TInv
    <3> QED BY <1>1, <1>3, <2>2, <3>1, <3>2, AdvanceOnce, DeliverOnce, StartOnce, StopOnce, ClockOnce, CheckOnce, RaiseOnce,
               BeginOnce, GetOnce, SetOnce DEF Next
  <2> QED BY <2>1, <2>2 DEF TInv
<1> QED BY <1>2, <1>3

\* The calls keep their order, and the times are kept while timers are set only when none
\* is running (itimer.c, setitimer and timer_action).
THEOREM TimesInvariance == Spec => []TInv
<1>1. IInv /\ IInv' /\ TInv /\ [Next]_vars => TInv'
  BY NextTInv
<1> QED BY <1>1, InitTInv, Invariance, PTL DEF Spec

\* Between calls the tick that posts SIGTIMR comes no later than MaxSlip after the earliest
\* expiry, whatever the length of a tick and however the calls, the handlers and the ticks
\* interleave (itimer.c start_timer, timer_action; exceptn.S ___djgpp_timer_hdlr).
THEOREM TickComesInTime == Spec => []NotLate
<1>1. TInv => NotLate
  <2> SUFFICES ASSUME TInv, Quiet, timer_on, rearmed = 0, NEW w \in Timers, exp[w] # 0
               PROVE  countdown = 0 \/ PostTime <= due[w] + MaxSlip
    BY DEF NotLate
  <2>1. stack = <<>> /\ Calls /\ Once
    BY DEF Quiet, TInv
  <2>2. vec8 = "ours" /\ exp = due
    BY <2>1 DEF Calls, FlagsAgree, Once, AsAsked
  <2>3. \A i \in 1 .. Len(stack) : FALSE
    BY <2>1
  <2> QED BY <2>1, <2>2, <2>3 DEF Once, PostsInTime
<1> QED BY <1>1, TimesInvariance, PTL

\* timer_action takes a timer for expired only when it was asked to expire by now (itimer.c
\* timer_action compares with the clock it has just read, and no setitimer that it
\* interrupts has left a time relative to the call).
THEOREM TimersAreNotEarly == Spec => NotEarly
<1>1. ASSUME IInv, TInv, rearmed = 0, NEW w \in Timers, Check(w), Expired(w) PROVE due[w] # 0 /\ due[w] <= now
  <2>1. TypeOK /\ Calls /\ Once /\ stack # <<>> /\ Top.at = w
    BY <1>1, CheckFacts DEF IInv, TInv
  <2>2. Top \in Activation /\ CallFits(Top)
    BY <2>1, TopCalls
  <2>3. ~Arming(Top)
    BY <2>1, <2>2 DEF CallFits, Arming, ArmLabels, StartLabels, Timers
  <2>4. exp = due /\ u_now <= now /\ u_now \in Int /\ now \in Int /\ due[w] \in Int
    BY <2>1, <2>3, UnitAssumption DEF Once, AsAsked, Calls, ClockIsRead, TypeOK
  <2> QED BY <1>1, <2>4 DEF Expired
<1>2. IInv /\ TInv /\ [Next]_vars =>
        [rearmed = 0 => \A w \in Timers : Check(w) /\ Expired(w) => due[w] # 0 /\ due[w] <= now]_vars
  BY <1>1
<1> QED BY <1>2, Invariance, TimesInvariance, PTL DEF Spec, NotEarly
-----------------------------------------------------------------------------
(* A one-shot timer is served, when no call is in progress for as long as a tick. *)

\* Another tick may come before the program is idle again.
TickMayCome == (now \div U + 1) * U <= Since + MaxSlip

\* A call of setitimer that arms no timer and is past clearing the one it was called for.
Cleared(f) == f.op = "setitimer" /\ f.val = 0 /\ f.at # "disarm"

\* Calls of setitimer below which, for all they know, their timer is still disarmed.
StillClear(n) == \A i \in 1 .. n : stack[i].op = "setitimer" /\ (Cleared(stack[i]) => exp[stack[i].which] = 0)

\* At most one timer is armed at a time.
OneArmed == \A w \in Timers, t \in Timers : exp[w] # 0 /\ exp[t] # 0 => w = t

\* Only one tick comes while calls are in progress: up to its signal no handler ran.
OneTick ==
  /\ TickMayCome \/ forced => Len(stack) <= 1 /\ StillClear(Len(stack))
  /\ forced => ~TickMayCome

\* A timer_action that has not raised its signals yet is the innermost call.  It does not
\* leave a one-shot timer armed that has expired.
ActionOnTop ==
  \A i \in 1 .. Len(stack) : stack[i].op = "timer_action" /\ stack[i].at # "raise" =>
    /\ i = Len(stack) /\ ~forced /\ StillClear(Len(stack) - 1)
    /\ stack[i].at = "PROF" => (exp["REAL"] # 0 /\ rel["REAL"] = 0 => u_now < exp["REAL"])
    /\ stack[i].at = "next" => \A w \in Timers : exp[w] # 0 /\ rel[w] = 0 => u_now < exp[w]
    /\ stack[i].at \in StopLabels => \A w \in Timers : exp[w] # 0 => rel[w] # 0

\* A call of setitimer that gives the tick back has left no timer armed, and is
\* interrupted by nothing that arms one.
StopsForNone ==
  \A i \in 1 .. Len(stack) : stack[i].op = "setitimer" /\ stack[i].at \in StopLabels =>
    NoneArmed /\ \A k \in i + 1 .. Len(stack) : FindsNothing(stack[k])

\* The tick is ours for an armed one-shot timer, and for one that a setitimer in progress
\* is going to turn into one; the call that arms one is about to make it ours.
TickIsOurs == vec8 = "ours" \/ (stack # <<>> /\ Arming(Top))
ServedInTime ==
  /\ \A w \in Timers : exp[w] # 0 /\ rel[w] = 0 => TickIsOurs
  /\ \A i \in 1 .. Len(stack) : Cleared(stack[i]) /\ stack[i].at = "interval" /\ exp[stack[i].which] # 0 => TickIsOurs

Short == OneArmed /\ OneTick /\ ActionOnTop /\ StopsForNone /\ ServedInTime
SInv == rearmed = 0 => Short

\* The end of the tick lies less than a tick ahead; a tick comes when it is reached.
LEMMA TickAt ==
  ASSUME NEW d \in Nat \ {0}, NEW a \in Nat
  PROVE  /\ (a \div d + 1) * d \in Int /\ ((a + 1) \div d + 1) * d \in Int
         /\ (a \div d + 1) * d <= ((a + 1) \div d + 1) * d
         /\ (a + 1) % d = 0 => (a \div d + 1) * d = a + 1 /\ ((a + 1) \div d + 1) * d = a + 1 + d
<1>1. PICK q \in Nat : q = a \div d
  BY DivFacts
<1>2. PICK p \in Nat, s \in Nat : p = (a + 1) \div d /\ s = (a + 1) % d /\ a + 1 = d * p + s
  BY DivFacts
<1>3. p = IF s = 0 THEN q + 1 ELSE q
  BY <1>1, <1>2, TickDiv
<1>4. (q + 1) * d \in Int /\ (q + 2) * d \in Int /\ (q + 2) * d = (q + 1) * d + d /\ (q + 1) * d = d * (q + 1) /\ (q + 1) + 1 = q + 2
  OBVIOUS
<1>5. CASE s = 0
  <2>1. p = q + 1 /\ a + 1 = d * (q + 1)
    BY <1>2, <1>3, <1>5
  <2>2. (p + 1) * d = (q + 2) * d
    BY <1>4, <2>1
  <2> QED BY <1>1, <1>2, <1>4, <2>1, <2>2
<1>6. CASE s # 0
  <2>1. p = q
    BY <1>3, <1>6
  <2> QED BY <1>1, <1>2, <1>4, <1>6, <2>1
<1> QED BY <1>5, <1>6

\* The tick: after it none comes until the program is idle again.
LEMMA AdvanceShort == ASSUME MaxSlip < U, IInv, IInv', Calls, Short, Advance PROVE Short'
<1>1. /\ UNCHANGED <<exp, rel, u_now, vec8, stack>> /\ now' = now + 1 /\ now \in Nat /\ busy \in Nat /\ MaxSlip \in Nat /\ U \in Nat \ {0}
      /\ busy <= now /\ forced \in BOOLEAN
  BY UnitAssumption DEF Advance, IInv, TypeOK, statics, Calls, ClockIsRead
<1>2. OneArmed' /\ StopsForNone' /\ ServedInTime'
  BY <1>1 DEF Short, OneArmed, StopsForNone, ServedInTime, NoneArmed, TickIsOurs, Top, Cleared, FindsNothing
<1>3. PICK x \in Int, y \in Int : x = (now \div U + 1) * U /\ y = ((now + 1) \div U + 1) * U
  BY <1>1, TickAt
<1>4. x <= y /\ ((now + 1) % U = 0 => x = now + 1 /\ y = now + 1 + U)
  BY <1>1, <1>3, TickAt
<1>5. (TickMayCome <=> x <= now - busy + MaxSlip) /\ (TickMayCome' <=> y <= now' - busy' + MaxSlip)
  <2>1. TickMayCome' <=> (now' \div U + 1) * U <= Since' + MaxSlip
    BY DEF TickMayCome
  <2> QED BY <1>1, <1>3, <2>1 DEF TickMayCome, Since
<1>6. forced' => forced \/ (now + 1) % U = 0
  BY DEF Advance
<1>7. CASE stack # <<>> \/ forced
  <2>1. busy' = busy + 1 /\ busy < MaxSlip
    BY <1>7 DEF Advance
  <2>2. TickMayCome' => TickMayCome
    BY <1>1, <1>4, <1>5, <2>1
  <2>3. forced' => TickMayCome \/ forced
    BY <1>1, <1>4, <1>5, <1>6, <2>1
  <2>4. forced' => ~TickMayCome'
    <3>1. CASE forced
      BY <2>2, <3>1 DEF Short, OneTick
    <3>2. CASE ~forced
      BY <1>1, <1>4, <1>5, <1>6, <2>1, <3>2
    <3> QED BY <3>1, <3>2
  <2>5. OneTick'
    BY <1>1, <2>2, <2>3, <2>4 DEF Short, OneTick, StillClear, Cleared
  <2>6. ActionOnTop'
    <3>1. ASSUME NEW i \in 1 .. Len(stack), stack[i].op = "timer_action", stack[i].at # "raise" PROVE ~forced'
      BY <2>3, <3>1 DEF Short, ActionOnTop, OneTick, StillClear
    <3> QED BY <1>1, <3>1 DEF Short, ActionOnTop, StillClear, Cleared
  <2> QED BY <1>2, <2>5, <2>6 DEF Short
<1>8. CASE ~(stack # <<>> \/ forced)
  <2>1. busy' = 0 /\ Len(stack') = 0 /\ ~forced
    BY <1>1, <1>8 DEF Advance
  <2>2. forced' => ~TickMayCome'
    BY <1>1, <1>4, <1>5, <1>6, <2>1
  <2>3. StillClear(Len(stack))'
    BY <2>1 DEF StillClear
  <2>4. OneTick' /\ ActionOnTop'
    BY <2>1, <2>2, <2>3 DEF OneTick, ActionOnTop
  <2> QED BY <1>2, <2>4 DEF Short
<1> QED BY <1>7, <1>8

\* The calls up to the n-th stay clear of their timers.
LEMMA KeepClear ==
  ASSUME TypeOK, NEW n, Kept(n), StillClear(n), \A w \in Timers : exp[w] = 0 => exp'[w] = 0
  PROVE  \A i \in 1 .. n : stack'[i].op = "setitimer" /\ (Cleared(stack'[i]) => exp'[stack'[i].which] = 0)
<1> SUFFICES ASSUME NEW i \in 1 .. n
             PROVE  stack'[i].op = "setitimer" /\ (Cleared(stack'[i]) => exp'[stack'[i].which] = 0)
  OBVIOUS
<1>1. stack'[i] = stack[i] /\ i \in 1 .. Len(stack)
  BY DEF Kept
<1>2. stack[i] \in Activation
  BY <1>1 DEF TypeOK
<1>3. stack[i].which \in Timers
  BY <1>2 DEF Activation
<1> QED BY <1>1, <1>3 DEF StillClear

\* timer_action begins: no other is in progress.
LEMMA DeliverShort == ASSUME IInv, IInv', Short, Deliver PROVE Short'
<1> DEFINE e == Call("timer_action", "clock")
<1>1. /\ vec8 = "ours" /\ vec8' = vec8 /\ stack' = Append(stack, e) /\ UNCHANGED <<now, exp, rel, busy>> /\ TypeOK
      /\ forced /\ forced' = FALSE
  BY DEF Deliver, IInv, PostedByOurTick, TickHasItsHandler, statics, irq
<1>2. e \in Activation /\ FindsNothing(e) /\ e.op = "timer_action" /\ e.at = "clock"
  BY CallFacts DEF Labels, Call, FindsNothing
<1> HIDE DEF e
<1>3. Kept(Len(stack)) /\ Len(stack') = Len(stack) + 1 /\ Len(stack) \in Nat /\ stack' # <<>> /\ Top' = e
  BY <1>1, <1>2, PushKept
<1>4. stack'[Len(stack')] = e
  BY <1>3 DEF Top
<1>5. StillClear(Len(stack)) /\ ~TickMayCome
  BY <1>1 DEF Short, OneTick
<1>6. \A i \in 1 .. Len(stack) : stack'[i].op = "setitimer" /\ (Cleared(stack'[i]) => exp'[stack'[i].which] = 0)
  BY <1>1, <1>3, <1>5, KeepClear
<1>7. OneArmed' /\ OneTick' /\ ServedInTime'
  BY <1>1, <1>5 DEF Short, OneArmed, OneTick, ServedInTime, TickIsOurs, TickMayCome, Since
<1>8. ActionOnTop'
  <2> SUFFICES ASSUME NEW i \in 1 .. Len(stack'), stack'[i].op = "timer_action"
               PROVE  /\ i = Len(stack') /\ stack'[i].at = "clock" /\ ~forced'
                      /\ \A j \in 1 .. Len(stack') - 1 : stack'[j].op = "setitimer" /\ (Cleared(stack'[j]) => exp'[stack'[j].which] = 0)
    BY DEF ActionOnTop, StillClear, StopLabels
  <2>1. i = Len(stack')
    BY <1>3, <1>6
  <2> QED BY <1>1, <1>2, <1>3, <1>4, <1>6, <2>1
<1>9. StopsForNone'
  <2> SUFFICES ASSUME NEW i \in 1 .. Len(stack'), stack'[i].op = "setitimer", stack'[i].at \in StopLabels
               PROVE  NoneArmed' /\ \A k \in i + 1 .. Len(stack') : FindsNothing(stack'[k])
    BY DEF StopsForNone, FindsNothing
  <2>1. i \in 1 .. Len(stack) /\ stack'[i] = stack[i]
    BY <1>2, <1>3, <1>4 DEF Kept
  <2>2. NoneArmed /\ \A k \in i + 1 .. Len(stack) : FindsNothing(stack[k])
    BY <2>1 DEF Short, StopsForNone
  <2>3. ASSUME NEW k \in i + 1 .. Len(stack') PROVE FindsNothing(stack'[k])
    BY <1>2, <1>3, <1>4, <2>1, <2>2 DEF Kept
  <2> QED BY <1>1, <2>2, <2>3 DEF NoneArmed
<1> QED BY <1>7, <1>8, <1>9 DEF Short
\* While a timer_action or a handler is the innermost call no tick comes.
LEMMA NoMoreTicks ==
  ASSUME TypeOK, Short, stack # <<>>, Top.op # "setitimer"
  PROVE  ~TickMayCome /\ ~forced
<1>1. Len(stack) \in 1 .. Len(stack)
  BY TopFacts
<1> QED BY <1>1 DEF Short, OneTick, StillClear, Top

\* A timer_action that has not raised its signals is not interrupted.
LEMMA NoneBelow ==
  ASSUME TypeOK, ActionOnTop, NEW i \in 1 .. Len(stack) - 1
  PROVE  ~(stack[i].op = "timer_action" /\ stack[i].at # "raise")
<1>1. i \in 1 .. Len(stack) /\ i # Len(stack)
  BY DEF TypeOK
<1> QED BY <1>1 DEF ActionOnTop

\* A call that does more than look at the timers interrupts no setitimer that stops the tick.
LEMMA NoStopBelow ==
  ASSUME TypeOK, StopsForNone, stack # <<>>, ~FindsNothing(Top), NEW i \in 1 .. Len(stack) - 1
  PROVE  ~(stack[i].op = "setitimer" /\ stack[i].at \in StopLabels)
<1>1. i \in 1 .. Len(stack) /\ Len(stack) \in i + 1 .. Len(stack)
  BY TopFacts DEF TypeOK
<1> QED BY <1>1 DEF StopsForNone, Top

\* A call returns.
LEMMA ReturnShort ==
  ASSUME IInv, IInv', Short, stack # <<>>, stack' = Pop, UNCHANGED <<now, busy, forced, exp, u_now>>,
         vec8' = "ours" \/ (vec8' = vec8 /\ ~Arming(Top)),
         \A w \in Timers : exp[w] # 0 /\ rel'[w] = 0 => vec8' = "ours"
  PROVE  Short'
<1>1. TypeOK /\ Kept(Len(stack) - 1) /\ Len(stack') = Len(stack) - 1 /\ Len(stack) \in Nat \ {0}
  BY ReturnKept DEF IInv
<1>2. \A i \in 1 .. Len(stack') : i \in 1 .. Len(stack) - 1 /\ i \in 1 .. Len(stack) /\ stack'[i] = stack[i]
  BY <1>1 DEF Kept
<1>3. OneArmed'
  BY DEF Short, OneArmed
<1>4. OneTick'
  <2>1. TickMayCome' <=> TickMayCome
    BY DEF TickMayCome, Since
  <2>2. StillClear(Len(stack)) => StillClear(Len(stack))'
    BY <1>2 DEF StillClear, Cleared
  <2>3. Len(stack) <= 1 => Len(stack') <= 1
    BY <1>1
  <2> QED BY <2>1, <2>2, <2>3 DEF Short, OneTick
<1>5. ActionOnTop'
  <2>1. \A i \in 1 .. Len(stack') : ~(stack'[i].op = "timer_action" /\ stack'[i].at # "raise")
    BY <1>1, <1>2, NoneBelow DEF Short
  <2> QED BY <2>1 DEF ActionOnTop
<1>6. StopsForNone'
  <2> SUFFICES ASSUME NEW i \in 1 .. Len(stack'), stack'[i].op = "setitimer", stack'[i].at \in StopLabels
               PROVE  NoneArmed' /\ \A k \in i + 1 .. Len(stack') : FindsNothing(stack'[k])
    BY DEF StopsForNone, FindsNothing
  <2>1. NoneArmed /\ \A k \in i + 1 .. Len(stack) : FindsNothing(stack[k])
    BY <1>2 DEF Short, StopsForNone
  <2>2. \A k \in i + 1 .. Len(stack') : k \in i + 1 .. Len(stack) /\ stack'[k] = stack[k]
    BY <1>1, <1>2
  <2> QED BY <2>1, <2>2 DEF NoneArmed
<1>7. ServedInTime'
  <2>1. ASSUME NEW i \in 1 .. Len(stack'), Cleared(stack'[i]), stack'[i].at = "interval", exp'[stack'[i].which] # 0
        PROVE  vec8' = "ours"
    BY <1>2, <2>1 DEF Short, ServedInTime, TickIsOurs
  <2> QED BY <2>1 DEF ServedInTime, TickIsOurs, Cleared
<1> QED BY <1>3, <1>4, <1>5, <1>6, <1>7 DEF Short

\* A timer_action that has not raised its signals goes on.
ActionState ==
  /\ Top.at = "PROF" => (exp["REAL"] # 0 /\ rel["REAL"] = 0 => u_now < exp["REAL"])
  /\ Top.at = "next" => \A w \in Timers : exp[w] # 0 /\ rel[w] = 0 => u_now < exp[w]
  /\ Top.at \in StopLabels => \A w \in Timers : exp[w] # 0 => rel[w] # 0

\* What the innermost call knows of the timers when it is a timer_action.
LEMMA TopAction ==
  ASSUME TypeOK, Short, stack # <<>>, Top.op = "timer_action", Top.at # "raise"
  PROVE  ActionState /\ StillClear(Len(stack) - 1) /\ ~forced
<1>1. Len(stack) \in 1 .. Len(stack)
  BY TopFacts
<1> QED BY <1>1 DEF Short, ActionOnTop, ActionState, Top

\* It goes on.
LEMMA ActionShort ==
  ASSUME IInv, IInv', Short, stack # <<>>, Top.op = "timer_action", Top.at # "raise",
         Kept(Len(stack) - 1), Len(stack') = Len(stack), stack' # <<>>, Top'.op = "timer_action",
         UNCHANGED <<now, busy, forced, rel>>, \A w \in Timers : exp[w] = 0 => exp'[w] = 0,
         ActionState',
         ~FindsNothing(Top) \/ FindsNothing(Top') \/ ~NoneArmed,
         vec8' = vec8 \/ \A w \in Timers : exp'[w] # 0 => rel'[w] # 0
  PROVE  Short'
<1>1. TypeOK /\ Len(stack) \in Nat \ {0} /\ ~TickMayCome /\ ~forced /\ StillClear(Len(stack) - 1)
  BY TopFacts, NoMoreTicks, TopAction DEF IInv
<1>2. \A i \in 1 .. Len(stack') : i \in 1 .. Len(stack) - 1 \/ (i = Len(stack') /\ stack'[i] = Top')
  BY <1>1 DEF Top
<1>3. \A i \in 1 .. Len(stack) - 1 : stack'[i] = stack[i]
  BY DEF Kept
<1>4. \A i \in 1 .. Len(stack) - 1 : stack'[i].op = "setitimer" /\ (Cleared(stack'[i]) => exp'[stack'[i].which] = 0)
  BY <1>1, KeepClear
<1>5. OneArmed' /\ OneTick'
  BY <1>1 DEF Short, OneArmed, OneTick, TickMayCome, Since
<1>6. ActionOnTop'
  <2> SUFFICES ASSUME NEW i \in 1 .. Len(stack'), stack'[i].op = "timer_action"
               PROVE  /\ i = Len(stack') /\ ~forced' /\ stack'[i] = Top'
                      /\ \A j \in 1 .. Len(stack') - 1 : stack'[j].op = "setitimer" /\ (Cleared(stack'[j]) => exp'[stack'[j].which] = 0)
    BY DEF ActionOnTop, StillClear, ActionState, Top
  <2> QED BY <1>1, <1>2, <1>4
<1>7. StopsForNone'
  <2> SUFFICES ASSUME NEW i \in 1 .. Len(stack'), stack'[i].op = "setitimer", stack'[i].at \in StopLabels
               PROVE  NoneArmed' /\ \A k \in i + 1 .. Len(stack') : FindsNothing(stack'[k])
    BY DEF StopsForNone, FindsNothing
  <2>1. i \in 1 .. Len(stack) - 1 /\ i \in 1 .. Len(stack) /\ stack'[i] = stack[i]
    BY <1>1, <1>2, <1>3
  <2>2. NoneArmed /\ \A k \in i + 1 .. Len(stack) : FindsNothing(stack[k])
    BY <2>1 DEF Short, StopsForNone
  <2>3. FindsNothing(Top) /\ FindsNothing(Top')
    <3>1. Len(stack) \in i + 1 .. Len(stack)
      BY <1>1, <2>1
    <3> QED BY <2>2, <3>1 DEF Top
  <2>4. ASSUME NEW k \in i + 1 .. Len(stack') PROVE FindsNothing(stack'[k])
    <3>1. k \in 1 .. Len(stack')
      BY <2>1
    <3>2. CASE k \in 1 .. Len(stack) - 1
      BY <1>3, <2>2, <3>2
    <3>3. CASE k \notin 1 .. Len(stack) - 1
      BY <1>2, <2>3, <3>1, <3>3
    <3> QED BY <3>2, <3>3
  <2> QED BY <2>2, <2>4 DEF NoneArmed
<1>8. ServedInTime'
  <2>1. ASSUME NEW w \in Timers, exp'[w] # 0, rel'[w] = 0 PROVE vec8' = "ours"
    <3>1. exp[w] # 0 /\ rel[w] = 0 /\ ~Arming(Top)
      BY <2>1 DEF Arming
    <3>2. vec8 = "ours"
      BY <3>1 DEF Short, ServedInTime, TickIsOurs
    <3> QED BY <2>1, <3>2
  <2>2. \A i \in 1 .. Len(stack') : Cleared(stack'[i]) => exp'[stack'[i].which] = 0
    BY <1>2, <1>4 DEF Cleared
  <2> QED BY <2>1, <2>2 DEF ServedInTime, TickIsOurs, Cleared
<1> QED BY <1>5, <1>6, <1>7, <1>8 DEF Short

\* A call of setitimer that arms nothing goes on, its timer being clear.
LEMMA ClearShort ==
  ASSUME IInv, IInv', Short, stack # <<>>, Top.op = "setitimer", Top.val = 0, Kept(Len(stack) - 1), Len(stack') = Len(stack),
         stack' # <<>>, Top'.op = "setitimer", Top'.which = Top.which,
         UNCHANGED <<now, busy, forced>>, \A w \in Timers : exp'[w] # 0 => exp'[w] = exp[w] /\ rel'[w] = rel[w],
         exp'[Top.which] = 0, Top'.at \in StopLabels => NoneArmed', vec8' = vec8 \/ NoneArmed'
  PROVE  Short'
<1>1. TypeOK /\ Len(stack) \in Nat \ {0} /\ ~Arming(Top) /\ ~FindsNothing(Top)
  BY TopFacts DEF IInv, Arming, FindsNothing
<1>2. \A i \in 1 .. Len(stack') : i \in 1 .. Len(stack) - 1 \/ (i = Len(stack') /\ stack'[i] = Top')
  BY <1>1 DEF Top
<1>3. \A i \in 1 .. Len(stack) - 1 : stack'[i] = stack[i] /\ i \in 1 .. Len(stack)
  BY <1>1 DEF Kept
<1>4. OneArmed'
  BY DEF Short, OneArmed
<1>5. OneTick'
  <2>1. TickMayCome' <=> TickMayCome
    BY DEF TickMayCome, Since
  <2>2. ASSUME Len(stack) <= 1 PROVE StillClear(Len(stack))'
    <3>1. \A i \in 1 .. Len(stack') : stack'[i] = Top'
      BY <1>1, <1>2, <2>2
    <3> QED BY <3>1 DEF StillClear
  <2> QED BY <2>1, <2>2 DEF Short, OneTick
<1>6. ActionOnTop'
  <2>1. \A i \in 1 .. Len(stack') : ~(stack'[i].op = "timer_action" /\ stack'[i].at # "raise")
    BY <1>1, <1>2, <1>3, NoneBelow DEF Short
  <2> QED BY <2>1 DEF ActionOnTop
<1>7. StopsForNone'
  <2> SUFFICES ASSUME NEW i \in 1 .. Len(stack'), stack'[i].op = "setitimer", stack'[i].at \in StopLabels
               PROVE  NoneArmed' /\ \A k \in i + 1 .. Len(stack') : FindsNothing(stack'[k])
    BY DEF StopsForNone, FindsNothing
  <2>1. i = Len(stack') /\ stack'[i] = Top'
    BY <1>1, <1>2, <1>3, NoStopBelow DEF Short
  <2>2. \A k \in i + 1 .. Len(stack') : FALSE
    BY <1>1, <2>1
  <2> QED BY <2>1, <2>2
<1>8. ServedInTime'
  <2>1. ASSUME NEW w \in Timers, exp'[w] # 0, rel'[w] = 0 PROVE vec8' = "ours"
    BY <1>1, <2>1 DEF Short, ServedInTime, TickIsOurs, NoneArmed
  <2>2. ASSUME NEW i \in 1 .. Len(stack'), Cleared(stack'[i]), stack'[i].at = "interval", exp'[stack'[i].which] # 0
        PROVE  vec8' = "ours"
    <3>1. i \in 1 .. Len(stack) - 1
      BY <1>2, <2>2
    <3>2. stack'[i] = stack[i] /\ i \in 1 .. Len(stack)
      BY <1>3, <3>1
    <3>3. stack[i] \in Activation
      BY <1>1, <3>2 DEF TypeOK
    <3>4. stack[i].which \in Timers
      BY <3>3 DEF Activation
    <3>5. exp[stack[i].which] # 0 /\ ~NoneArmed'
      BY <2>2, <3>2, <3>4 DEF NoneArmed
    <3>6. vec8 = "ours"
      BY <1>1, <2>2, <3>2, <3>5 DEF Short, ServedInTime, TickIsOurs
    <3> QED BY <3>5, <3>6
  <2> QED BY <2>1, <2>2 DEF ServedInTime, TickIsOurs, Cleared
<1> QED BY <1>4, <1>5, <1>6, <1>7, <1>8 DEF Short

\* A call of setitimer that arms a timer goes on.
LEMMA ArmShort ==
  ASSUME IInv, IInv', Calls', Once', Short, stack # <<>>, Arming(Top), Kept(Len(stack) - 1), Len(stack') = Len(stack), stack' # <<>>,
         Arming(Top'), UNCHANGED <<now, busy, forced>>
  PROVE  Short'
<1>1. TypeOK /\ Len(stack) \in Nat \ {0} /\ ~FindsNothing(Top) /\ Top'.op = "setitimer" /\ Top'.val # 0
  BY TopFacts DEF IInv, Arming, FindsNothing
<1>2. \A i \in 1 .. Len(stack') : i \in 1 .. Len(stack) - 1 \/ (i = Len(stack') /\ stack'[i] = Top')
  BY <1>1 DEF Top
<1>3. \A i \in 1 .. Len(stack) - 1 : stack'[i] = stack[i] /\ i \in 1 .. Len(stack)
  BY <1>1 DEF Kept
<1>4. OneArmed'
  BY DEF Once, ArmsAlone, AloneWithIt, Arming, OneArmed
<1>5. OneTick'
  <2>1. TickMayCome' <=> TickMayCome
    BY DEF TickMayCome, Since
  <2>2. ASSUME Len(stack) <= 1 PROVE StillClear(Len(stack))'
    <3>1. \A i \in 1 .. Len(stack') : stack'[i] = Top'
      BY <1>1, <1>2, <2>2
    <3> QED BY <1>1, <3>1 DEF StillClear, Cleared
  <2> QED BY <2>1, <2>2 DEF Short, OneTick
<1>6. ActionOnTop'
  <2>1. \A i \in 1 .. Len(stack') : ~(stack'[i].op = "timer_action" /\ stack'[i].at # "raise")
    BY <1>1, <1>2, <1>3, NoneBelow DEF Short
  <2> QED BY <2>1 DEF ActionOnTop
<1>7. StopsForNone'
  <2>1. Top'.at \notin StopLabels
    <3>1. Len(stack') \in 1 .. Len(stack')
      BY <1>1
    <3>2. CallFits(Top)'
      BY <3>1 DEF Calls, CallsFit, Top
    <3> QED BY <1>1, <3>2 DEF CallFits, ArmLabels, StartLabels, StopLabels
  <2>2. \A i \in 1 .. Len(stack') : ~(stack'[i].op = "setitimer" /\ stack'[i].at \in StopLabels)
    BY <1>1, <1>2, <1>3, <2>1, NoStopBelow DEF Short
  <2> QED BY <2>2 DEF StopsForNone
<1>8. ServedInTime'
  BY DEF ServedInTime, TickIsOurs, Arming
<1> QED BY <1>4, <1>5, <1>6, <1>7, <1>8 DEF Short
\* start_timer, and timer_action when it looks for the next expiry: it stops the tick only for
\* want of a one-shot timer.
LEMMA StartShort ==
  ASSUME IInv, IInv', Calls, Calls', Once, Once', Short, Next_ \/ Count \/ Hook \/ HookSignal \/ HookVector
  PROVE  Short'
<1>1. stack # <<>> /\ UNCHANGED <<now, busy, u_now, exp, rel, forced>> /\ TypeOK
  BY DEF Next_, Count, Hook, HookSignal, HookVector, At, IInv, statics
<1>2. Top \in Activation /\ CallFits(Top)
  BY <1>1, TopCalls
<1>3. CASE Next_
  <2>1. PICK at \in {"stop", "count"} : /\ stack' = Append(Pop, [Top EXCEPT !.next = GetNextEvent, !.at = at])
                                        /\ at = "stop" => Top.op = "timer_action" /\ GetNextEvent = 0
    BY <1>3 DEF Next_
  <2> DEFINE e == [Top EXCEPT !.next = GetNextEvent, !.at = at]
  <2>2. e \in Activation /\ e.at = at /\ e.op = Top.op /\ e.val = Top.val
    BY <1>1, <1>2, NextEventFacts DEF Activation, Labels
  <2>3. stack' = Append(Pop, e)
    BY <2>1
  <2> HIDE DEF e
  <2>4. Kept(Len(stack) - 1) /\ Len(stack') = Len(stack) /\ stack' # <<>> /\ Top' = e
    BY <1>1, <2>2, <2>3, MoveKept
  <2>5. Top.at = "next" /\ UNCHANGED vec8
    BY <1>3 DEF Next_, At, irq
  <2>6. CASE Arming(Top)
    <3>1. Arming(Top')
      BY <2>2, <2>4, <2>6 DEF Arming
    <3> QED BY <1>1, <2>4, <2>6, <3>1, ArmShort
  <2>7. CASE ~Arming(Top)
    <3>1. Top.op = "timer_action" /\ ~FindsNothing(Top)
      BY <1>2, <2>5, <2>7 DEF CallFits, Arming, Activation, DisarmLabels, StopLabels, FindsNothing
    <3>2. ActionState
      BY <1>1, <2>5, <3>1, TopAction
    <3>3. ASSUME at = "stop", NEW w \in Timers, exp[w] # 0, rel[w] = 0 PROVE FALSE
      <4>1. u_now < exp[w]
        BY <2>5, <3>2, <3>3 DEF ActionState
      <4>2. \A t \in Timers : t # w => exp[t] = 0
        BY <3>3 DEF Short, OneArmed
      <4>3. GetNextEvent = exp[w] - u_now /\ GetNextEvent = 0
        BY <1>1, <2>1, <3>3, <4>2, NextEventFacts
      <4>4. exp[w] \in Int /\ u_now \in Int
        BY <1>1, UnitAssumption DEF TypeOK
      <4> QED BY <4>1, <4>3, <4>4
    <3>4. ActionState'
      <4>1. Top'.at = at /\ at \notin {"PROF", "next"} /\ (at \in StopLabels => at = "stop")
        BY <2>2, <2>4 DEF StopLabels
      <4> QED BY <1>1, <3>3, <4>1 DEF ActionState
    <3> QED BY <1>1, <2>2, <2>4, <2>5, <3>1, <3>4, ActionShort
  <2> QED BY <2>6, <2>7
<1>4. CASE Count \/ HookSignal \/ (Hook /\ ~timer_on)
  <2>1. PICK at \in {"raise", "hook", "signal", "vector"} : Goto(at)
    BY <1>4 DEF Count, Hook, HookSignal
  <2>2. at \in Labels /\ Top.at \in {"count", "hook", "signal"} /\ UNCHANGED vec8
    BY <1>4 DEF Labels, Count, Hook, HookSignal, At
  <2>3. Kept(Len(stack) - 1) /\ Len(stack') = Len(stack) /\ stack' # <<>> /\ Top'.at = at /\ Top'.op = Top.op /\ Top'.val = Top.val
    BY <1>1, <2>1, <2>2, GotoKept
  <2>4. CASE Arming(Top)
    <3>1. Arming(Top')
      BY <2>3, <2>4 DEF Arming
    <3> QED BY <1>1, <2>3, <2>4, <3>1, ArmShort
  <2>5. CASE ~Arming(Top)
    <3>1. Top.op = "timer_action" /\ ~FindsNothing(Top)
      BY <1>2, <2>2, <2>5 DEF CallFits, Arming, Activation, DisarmLabels, StopLabels, FindsNothing
    <3>2. ActionState'
      BY <2>3 DEF ActionState, StopLabels
    <3> QED BY <1>1, <2>2, <2>3, <3>1, <3>2, ActionShort
  <2> QED BY <2>4, <2>5
<1>5. CASE Hook /\ timer_on
  <2>1. stack' = Pop /\ UNCHANGED vec8 /\ vec8 = "ours"
    BY <1>1, <1>5 DEF Hook, At, Calls, FlagsAgree, Undisturbed
  <2> QED BY <1>1, <2>1, ReturnShort
<1>6. CASE HookVector
  <2>1. stack' = Pop /\ vec8' = "ours"
    BY <1>6 DEF HookVector
  <2> QED BY <1>1, <2>1, ReturnShort
<1> QED BY <1>3, <1>4, <1>5, <1>6

\* stop_timer gives the tick back only when no one-shot timer is armed.
LEMMA StopShort ==
  ASSUME IInv, IInv', Calls, Short, StopTest \/ StopCount \/ StopVector \/ StopFlag \/ StopSignal
  PROVE  Short'
<1>1. stack # <<>> /\ UNCHANGED <<now, busy, u_now, exp, rel, forced>> /\ TypeOK /\ Top.at \in StopLabels
  BY DEF StopTest, StopCount, StopVector, StopFlag, StopSignal, At, IInv, statics, StopLabels
<1>2. Top \in Activation /\ CallFits(Top)
  BY <1>1, TopCalls
<1>3. Top.op = "timer_action" \/ (Top.op = "setitimer" /\ Top.val = 0)
  BY <1>1, <1>2 DEF CallFits, StopLabels, ArmLabels, StartLabels, Activation
<1>4. PICK at \in {"minus1", "raise", "interval", "unhook", "off", "default"} : Goto(at)
  <2>1. StopTest \/ StopSignal => \E at \in {"minus1", "raise", "interval", "unhook", "off", "default"} : Goto(at)
    BY DEF StopTest, StopSignal
  <2> QED BY <2>1 DEF StopCount, StopVector, StopFlag
<1>5. at \in Labels
  BY DEF Labels
<1>6. /\ Kept(Len(stack) - 1) /\ Len(stack') = Len(stack) /\ Len(stack) \in Nat \ {0} /\ stack' # <<>> /\ Top'.at = at
      /\ Top'.op = Top.op /\ Top'.val = Top.val /\ Top'.which = Top.which
  BY <1>1, <1>4, <1>5, GotoKept
<1>7. CASE Top.op = "timer_action"
  <2>1. \A w \in Timers : exp[w] # 0 => rel[w] # 0
    BY <1>1, <1>7, TopAction DEF ActionState, StopLabels
  <2>2. ActionState' /\ ~FindsNothing(Top) /\ Top.at # "raise"
    BY <1>1, <1>6, <2>1 DEF ActionState, FindsNothing, StopLabels
  <2> QED BY <1>1, <1>6, <1>7, <2>1, <2>2, ActionShort
<1>8. CASE Top.op = "setitimer" /\ Top.val = 0
  <2>1. NoneArmed
    BY <1>1, <1>6, <1>8 DEF Short, StopsForNone, Top
  <2>2. NoneArmed' /\ exp'[Top.which] = 0
    BY <1>1, <1>2, <2>1 DEF NoneArmed, Activation
  <2> QED BY <1>1, <1>6, <1>8, <2>2, ClearShort
<1> QED BY <1>3, <1>7, <1>8

\* timer_action reads the clock.
LEMMA ClockShort == ASSUME IInv, IInv', Short, ActionClock PROVE Short'
<1>1. stack # <<>> /\ UNCHANGED <<now, busy, exp, rel, forced, vec8>> /\ TypeOK /\ Top.at = "clock" /\ Top.op = "timer_action"
      /\ Goto("REAL") /\ "REAL" \in Labels
  BY DEF ActionClock, At, IInv, irq, Labels
<1>2. Kept(Len(stack) - 1) /\ Len(stack') = Len(stack) /\ stack' # <<>> /\ Top'.at = "REAL" /\ Top'.op = Top.op /\ Top'.do = Top.do
  BY <1>1, GotoKept
<1>3. ActionState' /\ (FindsNothing(Top) => FindsNothing(Top'))
  BY <1>1, <1>2 DEF ActionState, StopLabels, FindsNothing
<1> QED BY <1>1, <1>2, <1>3, ActionShort

\* timer_action looks at a timer: a one-shot timer that it leaves armed lies ahead.
LEMMA CheckShort == ASSUME IInv, IInv', Calls, Short, NEW w \in Timers, Check(w) PROVE Short'
<1>1. stack # <<>> /\ UNCHANGED <<now, u_now, busy, rel, forced, vec8>> /\ TypeOK
  BY DEF Check, At, irq, IInv
<1>2. Top \in Activation /\ Top.at = w /\ CallFits(Top)
  BY <1>1, TopCalls, CheckFacts
<1>3. Top.op = "timer_action" /\ ~Arming(Top) /\ Top.at # "raise"
  BY <1>2 DEF CallFits, Arming, Activation, ArmLabels, DisarmLabels, StartLabels, StopLabels, Timers
<1>4. exp \in [Timers -> Nat] /\ rel \in [Timers -> Nat] /\ u_now \in Nat
  BY <1>1, UnitAssumption DEF TypeOK
<1>5. /\ \A t \in Timers : t # w => exp'[t] = exp[t]
      /\ \A t \in Timers : exp[t] = 0 => exp'[t] = 0
      /\ exp'[w] # 0 /\ rel[w] = 0 => u_now < exp'[w]
  <2>1. CASE ~Expired(w)
    <3>1. exp' = exp
      BY <2>1 DEF Check
    <3> QED BY <1>4, <2>1, <3>1 DEF Expired
  <2>2. CASE Expired(w) /\ rel[w] # 0
    <3>1. exp' = [exp EXCEPT ![w] = exp[w] + rel[w]] /\ exp[w] # 0
      BY <2>2, Zenon DEF Check, ReloadOrDisarm, Expired
    <3> QED BY <1>4, <2>2, <3>1
  <2>3. CASE Expired(w) /\ ~(rel[w] # 0)
    <3>1. exp' = [exp EXCEPT ![w] = 0]
      BY <2>3, Zenon DEF Check, ReloadOrDisarm
    <3> QED BY <1>4, <3>1
  <2> QED BY <2>1, <2>2, <2>3
<1>6. CASE stack' = Pop
  <2>1. w = "PROF" /\ ~Expired(w)
    <3>1. Len(stack') = Len(stack) - 1 /\ Len(stack) \in Nat \ {0}
      BY <1>1, <1>6, ReturnKept
    <3>2. ASSUME NEW e \in Activation, stack' = Append(Pop, e) PROVE FALSE
      BY <1>1, <3>1, <3>2, MoveKept
    <3> QED BY <1>1, <3>2, CheckFacts
  <2>2. exp' = exp
    BY <2>1 DEF Check
  <2>3. \A t \in Timers : exp[t] # 0 /\ rel'[t] = 0 => vec8' = "ours"
    BY <1>1, <1>3 DEF Short, ServedInTime, TickIsOurs
  <2> QED BY <1>1, <1>3, <1>6, <2>2, <2>3, ReturnShort
<1>7. CASE stack' # Pop
  <2>1. PICK e \in Activation :
          /\ stack' = Append(Pop, e) /\ e.op = Top.op /\ e.val = Top.val
          /\ e.at = (IF w = "REAL" THEN "PROF" ELSE "next")
          /\ e.do = (IF Expired(w) THEN Top.do \union {w} ELSE Top.do)
          /\ w = "PROF" => e.do # {}
    BY <1>1, <1>7, CheckFacts
  <2>2. Kept(Len(stack) - 1) /\ Len(stack') = Len(stack) /\ stack' # <<>> /\ Top' = e
    BY <1>1, <2>1, MoveKept
  <2>3. ActionState'
    <3>1. ActionState
      BY <1>1, <1>3, TopAction
    <3>2. CASE w = "REAL"
      <4>1. Top'.at = "PROF"
        BY <2>1, <2>2, <3>2
      <4> QED BY <1>1, <1>5, <3>2, <4>1 DEF ActionState, StopLabels
    <3>3. CASE w = "PROF"
      <4>1. Top'.at = "next"
        BY <2>1, <2>2, <3>3
      <4>2. exp["REAL"] # 0 /\ rel["REAL"] = 0 => u_now < exp["REAL"]
        BY <1>2, <3>1, <3>3 DEF ActionState
      <4>3. \A t \in Timers : exp'[t] # 0 /\ rel'[t] = 0 => u_now' < exp'[t]
        BY <1>1, <1>5, <3>3, <4>2 DEF Timers
      <4> QED BY <4>1, <4>3 DEF ActionState, StopLabels
    <3> QED BY <3>2, <3>3 DEF Timers
  <2>4. ~FindsNothing(Top) \/ FindsNothing(Top') \/ ~NoneArmed
    <3>1. CASE Expired(w)
      BY <3>1 DEF Expired, NoneArmed
    <3>2. CASE ~Expired(w)
      <4>1. Top.do = {} => w = "REAL" /\ e.at = "PROF" /\ e.do = {}
        BY <2>1, <3>2 DEF Timers
      <4> QED BY <1>3, <2>1, <2>2, <4>1 DEF FindsNothing
    <3> QED BY <3>1, <3>2
  <2> QED BY <1>1, <1>3, <1>5, <2>1, <2>2, <2>3, <2>4, ActionShort
<1> QED BY <1>6, <1>7

\* timer_action raises its signals; a handler returns.
LEMMA RaiseShort == ASSUME IInv, IInv', Calls, Short, Raise \/ HandlerReturn PROVE Short'
<1>1. stack # <<>> /\ UNCHANGED <<now, u_now, busy, exp, rel, forced, vec8>> /\ TypeOK
  BY DEF Raise, HandlerReturn, At, irq, statics, IInv
<1>2. Top \in Activation /\ CallFits(Top) /\ Top.at \in {"raise", "body"}
  BY <1>1, TopCalls DEF Raise, HandlerReturn, At, User
<1>3. ~Arming(Top) /\ ~FindsNothing(Top) /\ Top.op # "setitimer"
  BY <1>2 DEF CallFits, Arming, FindsNothing, Activation, ArmLabels, DisarmLabels, StartLabels, StopLabels
<1>4. CASE stack' = Pop
  <2>1. \A t \in Timers : exp[t] # 0 /\ rel'[t] = 0 => vec8' = "ours"
    BY <1>1, <1>3 DEF Short, ServedInTime, TickIsOurs
  <2> QED BY <1>1, <1>3, <1>4, <2>1, ReturnShort
<1>5. CASE Raise /\ Top.do # {}
  <2>1. /\ Kept(Len(stack) - 1) /\ Len(stack') = Len(stack) + 1 /\ Len(stack) \in Nat \ {0} /\ stack' # <<>>
        /\ Top'.op = "handler" /\ Top'.at = "body"
        /\ stack'[Len(stack)].op = Top.op /\ stack'[Len(stack)].at = "raise"
    BY <1>1, <1>5, RaiseFacts
  <2>2. \A i \in 1 .. Len(stack') : i \in 1 .. Len(stack) - 1 \/ (stack'[i].op # "setitimer" /\ stack'[i].at \in {"raise", "body"})
    <3>1. \A i \in 1 .. Len(stack') : i \in 1 .. Len(stack) - 1 \/ i = Len(stack) \/ i = Len(stack')
      BY <2>1
    <3> QED BY <1>3, <2>1, <3>1 DEF Top
  <2>3. \A i \in 1 .. Len(stack) - 1 : stack'[i] = stack[i] /\ i \in 1 .. Len(stack)
    BY <2>1 DEF Kept
  <2>4. ~TickMayCome /\ ~forced
    BY <1>1, <1>3, NoMoreTicks
  <2>5. OneArmed' /\ OneTick'
    BY <1>1, <2>4 DEF Short, OneArmed, OneTick, TickMayCome, Since
  <2>6. ActionOnTop'
    <3>1. \A i \in 1 .. Len(stack') : ~(stack'[i].op = "timer_action" /\ stack'[i].at # "raise")
      <4>1. stack'[Len(stack')].op = "handler"
        BY <2>1 DEF Top
      <4>2. \A i \in 1 .. Len(stack') : i \in 1 .. Len(stack) - 1 \/ i = Len(stack) \/ i = Len(stack')
        BY <2>1
      <4> QED BY <1>1, <2>1, <2>3, <4>1, <4>2, NoneBelow DEF Short
    <3> QED BY <3>1 DEF ActionOnTop
  <2>7. StopsForNone'
    <3>1. \A i \in 1 .. Len(stack') : ~(stack'[i].op = "setitimer" /\ stack'[i].at \in StopLabels)
      BY <1>1, <1>3, <2>2, <2>3, NoStopBelow DEF Short
    <3> QED BY <3>1 DEF StopsForNone
  <2>8. ServedInTime'
    <3>1. ASSUME NEW i \in 1 .. Len(stack'), Cleared(stack'[i]), stack'[i].at = "interval", exp'[stack'[i].which] # 0
          PROVE  vec8' = "ours"
      <4>1. i \in 1 .. Len(stack) /\ stack'[i] = stack[i]
        BY <2>2, <2>3, <3>1
      <4> QED BY <1>1, <1>3, <3>1, <4>1 DEF Short, ServedInTime, TickIsOurs
    <3>2. \A t \in Timers : exp'[t] # 0 /\ rel'[t] = 0 => vec8' = "ours"
      BY <1>1, <1>3 DEF Short, ServedInTime, TickIsOurs
    <3> QED BY <3>1, <3>2 DEF ServedInTime, TickIsOurs, Cleared
  <2> QED BY <2>5, <2>6, <2>7, <2>8 DEF Short
<1> QED BY <1>4, <1>5 DEF Raise, HandlerReturn
\* setitimer begins.
LEMMA BeginShort == ASSUME IInv, IInv', Calls, Short, setitimer PROVE Short'
<1>1. UNCHANGED <<now, busy, exp, rel, vec8, forced>> /\ TypeOK /\ User
  BY DEF setitimer, irq, IInv
<1>2. PICK e \in Activation : /\ stack' = Append(stack, e) /\ e.op = "setitimer"
                              /\ e.at = (IF e.val = 0 THEN "disarm" ELSE "interval")
  BY <1>1, BeginFacts
<1>3. stack # <<>> => ~Arming(Top) /\ ~FindsNothing(Top) /\ Top.op # "setitimer" /\ Top.op # "timer_action"
  <2>1. stack # <<>> => Top \in Activation /\ CallFits(Top) /\ Top.at = "body"
    BY <1>1, TopCalls DEF User
  <2> QED BY <2>1 DEF CallFits, Arming, FindsNothing, ArmLabels, DisarmLabels, StartLabels, StopLabels, ActionLabels
<1>4. Kept(Len(stack)) /\ Len(stack') = Len(stack) + 1 /\ Len(stack) \in Nat /\ stack' # <<>> /\ Top' = e
  BY <1>1, <1>2, PushKept
<1>5. \A i \in 1 .. Len(stack') : (i \in 1 .. Len(stack) /\ stack'[i] = stack[i]) \/ (i = Len(stack') /\ stack'[i] = e)
  BY <1>4 DEF Top, Kept
<1>6. ~Cleared(e) /\ e.at \notin StopLabels
  BY <1>2 DEF Cleared, StopLabels
<1>7. \A i \in 1 .. Len(stack) : stack[i] = Top \/ i \in 1 .. Len(stack) - 1
  BY <1>4 DEF Top
<1>8. OneArmed'
  BY <1>1 DEF Short, OneArmed
<1>9. OneTick'
  <2>1. TickMayCome' <=> TickMayCome
    BY <1>1 DEF TickMayCome, Since
  <2>2. CASE stack # <<>>
    BY <1>1, <1>3, <2>1, <2>2, NoMoreTicks DEF OneTick
  <2>3. CASE stack = <<>>
    <3>1. Len(stack) = 0
      BY <2>3
    <3>2. Len(stack') = 1 /\ \A i \in 1 .. Len(stack') : stack'[i] = e
      BY <1>4, <1>5, <3>1
    <3>3. StillClear(Len(stack))'
      BY <1>2, <1>6, <3>2 DEF StillClear
    <3> QED BY <1>1, <2>1, <3>2, <3>3 DEF Short, OneTick
  <2> QED BY <2>2, <2>3
<1>10. ActionOnTop'
  <2>1. ASSUME NEW i \in 1 .. Len(stack) PROVE ~(stack[i].op = "timer_action" /\ stack[i].at # "raise")
    <3>1. stack # <<>>
      BY <1>4
    <3> QED BY <1>1, <1>3, <1>7, <3>1, NoneBelow DEF Short
  <2>2. \A i \in 1 .. Len(stack') : ~(stack'[i].op = "timer_action" /\ stack'[i].at # "raise")
    BY <1>2, <1>5, <2>1
  <2> QED BY <2>2 DEF ActionOnTop
<1>11. StopsForNone'
  <2>1. ASSUME NEW i \in 1 .. Len(stack) PROVE ~(stack[i].op = "setitimer" /\ stack[i].at \in StopLabels)
    <3>1. stack # <<>>
      BY <1>4
    <3> QED BY <1>1, <1>3, <1>7, <3>1, NoStopBelow DEF Short
  <2>2. \A i \in 1 .. Len(stack') : ~(stack'[i].op = "setitimer" /\ stack'[i].at \in StopLabels)
    BY <1>5, <1>6, <2>1
  <2> QED BY <2>2 DEF StopsForNone
<1>12. ServedInTime'
  <2>1. ASSUME NEW i \in 1 .. Len(stack'), Cleared(stack'[i]), stack'[i].at = "interval", exp'[stack'[i].which] # 0
        PROVE  vec8' = "ours"
    BY <1>1, <1>3, <1>5, <1>6, <2>1 DEF Short, ServedInTime, TickIsOurs
  <2>2. \A t \in Timers : exp'[t] # 0 /\ rel'[t] = 0 => vec8' = "ours"
    BY <1>1, <1>3 DEF Short, ServedInTime, TickIsOurs
  <2> QED BY <2>1, <2>2 DEF ServedInTime, TickIsOurs, Cleared
<1> QED BY <1>8, <1>9, <1>10, <1>11, <1>12 DEF Short

\* getitimer reads the clock.
LEMMA GetShort == ASSUME IInv, Calls, Short, getitimer PROVE Short'
<1>1. UNCHANGED <<now, busy, exp, rel, vec8, forced, stack>> /\ TypeOK /\ User
  BY DEF getitimer, irq, IInv
<1>2. stack # <<>> => Top.op # "timer_action"
  <2>1. stack # <<>> => CallFits(Top) /\ Top.at = "body"
    BY <1>1, TopCalls DEF User
  <2> QED BY <2>1 DEF CallFits, ActionLabels, StopLabels
<1>3. OneArmed' /\ OneTick' /\ StopsForNone' /\ ServedInTime'
  BY <1>1 DEF Short, OneArmed, OneTick, StopsForNone, ServedInTime, TickIsOurs, TickMayCome, Since, StillClear, Cleared, NoneArmed, Top, FindsNothing
<1>4. \A i \in 1 .. Len(stack) : ~(stack[i].op = "timer_action" /\ stack[i].at # "raise")
  BY <1>1, <1>2, NoneBelow DEF Short, TypeOK, Top
<1>5. ActionOnTop'
  BY <1>1, <1>4 DEF ActionOnTop
<1> QED BY <1>3, <1>5 DEF Short

\* setitimer stores the times.
LEMMA SetShort ==
  ASSUME IInv, IInv', Calls, Calls', Once, Once', Short, Disarm \/ SetInterval \/ SetValue \/ SetOrigin
  PROVE  Short'
<1>1. stack # <<>> /\ UNCHANGED <<now, u_now, busy, forced, vec8>> /\ TypeOK /\ Top.at \in {"disarm", "interval", "value", "origin"}
  <2>1. stack # <<>> /\ Top.at \in {"disarm", "interval", "value", "origin"}
    BY DEF Disarm, SetInterval, SetValue, SetOrigin, At
  <2>2. UNCHANGED <<now, u_now, busy, forced, vec8>>
    BY DEF Disarm, SetInterval, SetValue, SetOrigin, irq
  <2> QED BY <2>1, <2>2 DEF IInv
<1>2. Top \in Activation /\ CallFits(Top)
  BY <1>1, TopCalls
<1>3. Top.op = "setitimer" /\ Top.which \in Timers
  BY <1>1, <1>2 DEF CallFits, ActionLabels, StopLabels, Activation
<1>4. exp \in [Timers -> Nat] /\ rel \in [Timers -> Nat]
  BY <1>1 DEF TypeOK
<1>5. CASE Disarm
  <2>1. Top.val = 0
    BY <1>2, <1>3, <1>5 DEF Disarm, At, CallFits, ArmLabels, StartLabels
  <2>2. PICK at \in {"stop", "interval"} : Goto(at) /\ (at = "stop" => NoneArmed')
    BY <1>5, Zenon DEF Disarm, NoneArmed
  <2>3. at \in Labels /\ (at \in StopLabels => at = "stop")
    BY DEF Labels, StopLabels
  <2>4. Kept(Len(stack) - 1) /\ Len(stack') = Len(stack) /\ stack' # <<>> /\ Top'.at = at /\ Top'.op = Top.op /\ Top'.which = Top.which
    BY <1>1, <2>2, <2>3, GotoKept
  <2>5. exp'[Top.which] = 0 /\ \A w \in Timers : exp'[w] # 0 => exp'[w] = exp[w] /\ rel'[w] = rel[w]
    BY <1>3, <1>4, <1>5 DEF Disarm
  <2> QED BY <1>1, <1>3, <2>1, <2>2, <2>3, <2>4, <2>5, ClearShort
<1>6. CASE SetInterval /\ Top.val = 0
  <2>1. stack' = Pop /\ UNCHANGED exp /\ rel' = [rel EXCEPT ![Top.which] = Top.int] /\ Top.at = "interval" /\ ~Arming(Top)
    BY <1>6 DEF SetInterval, At, Arming
  <2>2. ASSUME NEW w \in Timers, exp[w] # 0, rel'[w] = 0 PROVE vec8' = "ours"
    <3>1. CASE w = Top.which
      <4>1. Len(stack) \in 1 .. Len(stack) /\ stack[Len(stack)] = Top
        BY <1>1, TopFacts DEF Top
      <4>2. Cleared(Top)
        BY <1>3, <1>6, <2>1 DEF Cleared
      <4>3. TickIsOurs
        BY <2>1, <2>2, <3>1, <4>1, <4>2 DEF Short, ServedInTime
      <4> QED BY <1>1, <2>1, <4>3 DEF TickIsOurs
    <3>2. CASE w # Top.which
      <4>1. rel[w] = 0
        BY <1>4, <2>1, <2>2, <3>2
      <4> QED BY <1>1, <2>1, <2>2, <4>1 DEF Short, ServedInTime, TickIsOurs
    <3> QED BY <3>1, <3>2
  <2> QED BY <1>1, <2>1, <2>2, ReturnShort
<1>7. CASE (SetInterval /\ Top.val # 0) \/ SetValue \/ SetOrigin
  <2>1. Arming(Top)
    BY <1>2, <1>3, <1>7 DEF SetValue, SetOrigin, At, CallFits, Arming, DisarmLabels, StopLabels
  <2>2. PICK at \in {"value", "origin", "next"} : Goto(at)
    BY <1>7 DEF SetInterval, SetValue, SetOrigin
  <2>3. at \in Labels
    BY DEF Labels
  <2>4. Kept(Len(stack) - 1) /\ Len(stack') = Len(stack) /\ stack' # <<>> /\ Top'.op = Top.op /\ Top'.val = Top.val
    BY <1>1, <2>2, <2>3, GotoKept
  <2>5. Arming(Top')
    BY <2>1, <2>4 DEF Arming
  <2> QED BY <1>1, <2>1, <2>4, <2>5, ArmShort
<1> QED BY <1>5, <1>6, <1>7

\* At the start nothing is in progress.
LEMMA InitShort == Init => Short
<1> SUFFICES ASSUME Init PROVE Short
  OBVIOUS
<1>1. Len(stack) = 0 /\ ~forced /\ \A w \in Timers : exp[w] = 0
  BY DEF Init
<1>2. StillClear(Len(stack))
  BY <1>1 DEF StillClear
<1> QED BY <1>1, <1>2 DEF Short, OneArmed, OneTick, ActionOnTop, StopsForNone, ServedInTime

\* Every step keeps the invariant.
LEMMA NextShort == ASSUME MaxSlip < U, IInv, IInv', TInv, TInv', SInv, [Next]_vars PROVE SInv'
<1> SUFFICES ASSUME rearmed' = 0 PROVE Short'
  BY DEF SInv
<1>1. CASE UNCHANGED vars
  <2>1. UNCHANGED <<now, busy, u_now, exp, rel, vec8, forced, stack, rearmed>>
    BY <1>1 DEF vars, statics, irq
  <2>2. Short
    BY <2>1 DEF SInv
  <2> QED BY <2>1, <2>2 DEF Short, OneArmed, OneTick, StopsForNone, ActionOnTop, ServedInTime, TickIsOurs, TickMayCome, Since, StillClear,
             Cleared, NoneArmed, Top, FindsNothing
<1>2. CASE Next
  <2>1. rearmed = 0
    BY <1>2, NeverForgotten
  <2>2. Calls /\ Calls' /\ Once /\ Once' /\ Short
    BY <2>1 DEF TInv, SInv
  <2> QED BY <1>2, <2>2, AdvanceShort, DeliverShort, StartShort, StopShort, ClockShort, CheckShort, RaiseShort, BeginShort,
             GetShort, SetShort DEF Next
<1> QED BY <1>1, <1>2

\* Between calls the flag, the vector and the signal agree, and an armed one-shot timer is
\* one that the tick serves (itimer.c setitimer, timer_action, start_timer, stop_timer), if
\* no stretch of calls and handlers is as long as a tick.
THEOREM OneShotsAreServed ==
  ASSUME MaxSlip < U
  PROVE  Spec => []OneShotIsServed
<1>1. IInv /\ IInv' /\ TInv /\ TInv' /\ SInv /\ [Next]_vars => SInv'
  BY NextShort
<1>2. Init => SInv
  BY InitShort DEF SInv
<1>3. IInv /\ TInv /\ SInv => OneShotIsServed
  <2> SUFFICES ASSUME IInv, TInv, SInv, Quiet, rearmed = 0
               PROVE  /\ timer_on = (vec8 = "ours") /\ timer_on = (sigtimr = "timer_action")
                      /\ \A w \in Timers : rel[w] = 0 => Served(w)
    BY DEF OneShotIsServed
  <2>1. stack = <<>> /\ Short /\ timer_on \in BOOLEAN
    BY DEF Quiet, SInv, IInv, TypeOK
  <2>2. (timer_on <=> vec8 = "ours") /\ (sigtimr = "timer_action" <=> vec8 = "ours")
    BY <2>1 DEF TInv, Calls, FlagsAgree
  <2>3. timer_on = (vec8 = "ours") /\ timer_on = (sigtimr = "timer_action")
    BY <2>1, <2>2
  <2>4. \A w \in Timers : exp[w] # 0 /\ rel[w] = 0 => vec8 = "ours"
    BY <2>1 DEF Short, ServedInTime, TickIsOurs
  <2> QED BY <2>2, <2>3, <2>4 DEF Served
<1> QED BY <1>1, <1>2, <1>3, Invariance, TimesInvariance, PTL DEF Spec
=============================================================================
