------------------------------- MODULE Itimer --------------------------------
(***************************************************************************)
(* Interval timers: posix/signal/itimer.c, posix/unistd/alarm.c and the    *)
(* timer interrupt handler of go32/exceptn.S.                              *)
(*                                                                         *)
(* One hardware tick serves two timers.  The interrupt handler counts      *)
(* __djgpp_timer_countdown down and then posts the fake exception whose    *)
(* signal, SIGTIMR, runs timer_action; that one decides by the clock which *)
(* timers have expired.  setitimer and timer_action change the same static *)
(* variables, and SIGTIMR arrives between any two of their statements.     *)
(***************************************************************************)
EXTENDS Integers, Sequences

CONSTANTS U,          \* uclock units in a tick, 65536 in the code
          Values,     \* it_value arguments, in units; 0 disarms
          Intervals,  \* it_interval arguments, in units
          MaxTime,    \* bound on the clock
          MaxNest,    \* bound on nested calls and handlers
          MaxSlip,    \* units that may pass while a call is in progress
          MaxRearm    \* how often the program sets a timer while one is running

ASSUME UnitAssumption == U \in Nat \ {0} /\ MaxTime \in Nat /\ MaxNest \in Nat /\ MaxSlip \in Nat
ASSUME ArgAssumption == Values \subseteq Nat /\ Intervals \subseteq Nat /\ MaxRearm \in Nat

Timers == {"REAL", "PROF"}
Minus1 == 1000000      \* (unsigned)-1 in the countdown

VARIABLES
  now,         \* what uclock() returns
  exp, rel,    \* r_exp and p_exp, r_rel and p_rel
  u_now,       \* the static of that name
  countdown,   \* __djgpp_timer_countdown
  timer_on,
  vec8,        \* the interrupt vector: "old" or "ours"
  sigtimr,     \* the disposition of SIGTIMR: "SIG_DFL" or "timer_action"
  forced,      \* a SIGTIMR is posted and not yet delivered
  alive,       \* SIGTIMR has not met its default action
  stack,       \* calls in progress, innermost last
  busy,        \* units passed since the stack was last empty
  due,         \* history: when each timer was asked to expire
  rearmed      \* history: how often a timer was set while one was running

statics == <<exp, rel, u_now>>
irq == <<countdown, timer_on, vec8, sigtimr>>
vars == <<now, statics, irq, forced, alive, stack, busy, due, rearmed>>

Labels == {"clock", "REAL", "PROF", "next", "count", "hook", "signal", "vector", "stop",
           "minus1", "unhook", "off", "default", "raise", "disarm", "interval", "value",
           "origin", "body"}

\* A call in progress: the statement it is at, the arguments of setitimer, the local
\* next, and the do_tmr and do_prof of timer_action.
Activation == [op : {"setitimer", "timer_action", "handler"}, at : Labels,
               which : Timers, val : Nat, int : Nat, next : Int, do : SUBSET Timers]
Call(op, at) == [op |-> op, at |-> at, which |-> "REAL", val |-> 0, int |-> 0, next |-> 0,
                 do |-> {}]

Top == stack[Len(stack)]
Pop == SubSeq(stack, 1, Len(stack) - 1)
Goto(at) == stack' = Append(Pop, [Top EXCEPT !.at = at])

\* Every statement of the two functions touches data, so none is executed while a
\* request is posted: it faults and the request is delivered first (module Exceptn).
At(at) == alive /\ ~forced /\ stack # <<>> /\ Top.at = at
User == alive /\ ~forced /\ (stack # <<>> => Top.at = "body")

Init ==
  /\ now = 0 /\ u_now = 0 /\ busy = 0
  /\ exp = [w \in Timers |-> 0] /\ rel = [w \in Timers |-> 0]
  /\ countdown = 0 /\ timer_on = FALSE /\ vec8 = "old" /\ sigtimr = "SIG_DFL"
  /\ forced = FALSE /\ alive = TRUE /\ stack = <<>>
  /\ due = [w \in Timers |-> 0] /\ rearmed = 0

-----------------------------------------------------------------------------
(* The clock and the interrupt. *)

\* Mutant: decrements the counter in either case.
timer_hdlr_AlwaysCounts == countdown' = countdown - 1 /\ forced' = (forced \/ countdown = 0)

\* exceptn.S ___djgpp_timer_hdlr: posts a request, which is dropped when one is
\* posted already, or counts.
timer_hdlr ==
  IF countdown = 0
  THEN forced' = TRUE /\ UNCHANGED countdown
  ELSE countdown' = countdown - 1 /\ UNCHANGED forced

Advance ==
  /\ alive /\ now < MaxTime
  /\ stack # <<>> \/ forced => busy < MaxSlip
  /\ now' = now + 1
  /\ busy' = IF stack # <<>> \/ forced THEN busy + 1 ELSE 0
  /\ IF (now + 1) % U = 0 /\ vec8 = "ours" THEN timer_hdlr ELSE UNCHANGED <<countdown, forced>>
  /\ UNCHANGED <<statics, timer_on, vec8, sigtimr, alive, stack, due, rearmed>>

\* The program touches its data: SIGTIMR is raised.
Deliver ==
  /\ alive /\ forced /\ Len(stack) < MaxNest
  /\ forced' = FALSE
  /\ IF sigtimr = "timer_action"
     THEN stack' = Append(stack, Call("timer_action", "clock")) /\ UNCHANGED alive
     ELSE alive' = FALSE /\ UNCHANGED stack
  /\ UNCHANGED <<now, statics, irq, busy, due, rearmed>>

-----------------------------------------------------------------------------
(* start_timer and stop_timer, called from both functions. *)

\* exp - u_now of the armed timer that expires first; 0 when none is armed.
GetNextEvent ==
  LET armed == {w \in Timers : exp[w] # 0}
  IN  IF armed = {} THEN 0
      ELSE (CHOOSE e \in {exp[w] : w \in armed} : \A w \in armed : e <= exp[w]) - u_now

\* Mutant: does not allow for the handler testing before it decrements.
TicksToSkip_NoMinus1(next) == IF next \div U > 0 THEN next \div U ELSE 0

\* The ticks to let pass before the one that posts SIGTIMR.
TicksToSkip(next) == IF next \div U > 0 THEN next \div U - 1 ELSE 0

\* timer_action stops the timer when GetNextEvent gives 0; start_timer does not test.
Next_ ==
  /\ At("next")
  /\ LET next == GetNextEvent
     IN  stack' = Append(Pop, [Top EXCEPT !.next = next,
                   !.at = IF Top.op = "timer_action" /\ next = 0 THEN "stop" ELSE "count"])
  /\ UNCHANGED <<now, statics, irq, forced, alive, busy, due, rearmed>>

Count ==
  /\ At("count")
  /\ countdown' = TicksToSkip(Top.next)
  /\ Goto(IF Top.op = "timer_action" THEN "raise" ELSE "hook")
  /\ UNCHANGED <<now, statics, timer_on, vec8, sigtimr, forced, alive, busy, due, rearmed>>

\* if (timer_on) return; timer_on = 1.
Hook ==
  /\ At("hook")
  /\ IF timer_on THEN stack' = Pop ELSE Goto("signal")
  /\ timer_on' = TRUE
  /\ UNCHANGED <<now, statics, countdown, vec8, sigtimr, forced, alive, busy, due, rearmed>>

HookSignal ==
  /\ At("signal") /\ sigtimr' = "timer_action" /\ Goto("vector")
  /\ UNCHANGED <<now, statics, countdown, timer_on, vec8, forced, alive, busy, due, rearmed>>

HookVector ==
  /\ At("vector") /\ vec8' = "ours" /\ stack' = Pop
  /\ UNCHANGED <<now, statics, countdown, timer_on, sigtimr, forced, alive, busy, due, rearmed>>

\* Mutant: gives up the signal before the interrupt.
StopTest_DefaultFirst ==
  /\ At("stop")
  /\ Goto(IF timer_on THEN "minus1" ELSE IF Top.op = "timer_action" THEN "raise" ELSE "interval")
  /\ sigtimr' = IF timer_on THEN "SIG_DFL" ELSE sigtimr
  /\ UNCHANGED <<now, statics, countdown, timer_on, vec8, forced, alive, busy, due, rearmed>>

StopTest ==
  /\ At("stop")
  /\ Goto(IF timer_on THEN "minus1" ELSE IF Top.op = "timer_action" THEN "raise" ELSE "interval")
  /\ UNCHANGED <<now, statics, irq, forced, alive, busy, due, rearmed>>

StopCount ==
  /\ At("minus1") /\ countdown' = Minus1 /\ Goto("unhook")
  /\ UNCHANGED <<now, statics, timer_on, vec8, sigtimr, forced, alive, busy, due, rearmed>>

StopVector ==
  /\ At("unhook") /\ vec8' = "old" /\ Goto("off")
  /\ UNCHANGED <<now, statics, countdown, timer_on, sigtimr, forced, alive, busy, due, rearmed>>

\* Mutant: the flag stays set.
StopFlag_StaysOn ==
  /\ At("off") /\ UNCHANGED timer_on /\ Goto("default")
  /\ UNCHANGED <<now, statics, countdown, vec8, sigtimr, forced, alive, busy, due, rearmed>>

StopFlag ==
  /\ At("off") /\ timer_on' = FALSE /\ Goto("default")
  /\ UNCHANGED <<now, statics, countdown, vec8, sigtimr, forced, alive, busy, due, rearmed>>

StopSignal ==
  /\ At("default") /\ sigtimr' = "SIG_DFL"
  /\ Goto(IF Top.op = "timer_action" THEN "raise" ELSE "interval")
  /\ UNCHANGED <<now, statics, countdown, timer_on, vec8, forced, alive, busy, due, rearmed>>

-----------------------------------------------------------------------------
(* timer_action, and the handlers of SIGALRM and SIGPROF it raises. *)

ActionClock ==
  /\ At("clock") /\ Top.op = "timer_action"
  /\ u_now' = now /\ Goto("REAL")
  /\ UNCHANGED <<now, exp, rel, irq, forced, alive, busy, due, rearmed>>

\* Mutant: forgets that an expiry time of 0 means disarmed.
Expired_IgnoresDisarmed(w) == exp[w] <= u_now

Expired(w) == exp[w] # 0 /\ exp[w] <= u_now

ReloadOrDisarm(w) == IF rel[w] # 0 THEN exp[w] + rel[w] ELSE 0

Check(w) ==
  /\ At(w)
  /\ LET do == IF Expired(w) THEN Top.do \union {w} ELSE Top.do
     IN  stack' = IF w = "REAL" THEN Append(Pop, [Top EXCEPT !.at = "PROF", !.do = do])
                  ELSE IF do # {} THEN Append(Pop, [Top EXCEPT !.at = "next", !.do = do])
                  ELSE Pop
  /\ exp' = IF Expired(w) THEN [exp EXCEPT ![w] = ReloadOrDisarm(w)] ELSE exp
  /\ due' = IF Expired(w) THEN [due EXCEPT ![w] = IF rel[w] # 0 THEN @ + rel[w] ELSE 0] ELSE due
  /\ UNCHANGED <<now, rel, u_now, irq, forced, alive, busy, rearmed>>

\* raise(SIGALRM) before raise(SIGPROF): each runs the program's handler.
Raise ==
  /\ At("raise")
  /\ \/ Top.do = {} /\ stack' = Pop
     \/ /\ Top.do # {} /\ Len(stack) < MaxNest
        /\ LET w == IF "REAL" \in Top.do THEN "REAL" ELSE "PROF"
           IN  stack' = Append(Append(Pop, [Top EXCEPT !.do = @ \ {w}]), Call("handler", "body"))
  /\ UNCHANGED <<now, statics, irq, forced, alive, busy, due, rearmed>>

HandlerReturn ==
  /\ User /\ stack # <<>> /\ stack' = Pop
  /\ UNCHANGED <<now, statics, irq, forced, alive, busy, due, rearmed>>

-----------------------------------------------------------------------------
(* setitimer and getitimer, called by the program and by its handlers; alarm(n) is  *)
(* setitimer(ITIMER_REAL, n, 0).                                                     *)

\* A positive time below the granularity is rounded up to it.
RoundUp(v) == IF v > 0 /\ v < U THEN U ELSE v

\* With ovalue the clock is read by getitimer, without it by setitimer itself.
setitimer ==
  /\ User /\ Len(stack) < MaxNest
  /\ \E w \in Timers, v \in Values, i \in Intervals :
       /\ rearmed' = IF v # 0 /\ \E t \in Timers : exp[t] # 0 THEN rearmed + 1 ELSE rearmed
       /\ rearmed' <= MaxRearm
       /\ stack' = Append(stack, [Call("setitimer", IF v = 0 THEN "disarm" ELSE "interval") EXCEPT
                                    !.which = w, !.val = RoundUp(v), !.int = RoundUp(i)])
  /\ u_now' = now
  /\ UNCHANGED <<now, exp, rel, irq, forced, alive, busy, due>>

\* *t_exp = *t_rel = 0; stop_timer() when neither is armed.
Disarm ==
  /\ At("disarm")
  /\ exp' = [exp EXCEPT ![Top.which] = 0] /\ rel' = [rel EXCEPT ![Top.which] = 0]
  /\ due' = [due EXCEPT ![Top.which] = 0]
  /\ Goto(IF \A w \in Timers : exp'[w] = 0 THEN "stop" ELSE "interval")
  /\ UNCHANGED <<now, u_now, irq, forced, alive, busy, rearmed>>

SetInterval ==
  /\ At("interval")
  /\ rel' = [rel EXCEPT ![Top.which] = Top.int]
  /\ IF Top.val = 0 THEN stack' = Pop ELSE Goto("value")
  /\ UNCHANGED <<now, exp, u_now, irq, forced, alive, busy, due, rearmed>>

\* The new time is written relative to the call, and made absolute afterwards.
SetValue ==
  /\ At("value")
  /\ exp' = [exp EXCEPT ![Top.which] = Top.val]
  /\ due' = [due EXCEPT ![Top.which] = u_now + Top.val]
  /\ Goto("origin")
  /\ UNCHANGED <<now, rel, u_now, irq, forced, alive, busy, rearmed>>

SetOrigin ==
  /\ At("origin")
  /\ exp' = [exp EXCEPT ![Top.which] = @ + u_now]
  /\ Goto("next")
  /\ UNCHANGED <<now, rel, u_now, irq, forced, alive, busy, due, rearmed>>

\* getitimer stores its result in the caller's structure; its only lasting effect is on
\* u_now, which a setitimer in progress is going to use.
getitimer ==
  /\ User /\ u_now' = now
  /\ UNCHANGED <<now, exp, rel, irq, forced, alive, stack, busy, due, rearmed>>

Next ==
  \/ Advance \/ Deliver
  \/ Next_ \/ Count \/ Hook \/ HookSignal \/ HookVector
  \/ StopTest \/ StopCount \/ StopVector \/ StopFlag \/ StopSignal
  \/ ActionClock \/ Raise \/ HandlerReturn
  \/ \E w \in Timers : Check(w)
  \/ setitimer \/ Disarm \/ SetInterval \/ SetValue \/ SetOrigin \/ getitimer

Spec == Init /\ [][Next]_vars

-----------------------------------------------------------------------------
(* Properties. *)

\* Every variable has its type; the countdown never passes below 0, where the unsigned
\* counter would wrap.
TypeOK ==
  /\ now \in 0..MaxTime /\ u_now \in 0..MaxTime /\ busy \in Nat /\ rearmed \in 0..MaxRearm
  /\ exp \in [Timers -> Nat] /\ rel \in [Timers -> Nat] /\ due \in [Timers -> Nat]
  /\ countdown \in Nat /\ timer_on \in BOOLEAN /\ vec8 \in {"old", "ours"}
  /\ sigtimr \in {"SIG_DFL", "timer_action"} /\ forced \in BOOLEAN /\ alive \in BOOLEAN
  /\ stack \in Seq(Activation) /\ Len(stack) <= MaxNest

Quiet == alive /\ ~forced /\ stack = <<>>

\* SIGTIMR is the library's own signal: its default action, which ends the program, is
\* never taken, however the tick falls between the statements of stop_timer and
\* start_timer, also when timers are set while others run, in handlers too.
NeverKilled == alive

Served(w) == exp[w] # 0 => timer_on

\* Between calls the flag, the vector and the signal agree, and a one-shot timer that is
\* armed is one that the tick serves, if timers are set only when none is running.
OneShotIsServed ==
  Quiet /\ rearmed = 0 =>
    /\ timer_on = (vec8 = "ours") /\ timer_on = (sigtimr = "timer_action")
    /\ \A w \in Timers : rel[w] = 0 => Served(w)

\* A periodic timer is served for as long as it is armed (itimer.txh, it_interval is "the
\* value with which to reload the timer upon expiration").  The code does not keep this: see
\* README.md, section 6.
PeriodicIsServed == Quiet => \A w \in Timers : rel[w] # 0 => Served(w)

\* The tick that posts SIGTIMR comes no later than the earliest expiry, give or take the
\* time the program was kept from its data; when the counter is 0 it is the next one.
\* Again timers are set only when none is running.
PostTime == (now \div U + countdown + 1) * U
NotLate ==
  Quiet /\ timer_on /\ rearmed = 0 =>
    \A w \in Timers : exp[w] # 0 => countdown = 0 \/ PostTime <= due[w] + MaxSlip

\* timer_action takes a timer for expired only when it was asked to expire by now, if no
\* timer was set while one was running.
NotEarly ==
  [][rearmed = 0 => \A w \in Timers : Check(w) /\ Expired(w) => due[w] # 0 /\ due[w] <= now]_vars

=============================================================================
