-------------------------------- MODULE HwInt --------------------------------
(***************************************************************************)
(* The interrupt vectors a program takes over (go32/dpmiexcp.c), the       *)
(* handlers behind them (go32/exceptn.S), the keys that make signals, the  *)
(* count of Ctrl-Break (go32/go32cbrk.c) and the part of the interval      *)
(* timer that hooks the tick (posix/signal/itimer.c).                      *)
(*                                                                         *)
(* The program calls toggle, start_timer, stop_timer and the others one    *)
(* after the other; interrupts arrive between the DPMI calls and the       *)
(* stores they make.  The exception vectors are swapped in one loop and    *)
(* are one vector here.  Posting a signal shrinks the data segment (see    *)
(* Exceptn), so that the program goes no further before the fault.         *)
(***************************************************************************)
EXTENDS Naturals, Sequences, FiniteSets

CONSTANTS Keys,        \* statuses, sets of bits, of the keys the program makes signals of
          Scans,       \* scan codes
          MaxPress,    \* Ctrl-Break presses counted at most
          TimerWhileOff \* are timers started and stopped while the vectors are given back?

Bits == {"R", "L", "C", "A", "X"}   \* right and left shift, Ctrl, Alt, any other
ASSUME KeyAssumption == Keys \subseteq SUBSET Bits /\ Scans \subseteq Nat \ {0} /\ MaxPress \in Nat
ASSUME ProgramAssumption == TimerWhileOff \in BOOLEAN

VARIABLES
  vec,    \* who is behind each vector: "dos" stands for whoever was there before
  ori,    \* except_ori, npx_ori, kbd_ori and cbrk_ori: what a toggle puts there
  timer,  \* timer_ori, __djgpp_old_timer (as ori and old) and timer_on (as on)
  cbrk,   \* cbrk_hooked (as hooked) and the callbacks allocated (as rmcb)
  keys,   \* for SIGINT and SIGQUIT: scan, status and mask
  flags,  \* __djgpp_hwint_flags: "NoKeys" (1) and "Count" (2)
  count,  \* __djgpp_cbrk_count
  forced, \* the signal posted, or "none"
  pc,     \* what the program does next
  loc,    \* locals: dir and then of a toggle, yes and hit, cnt, sig and key;
          \* history: cut, a signal has ended the program in the middle of a toggle
  press   \* history: seen, presses counted; told, those returned or given up

vars == <<vec, ori, timer, cbrk, keys, flags, count, forced, pc, loc, press>>
hooks == <<vec, ori, timer, cbrk>>
events == <<keys, flags, count, press>>

Swapped == {"exc", "npx", "kbd"}
ToggleSteps == Swapped \union {"cbrk", "cbrkfree", "cbrkset", "cbrkflag", "timer"}
Gone == {"gone", "killed"}

\* The order in which a toggle takes the vectors.  Mutant: the keyboard before the exceptions.
Order_KeyboardFirst == <<"kbd", "npx", "exc", "cbrk">>
Order == <<"exc", "npx", "kbd", "cbrk">>

\* The masks of set_signal_key.
MaskFor(status) ==
  {"R", "L", "C", "A"} \ ((IF "R" \in status THEN {} ELSE {"R"}) \union (IF status \intersect {"C", "A"} # {} THEN {"L"} ELSE {}))
Key(scan, status) == [scan |-> scan, status |-> status, mask |-> MaskFor(status)]

\* __djgpp_exception_setup, up to its call of the toggle.
Init ==
  /\ vec = [v \in Swapped \union {"cbrk", "timer"} |-> "dos"]
  /\ ori = [v \in Swapped \union {"cbrk"} |-> IF v = "cbrk" THEN "none" ELSE "us"]
  /\ timer = [ori |-> "dos", old |-> "none", on |-> FALSE]
  /\ cbrk = [hooked |-> FALSE, rmcb |-> 0]
  /\ keys = [sig \in {"SIGINT", "SIGQUIT"} |-> Key(IF sig = "SIGINT" THEN 46 ELSE 43, {"C"})]
  /\ flags = {} /\ count = 0 /\ forced = "none"
  /\ pc = Order[1] /\ loc = [dir |-> "on", then |-> "run", yes |-> FALSE, hit |-> FALSE, cnt |-> 0, sig |-> "SIGINT", key |-> {}, cut |-> FALSE]
  /\ press = [seen |-> 0, told |-> 0]

-----------------------------------------------------------------------------
(* The program.  It stands still while a signal is posted. *)

At(p) == pc = p /\ forced = "none"

\* __djgpp_exception_toggle; the order of the calls is the order of the steps.
\* Mutant: the vector of the coprocessor is left out.
NextVector_SkipsNpx(v) == IF v = "exc" THEN "kbd" ELSE "cbrk"
NextVector(v) == Order[1 + CHOOSE i \in 1..3 : Order[i] = v]
Enter(then, cut) ==
  pc' = Order[1] /\ loc' = [loc EXCEPT !.then = then, !.dir = IF vec["exc"] = "us" THEN "off" ELSE "on", !.cut = cut]

Toggle == At("run") /\ Enter("run", loc.cut) /\ UNCHANGED <<hooks, events, forced>>

Swap == \E v \in Swapped :
  /\ At(v) /\ pc' = NextVector(v)
  /\ vec' = [vec EXCEPT ![v] = ori[v]] /\ ori' = [ori EXCEPT ![v] = vec[v]]
  /\ UNCHANGED <<timer, cbrk, events, forced, loc>>

\* Mutant: the callback is freed while the vector points to it.
CbrkFirst_FreesFirst ==
  /\ At("cbrk") /\ UNCHANGED <<timer, events, forced, loc>>
  /\ IF cbrk.hooked THEN cbrk' = [cbrk EXCEPT !.rmcb = @ - 1] /\ pc' = "cbrkfree" /\ UNCHANGED <<vec, ori>>
     ELSE ori' = [ori EXCEPT !["cbrk"] = vec["cbrk"]] /\ cbrk' = [cbrk EXCEPT !.rmcb = @ + 1] /\ pc' = "cbrkset" /\ UNCHANGED vec

CbrkFirst ==
  /\ At("cbrk") /\ UNCHANGED <<timer, events, forced, loc>>
  /\ IF cbrk.hooked THEN vec' = [vec EXCEPT !["cbrk"] = ori["cbrk"]] /\ pc' = "cbrkfree" /\ UNCHANGED <<ori, cbrk>>
     ELSE ori' = [ori EXCEPT !["cbrk"] = vec["cbrk"]] /\ cbrk' = [cbrk EXCEPT !.rmcb = @ + 1] /\ pc' = "cbrkset" /\ UNCHANGED vec
CbrkSecond ==
  /\ At("cbrkfree") \/ At("cbrkset")
  /\ pc' = "cbrkflag" /\ UNCHANGED <<ori, timer, events, forced, loc>>
  /\ IF pc = "cbrkfree" THEN cbrk' = [cbrk EXCEPT !.rmcb = @ - 1] /\ UNCHANGED vec
     ELSE vec' = [vec EXCEPT !["cbrk"] = "us"] /\ UNCHANGED cbrk

\* Mutant: the flag is only ever set.
CbrkFlag_Sticks ==
  /\ At("cbrkflag") /\ pc' = "timer" /\ cbrk' = [cbrk EXCEPT !.hooked = TRUE]
  /\ UNCHANGED <<vec, ori, timer, events, forced, loc>>

CbrkFlag ==
  /\ At("cbrkflag") /\ pc' = "timer" /\ cbrk' = [cbrk EXCEPT !.hooked = ~@]
  /\ UNCHANGED <<vec, ori, timer, events, forced, loc>>

ToggleTimer ==
  /\ At("timer") /\ pc' = loc.then /\ UNCHANGED <<ori, cbrk, events, forced, loc>>
  /\ \/ timer.old = "none" /\ UNCHANGED <<vec, timer>>
     \/ /\ timer.old # "none" /\ timer.ori = timer.old
        /\ timer' = [timer EXCEPT !.ori = vec["timer"]] /\ vec' = [vec EXCEPT !["timer"] = timer.old]
     \/ /\ timer.old # "none" /\ timer.ori # timer.old
        /\ vec' = [vec EXCEPT !["timer"] = timer.ori] /\ timer' = [timer EXCEPT !.ori = timer.old]

\* start_timer and stop_timer, as far as the vector goes.
MayTime == At("run") /\ (TimerWhileOff \/ vec["exc"] = "us")
StartTimer ==
  /\ MayTime /\ ~timer.on /\ pc' = "hook"
  /\ timer' = [timer EXCEPT !.on = TRUE, !.old = vec["timer"]] /\ UNCHANGED <<vec, ori, cbrk, events, forced, loc>>
HookTimer ==
  /\ At("hook") /\ pc' = "run" /\ vec' = [vec EXCEPT !["timer"] = "us"] /\ UNCHANGED <<ori, timer, cbrk, events, forced, loc>>
StopTimer ==
  /\ MayTime /\ timer.on /\ pc' = "unhooked"
  /\ vec' = [vec EXCEPT !["timer"] = timer.old] /\ UNCHANGED <<ori, timer, cbrk, events, forced, loc>>
TimerOff ==
  /\ At("unhooked") /\ pc' = "run" /\ timer' = [timer EXCEPT !.on = FALSE] /\ UNCHANGED <<vec, ori, cbrk, events, forced, loc>>

\* Mutant: the vectors are toggled in any case.
ExitTest_Always(cut) == Enter("gone", cut)

\* _exit: the vectors are given back unless they have been.
ExitTest(cut) ==
  IF ori["kbd"] = "dos" THEN Enter("gone", cut) ELSE pc' = "gone" /\ loc' = [loc EXCEPT !.cut = cut]
Exit == At("run") /\ ExitTest(loc.cut) /\ UNCHANGED <<hooks, events, forced>>

\* _go32_want_ctrl_break and _go32_was_ctrl_break_hit.
Wanting(yes, hit) ==
  /\ At("run") /\ loc' = [loc EXCEPT !.yes = yes, !.hit = hit] /\ UNCHANGED <<hooks, keys, flags, forced>>
  /\ IF yes = ("Count" \in flags) THEN pc' = (IF hit THEN "hit" ELSE "run") /\ UNCHANGED <<count, press>>
     ELSE pc' = "want" /\ count' = 0 /\ press' = [press EXCEPT !.told = @ + count]
WantFlag ==
  /\ At("want") /\ flags' = (IF loc.yes THEN flags \union {"Count"} ELSE flags \ {"Count"})
  /\ pc' = (IF loc.hit THEN "hit" ELSE "run") /\ UNCHANGED <<hooks, keys, count, press, forced, loc>>
_go32_want_ctrl_break == \E yes \in BOOLEAN : Wanting(yes, FALSE)
_go32_was_ctrl_break_hit == Wanting(TRUE, TRUE)
ReadCount == At("hit") /\ pc' = "clear" /\ loc' = [loc EXCEPT !.cnt = count] /\ UNCHANGED <<hooks, events, forced>>

\* Mutant: the count is not cleared.
ClearCount_Keeps ==
  /\ At("clear") /\ pc' = "run" /\ press' = [press EXCEPT !.told = @ + loc.cnt]
  /\ UNCHANGED <<hooks, keys, flags, count, forced, loc>>

ClearCount ==
  /\ At("clear") /\ pc' = "run" /\ count' = 0 /\ press' = [press EXCEPT !.told = @ + loc.cnt]
  /\ UNCHANGED <<hooks, keys, flags, forced, loc>>

\* set_signal_key stores the key and then, in three steps, the mask; __djgpp_set_ctrl_c.
StoreKey(sig, scan, status) ==
  /\ At("run") /\ pc' = "mask" /\ loc' = [loc EXCEPT !.sig = sig, !.key = status]
  /\ keys' = [keys EXCEPT ![sig] = [@ EXCEPT !.scan = scan, !.status = status]]
  /\ UNCHANGED <<hooks, flags, count, press, forced>>
set_signal_key == \E sig \in DOMAIN keys, scan \in Scans, status \in Keys : StoreKey(sig, scan, status)

\* The mask is set to all four bits and then loses those that do not count.
StoreMask(next, mask) ==
  pc' = next /\ keys' = [keys EXCEPT ![loc.sig].mask = mask] /\ UNCHANGED <<hooks, flags, count, press, forced, loc>>
SetMask == At("mask") /\ StoreMask("maskR", {"R", "L", "C", "A"})
MaskRight == At("maskR") /\ StoreMask("maskL", keys[loc.sig].mask \ ({"R"} \ loc.key))

\* Mutant: shift counts with every key.
MaskLeft_WithShift == At("maskL") /\ StoreMask("run", keys[loc.sig].mask)

MaskLeft ==
  At("maskL") /\ StoreMask("run", keys[loc.sig].mask \ (IF loc.key \intersect {"C", "A"} # {} THEN {"L"} ELSE {}))
__djgpp_set_ctrl_c == \E enable \in BOOLEAN :
  /\ At("run") /\ flags' = (IF enable THEN flags \ {"NoKeys"} ELSE flags \union {"NoKeys"})
  /\ UNCHANGED <<hooks, keys, count, press, forced, pc, loc>>

-----------------------------------------------------------------------------
(* Interrupts. *)

\* Which key is it?  The right shift key passes for the left one as well.
Status(down) == IF "R" \in down THEN down \union {"L"} ELSE down
Matches(sig, scan, down) == scan = keys[sig].scan /\ Status(down) \intersect keys[sig].mask = keys[sig].status

MayPost == pc \notin Gone /\ forced = "none"
Post(sig) == forced' = sig /\ UNCHANGED <<hooks, events, pc, loc>>

__djgpp_kbd_hdlr == \E scan \in Scans \union {46, 43} : \E down \in SUBSET {"R", "L", "C", "A"} :
  /\ vec["kbd"] = "us" /\ "NoKeys" \notin flags /\ MayPost
  /\ \/ Matches("SIGINT", scan, down) /\ Post("SIGINT")
     \/ ~Matches("SIGINT", scan, down) /\ Matches("SIGQUIT", scan, down) /\ Post("SIGQUIT")
__djgpp_npx_hdlr == vec["npx"] = "us" /\ MayPost /\ Post("SIGFPE")
__djgpp_timer_hdlr == vec["timer"] = "us" /\ timer.on /\ MayPost /\ Post("SIGTIMR")
__djgpp_cbrk_hdlr ==
  /\ vec["cbrk"] = "us"
  /\ \/ "Count" \notin flags /\ MayPost /\ Post("SIGINT")
     \/ /\ "Count" \in flags /\ pc \notin Gone /\ press.seen < MaxPress
        /\ count' = count + 1 /\ press' = [press EXCEPT !.seen = @ + 1]
        /\ UNCHANGED <<hooks, keys, flags, forced, pc, loc>>

\* The fault that follows: our exception handler raises the signal (for the tick,
\* timer_action raises SIGALRM and SIGPROF), after which the program goes on or ends; the
\* handler of the host knows nothing of it and ends the program.
Fault ==
  /\ forced # "none" /\ pc \notin Gone /\ forced' = "none" /\ UNCHANGED <<hooks, events>>
  /\ \/ pc' = (IF vec["exc"] = "us" THEN pc ELSE "killed") /\ UNCHANGED loc
     \/ vec["exc"] = "us" /\ ExitTest(loc.cut \/ pc \in ToggleSteps \ {"exc"})

Next == Toggle \/ Swap \/ CbrkFirst \/ CbrkSecond \/ CbrkFlag \/ ToggleTimer \/ StartTimer \/ HookTimer \/ StopTimer \/ TimerOff
        \/ Exit \/ _go32_want_ctrl_break \/ WantFlag \/ _go32_was_ctrl_break_hit \/ ReadCount \/ ClearCount
        \/ set_signal_key \/ SetMask \/ MaskRight \/ MaskLeft \/ __djgpp_set_ctrl_c
        \/ __djgpp_kbd_hdlr \/ __djgpp_npx_hdlr \/ __djgpp_timer_hdlr \/ __djgpp_cbrk_hdlr \/ Fault
Spec == Init /\ [][Next]_vars

-----------------------------------------------------------------------------
Owners == {"dos", "us", "none"}

\* The type of the state.
TypeOK ==
  /\ vec \in [Swapped \union {"cbrk", "timer"} -> {"dos", "us"}] /\ ori \in [Swapped \union {"cbrk"} -> Owners]
  /\ timer \in [ori : Owners, old : Owners, on : BOOLEAN] /\ cbrk \in [hooked : BOOLEAN, rmcb : {0, 1}]
  /\ flags \subseteq {"NoKeys", "Count"} /\ count \in Nat

\* A program that is gone has left every vector as it found it, and no callback: no
\* interrupt jumps to where it was.  This is about every end of the program but one: a
\* signal that ends it inside a toggle, past the exceptions (see RestoresTheTimer).
NothingLeftBehind == pc = "gone" /\ ~loc.cut => cbrk.rmcb = 0 /\ \A v \in DOMAIN vec : vec[v] = "dos"

\* A program that ends through _exit gives the tick back ("won't leave the system with timer
\* pointing into the void", dpmiexcp.c:434).  The code does not keep this when a signal
\* ends it while it takes the vectors: _exit toggles what is half taken.
RestoresTheTimer == pc = "gone" => vec["timer"] = "dos"

\* Between toggles the program has all of the vectors or none.
AllOrNothing ==
  pc \notin ToggleSteps \union Gone =>
    /\ \A v \in Swapped \union {"cbrk"} : vec[v] = vec["exc"]
    /\ \A v \in Swapped : ori[v] # vec[v]
    /\ vec["timer"] = "us" => vec["exc"] = "us" \/ TimerWhileOff

\* The Ctrl-Break vector never points to a callback that is not allocated, and the
\* handler of the tick never passes the tick on to itself.
VectorsLeadOut ==
  /\ vec["cbrk"] = "us" => cbrk.rmcb = 1
  /\ vec["timer"] = "us" => timer.old = "dos"

\* At every step of the program and of the interrupts the vectors, the variables that
\* remember them and the callback agree, until a signal ends the program in a toggle.
VectorsOK == ~loc.cut => TypeOK /\ AllOrNothing /\ VectorsLeadOut

\* What interrupts post is met by the program's own exception handler: all through taking
\* the vectors and between toggles.  The vectors are given back in the order in which they
\* were taken, and so an interrupt in the middle of that, and nowhere else, posts what the
\* handler of the host will meet (dpmiexcp.c:409-421, README.md, section 6).
Unhooking == pc \in ToggleSteps /\ loc.dir = "off"
FaultsAreOurs ==
  /\ forced # "none" /\ pc \notin Gone /\ vec["exc"] # "us" => Unhooking
  /\ pc = "killed" => loc.dir = "off"

\* A key makes the signal when exactly the keys it names are down, but for the shift keys
\* with Ctrl or Alt and for the right shift key in place of the left.
Wanted(sig, scan, down) ==
  LET k == keys[sig].status IN
  /\ scan = keys[sig].scan
  /\ down \intersect {"C", "A"} = k \intersect {"C", "A"}
  /\ "R" \in k => "R" \in down
  /\ k \intersect {"C", "A"} = {} => (k \intersect {"R", "L"} # {} <=> down \intersect {"R", "L"} # {})
KeysAreRecognised ==
  pc = "run" => \A sig \in DOMAIN keys : \A scan \in Scans : \A down \in SUBSET {"R", "L", "C", "A"} :
    Matches(sig, scan, down) <=> Wanted(sig, scan, down)

\* No press of Ctrl-Break is reported twice.
NoPressIsToldTwice == press.told + count <= press.seen

\* _go32_was_ctrl_break_hit "returns the number of times that Ctrl-Break was hit since the
\* last call" (go32cbrk.txh:52).  The code does not keep this: a press between the reading
\* of the count and its clearing is lost (go32cbrk.c:28, :29).
EveryPressIsTold == pc = "run" => press.told + count = press.seen
=============================================================================
