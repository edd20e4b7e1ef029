----------------------------- MODULE HwIntProofs -----------------------------
(* Proofs about HwInt, for any keys, scan codes and number of presses. *)
EXTENDS HwInt, TLAPS

-----------------------------------------------------------------------------
(* The inductive invariant. *)

Idle == {"run", "hook", "unhooked", "want", "hit", "clear", "mask", "maskR", "maskL"}
Late == {"cbrk", "cbrkfree", "cbrkset", "cbrkflag", "timer"}   \* steps after the loop
Statuses == {{}, {"C"}} \union Keys

\* What TypeOK leaves out: the program's place, its locals and the history.
PlacesOK ==
  /\ pc \in Idle \union ToggleSteps \union Gone
  /\ loc \in [dir : {"on", "off"}, then : {"run", "gone"}, yes : BOOLEAN, hit : BOOLEAN,
              cnt : Nat, sig : {"SIGINT", "SIGQUIT"}, key : Statuses, cut : BOOLEAN]
  /\ count \in Nat /\ press \in [seen : Nat, told : Nat]
  /\ keys \in [{"SIGINT", "SIGQUIT"} -> [scan : Nat, status : Statuses, mask : SUBSET Bits]]

\* The vectors that a toggle at step p has swapped already.
Passed(p) ==
  CASE p = "exc" -> {} [] p = "npx" -> {"exc"} [] p = "kbd" -> {"exc", "npx"} [] OTHER -> Swapped

Other(o) == IF o = "us" THEN "dos" ELSE "us"

\* Who had the vectors when the toggle in progress began.
Before == IF loc.dir = "off" THEN "us" ELSE "dos"

\* A toggle has swapped the vectors it has passed and no others; what a variable
\* remembers is the opposite of what is in the vector.
SwappedInOrder ==
  /\ pc \notin Gone => \A v \in Swapped : ori[v] = Other(vec[v])
  /\ pc \in ToggleSteps => \A v \in Swapped : vec[v] = IF v \in Passed(pc) THEN Other(Before) ELSE Before
  /\ pc \in ToggleSteps /\ loc.then = "gone" => loc.dir = "off"

\* The Ctrl-Break vector, its flag and its callback at each step.
CallbackFollows ==
  /\ pc \in Idle => vec["cbrk"] = vec["exc"]
  /\ pc \in Swapped \union {"cbrk"} => vec["cbrk"] = Before
  /\ pc = "cbrkfree" => loc.dir = "off" /\ vec["cbrk"] = "dos"
  /\ pc = "cbrkset" => loc.dir = "on" /\ vec["cbrk"] = "dos" /\ ori["cbrk"] = "dos"
  /\ pc \in {"cbrkflag", "timer"} => vec["cbrk"] = Other(Before)
  /\ pc \notin Gone => (cbrk.rmcb = IF vec["cbrk"] = "us" \/ pc \in {"cbrkfree", "cbrkset"} THEN 1 ELSE 0)
  /\ pc \in {"cbrkfree", "cbrkset", "cbrkflag"} => (cbrk.hooked <=> Before = "us")
  /\ pc \notin Gone \union {"cbrkfree", "cbrkset", "cbrkflag"} => (cbrk.hooked <=> vec["cbrk"] = "us")
  /\ vec["cbrk"] = "us" => ori["cbrk"] = "dos"

\* Who has the vectors, as far as the timer is concerned: it is toggled last.
Having == IF pc \in ToggleSteps THEN Before ELSE vec["exc"]

\* While the program has the vectors, that of the tick is its own when a timer is on;
\* while it has not, the tick's is given back and timer_ori remembers the handler.
TimerFollows ==
  /\ timer.old \in {"none", "dos"} /\ timer.ori \in {"dos", "us"}
  /\ timer.on => timer.old = "dos"
  /\ pc = "hook" => timer.on
  /\ pc \in {"hook", "unhooked"} => vec["timer"] = "dos" /\ vec["exc"] = "us"
  /\ pc \notin Gone /\ Having = "us" => timer.ori = "dos" /\ (vec["timer"] = "us" => timer.on)
  /\ pc \in (Idle \ {"hook", "unhooked"}) \union ToggleSteps /\ Having = "us" /\ timer.on =>
       vec["timer"] = "us" \/ (pc \in ToggleSteps /\ loc.then = "gone")
  /\ pc \notin Gone /\ Having = "dos" => vec["timer"] = "dos" /\ (timer.ori = "us" <=> timer.on)

VInv ==
  /\ TypeOK /\ PlacesOK /\ VectorsLeadOut /\ NothingLeftBehind
  /\ SwappedInOrder /\ CallbackFollows /\ TimerFollows /\ AllOrNothing

\* What was counted when it was read is still counted.
CountKept == pc = "clear" => loc.cnt <= count

\* The steps of set_signal_key once the key is stored.
Masking == {"mask", "maskR", "maskL"}

\* Every mask is the one for its key, but for the key being set.  A program that ends in
\* the middle of set_signal_key leaves the mask as it is.
MasksFollow ==
  pc \in Idle \/ (pc \in ToggleSteps /\ loc.then = "run") =>
    /\ pc \in Masking => loc.key = keys[loc.sig].status
    /\ pc = "maskR" => keys[loc.sig].mask = {"R", "L", "C", "A"}
    /\ pc = "maskL" => keys[loc.sig].mask = {"R", "L", "C", "A"} \ ({"R"} \ loc.key)
    /\ \A sig \in {"SIGINT", "SIGQUIT"} :
         keys[sig].mask = MaskFor(keys[sig].status) \/ (pc \in Masking /\ sig = loc.sig)

-----------------------------------------------------------------------------
(* The operators. *)

\* The order of a toggle.
LEMMA NextVectorFacts ==
  NextVector("exc") = "npx" /\ NextVector("npx") = "kbd" /\ NextVector("kbd") = "cbrk"
<1> DEFINE At_(v) == CHOOSE i \in 1..3 : Order[i] = v
<1>1. Order[1] = "exc" /\ Order[2] = "npx" /\ Order[3] = "kbd" /\ Order[4] = "cbrk"
  BY DEF Order
<1>2. \A i \in 1..3 : i = 1 \/ i = 2 \/ i = 3
  OBVIOUS
<1>3. At_("exc") = 1
  BY <1>1, <1>2
<1>4. At_("npx") = 2
  BY <1>1, <1>2
<1>5. At_("kbd") = 3
  BY <1>1, <1>2
<1> HIDE DEF At_
<1>6. \A v : NextVector(v) = Order[1 + At_(v)]
  BY DEF NextVector, At_
<1> QED BY <1>1, <1>3, <1>4, <1>5, <1>6

-----------------------------------------------------------------------------
(* Places and locals. *)

\* The place, the locals and the history have their types at the start.
LEMMA InitPlaces == Init => PlacesOK
BY DEF Init, PlacesOK, Order, Idle, ToggleSteps, Swapped, Gone, Statuses, Key, MaskFor, Bits

\* Entering a toggle.
LEMMA EnterPlaces ==
  ASSUME PlacesOK, NEW then \in {"run", "gone"}, NEW cut \in BOOLEAN, Enter(then, cut)
  PROVE  pc' = "exc" /\ loc' \in [dir : {"on", "off"}, then : {"run", "gone"}, yes : BOOLEAN, hit : BOOLEAN,
              cnt : Nat, sig : {"SIGINT", "SIGQUIT"}, key : Statuses, cut : BOOLEAN]
BY DEF PlacesOK, Enter, Order

\* The place, the locals and the history keep their types, whatever the program does.
LEMMA NextPlaces ==
  ASSUME PlacesOK, [Next]_vars
  PROVE  PlacesOK'
<1> USE DEF PlacesOK, At, hooks, events
<1> DEFINE Locals == [dir : {"on", "off"}, then : {"run", "gone"}, yes : BOOLEAN, hit : BOOLEAN,
                      cnt : Nat, sig : {"SIGINT", "SIGQUIT"}, key : Statuses, cut : BOOLEAN]
<1>1. Toggle => PlacesOK'
  <2>1. loc.cut \in BOOLEAN
    OBVIOUS
  <2> QED BY <2>1, EnterPlaces DEF Toggle, ToggleSteps, Swapped
<1>2. Swap => PlacesOK'
  BY NextVectorFacts DEF Swap, ToggleSteps, Swapped
<1>3. CbrkFirst \/ CbrkSecond \/ CbrkFlag => PlacesOK'
  BY DEF CbrkFirst, CbrkSecond, CbrkFlag, ToggleSteps
<1>4. ToggleTimer => PlacesOK'
  BY DEF ToggleTimer, Idle, Gone
<1>5. StartTimer \/ HookTimer \/ StopTimer \/ TimerOff => PlacesOK'
  BY DEF StartTimer, HookTimer, StopTimer, TimerOff, MayTime, Idle
<1>6. Exit => PlacesOK'
  <2>1. loc.cut \in BOOLEAN
    OBVIOUS
  <2> QED BY <2>1, EnterPlaces DEF Exit, ExitTest, ToggleSteps, Swapped, Gone
<1>7. ASSUME NEW yes \in BOOLEAN, NEW hit \in BOOLEAN, Wanting(yes, hit) PROVE PlacesOK'
  <2>1. pc' \in Idle
    BY <1>7 DEF Wanting, Idle
  <2>2. loc' \in Locals
    BY <1>7 DEF Wanting
  <2>3. count' \in Nat /\ press' \in [seen : Nat, told : Nat]
    BY <1>7 DEF Wanting
  <2> QED BY <1>7, <2>1, <2>2, <2>3 DEF Wanting
<1>8. WantFlag \/ ReadCount \/ ClearCount \/ __djgpp_set_ctrl_c => PlacesOK'
  BY DEF WantFlag, ReadCount, ClearCount, __djgpp_set_ctrl_c, Idle
<1>9. ASSUME NEW sig \in DOMAIN keys, NEW scan \in Scans, NEW status \in Keys, StoreKey(sig, scan, status)
      PROVE  PlacesOK'
  <2>1. sig \in {"SIGINT", "SIGQUIT"} /\ status \in Statuses /\ scan \in Nat
    BY KeyAssumption DEF Statuses
  <2> QED BY <1>9, <2>1 DEF StoreKey, Idle
<1>10. SetMask \/ MaskRight \/ MaskLeft => PlacesOK'
  <2>1. keys[loc.sig].mask \subseteq Bits /\ {"R", "L", "C", "A"} \subseteq Bits
    BY DEF Bits
  <2> QED BY <2>1 DEF SetMask, MaskRight, MaskLeft, StoreMask, Idle
<1>11. __djgpp_kbd_hdlr \/ __djgpp_npx_hdlr \/ __djgpp_timer_hdlr \/ __djgpp_cbrk_hdlr => PlacesOK'
  BY DEF __djgpp_kbd_hdlr, __djgpp_npx_hdlr, __djgpp_timer_hdlr, __djgpp_cbrk_hdlr, Post
<1>12. Fault => PlacesOK'
  <2>1. (loc.cut \/ pc \in ToggleSteps \ {"exc"}) \in BOOLEAN
    OBVIOUS
  <2> QED BY <2>1, EnterPlaces DEF Fault, ExitTest, ToggleSteps, Swapped, Gone
<1>13. UNCHANGED vars => PlacesOK'
  BY DEF vars
<1> QED
  BY <1>1, <1>2, <1>3, <1>4, <1>5, <1>6, <1>7, <1>8, <1>9, <1>10, <1>11, <1>12, <1>13
  DEF Next, _go32_want_ctrl_break, _go32_was_ctrl_break_hit, set_signal_key

-----------------------------------------------------------------------------
(* The vectors. *)

\* The invariant holds at the start.
LEMMA InitVInv == Init => VInv
<1> SUFFICES ASSUME Init PROVE VInv
  OBVIOUS
<1>1. pc = "exc"
  BY DEF Init, Order
<1>2. TypeOK
  <2>1. vec \in [Swapped \union {"cbrk", "timer"} -> {"dos", "us"}]
    BY DEF Init
  <2>2. ori \in [Swapped \union {"cbrk"} -> Owners]
    BY DEF Init, Owners
  <2>3. timer \in [ori : Owners, old : Owners, on : BOOLEAN] /\ cbrk \in [hooked : BOOLEAN, rmcb : {0, 1}]
    BY DEF Init, Owners
  <2> QED BY <2>1, <2>2, <2>3 DEF Init, TypeOK
<1>3. VectorsLeadOut /\ NothingLeftBehind /\ AllOrNothing
  BY <1>1 DEF Init, VectorsLeadOut, NothingLeftBehind, AllOrNothing, ToggleSteps, Swapped
<1>4. SwappedInOrder
  BY <1>1 DEF Init, SwappedInOrder, ToggleSteps, Swapped, Passed, Before, Other
<1>5. CallbackFollows
  BY <1>1 DEF Init, CallbackFollows, Idle, Swapped, Before, Gone
<1>6. TimerFollows
  BY <1>1 DEF Init, TimerFollows, ToggleSteps, Swapped, Having, Before
<1> QED BY <1>2, <1>3, <1>4, <1>5, <1>6, InitPlaces DEF VInv

\* A step of the swapping loop.
LEMMA SwapVInv == ASSUME VInv, Swap PROVE VInv'
<1> USE DEF VInv
<1>1. PICK v \in Swapped :
        /\ pc = v /\ pc' = NextVector(v)
        /\ vec' = [vec EXCEPT ![v] = ori[v]] /\ ori' = [ori EXCEPT ![v] = vec[v]]
        /\ UNCHANGED <<timer, cbrk, events, loc>>
  BY DEF Swap, At
<1>2. (v = "exc" /\ pc' = "npx") \/ (v = "npx" /\ pc' = "kbd") \/ (v = "kbd" /\ pc' = "cbrk")
  BY <1>1, NextVectorFacts DEF Swapped
<1>3. ori[v] = Other(vec[v]) /\ Other(vec[v]) \in {"dos", "us"} /\ v \notin Gone /\ v # "cbrk" /\ v # "timer"
  BY <1>1 DEF SwappedInOrder, Gone, Swapped, Other
<1>4. TypeOK'
  BY <1>1, <1>3 DEF TypeOK, Owners, events
<1>5. PlacesOK'
  BY NextPlaces DEF Next
<1>6. pc \in ToggleSteps /\ pc' \in ToggleSteps
  BY <1>1, <1>2 DEF ToggleSteps, Swapped
<1>7. VectorsLeadOut' /\ NothingLeftBehind' /\ AllOrNothing'
  BY <1>1, <1>2, <1>3, <1>6 DEF VectorsLeadOut, NothingLeftBehind, AllOrNothing, ToggleSteps, Swapped, TypeOK
<1>8. SwappedInOrder'
  <2>1. \A w \in Swapped : ori'[w] = Other(vec'[w])
    BY <1>1, <1>3 DEF SwappedInOrder, Other, Swapped, TypeOK, Gone
  <2>2. \A w \in Swapped : vec'[w] = IF w \in Passed(pc') THEN Other(Before) ELSE Before
    BY <1>1, <1>2, <1>3, <1>6 DEF SwappedInOrder, Swapped, TypeOK, Passed, Other, Before
  <2> QED BY <2>1, <2>2, <1>1, <1>6 DEF SwappedInOrder, Before
<1>9. CallbackFollows'
  BY <1>1, <1>2, <1>3 DEF CallbackFollows, Before, Idle, Gone, Swapped, TypeOK
<1>10. TimerFollows'
  BY <1>1, <1>2, <1>3, <1>6 DEF TimerFollows, Having, Before, Gone, TypeOK, Swapped
<1> QED BY <1>4, <1>5, <1>7, <1>8, <1>9, <1>10

\* The three steps about Ctrl-Break.
LEMMA CbrkVInv == ASSUME VInv, CbrkFirst \/ CbrkSecond \/ CbrkFlag PROVE VInv'
<1> USE DEF VInv
<1>1. pc \in Late /\ pc' \in Late /\ pc # "timer" /\ UNCHANGED <<timer, events, loc>>
  BY DEF CbrkFirst, CbrkSecond, CbrkFlag, At, Late
<1>2. pc \in ToggleSteps \ Gone /\ pc' \in ToggleSteps \ Gone /\ Passed(pc) = Swapped /\ Passed(pc') = Swapped
  BY <1>1 DEF Late, ToggleSteps, Swapped, Gone, Passed
<1>3. /\ \A w \in Swapped \union {"timer"} : vec'[w] = vec[w]
      /\ \A w \in Swapped : ori'[w] = ori[w]
  BY DEF CbrkFirst, CbrkSecond, CbrkFlag, TypeOK, Swapped
<1>4. TypeOK' /\ CallbackFollows'
  <2>1. CASE CbrkFirst /\ cbrk.hooked
    <3>1. /\ pc = "cbrk" /\ pc' = "cbrkfree" /\ Before = "us" /\ ori["cbrk"] = "dos" /\ loc.dir = "off"
          /\ vec' = [vec EXCEPT !["cbrk"] = "dos"] /\ UNCHANGED <<ori, cbrk>>
      BY <2>1 DEF CbrkFirst, CallbackFollows, At, Gone, Before
    <3> QED BY <3>1, <1>1 DEF TypeOK, CallbackFollows, Before, Idle, Swapped, Gone, events
  <2>2. CASE CbrkFirst /\ ~cbrk.hooked
    <3>1. /\ pc = "cbrk" /\ pc' = "cbrkset" /\ Before = "dos" /\ vec["cbrk"] = "dos" /\ loc.dir = "on" /\ cbrk.rmcb = 0
          /\ ori' = [ori EXCEPT !["cbrk"] = "dos"] /\ cbrk' = [cbrk EXCEPT !.rmcb = 1] /\ UNCHANGED vec
      BY <2>2 DEF CbrkFirst, CallbackFollows, At, Gone, Before, PlacesOK, TypeOK
    <3> QED BY <3>1, <1>1 DEF TypeOK, CallbackFollows, Before, Idle, Swapped, Gone, Owners, events
  <2>3. CASE CbrkSecond /\ pc = "cbrkfree"
    <3>1. /\ pc' = "cbrkflag" /\ loc.dir = "off" /\ vec["cbrk"] = "dos" /\ cbrk.rmcb = 1
          /\ cbrk' = [cbrk EXCEPT !.rmcb = 0] /\ UNCHANGED <<vec, ori>>
      BY <2>3 DEF CbrkSecond, CallbackFollows, Gone
    <3> QED BY <2>3, <3>1, <1>1 DEF TypeOK, CallbackFollows, Before, Other, Idle, Swapped, Gone, events
  <2>4. CASE CbrkSecond /\ pc = "cbrkset"
    <3>1. /\ pc' = "cbrkflag" /\ loc.dir = "on" /\ cbrk.rmcb = 1 /\ ori["cbrk"] = "dos"
          /\ vec' = [vec EXCEPT !["cbrk"] = "us"] /\ UNCHANGED <<cbrk, ori>>
      BY <2>4 DEF CbrkSecond, CallbackFollows, Gone
    <3> QED BY <2>4, <3>1, <1>1 DEF TypeOK, CallbackFollows, Before, Other, Idle, Swapped, Gone, events
  <2>5. CASE CbrkFlag
    <3>1. pc = "cbrkflag" /\ pc' = "timer" /\ UNCHANGED <<vec, ori>> /\ cbrk' = [cbrk EXCEPT !.hooked = ~@]
      BY <2>5 DEF CbrkFlag, At
    <3>2. cbrk'.rmcb = cbrk.rmcb /\ cbrk' \in [hooked : BOOLEAN, rmcb : {0, 1}] /\ (cbrk'.hooked <=> ~cbrk.hooked)
      BY <3>1 DEF TypeOK
    <3> QED BY <3>1, <3>2, <1>1 DEF TypeOK, CallbackFollows, Before, Other, Idle, Swapped, Gone, events
  <2> QED BY <2>1, <2>2, <2>3, <2>4, <2>5 DEF CbrkSecond, At
<1>5. PlacesOK'
  BY NextPlaces DEF Next
<1>6. VectorsLeadOut' /\ NothingLeftBehind' /\ AllOrNothing'
  BY <1>1, <1>2, <1>3, <1>4 DEF VectorsLeadOut, NothingLeftBehind, AllOrNothing, CallbackFollows, Gone
<1>7. SwappedInOrder'
  BY <1>1, <1>2, <1>3 DEF SwappedInOrder, Before
<1>8. TimerFollows'
  BY <1>1, <1>2, <1>3 DEF TimerFollows, Having, Before, Late, ToggleSteps
<1> QED BY <1>4, <1>5, <1>6, <1>7, <1>8

\* The end of a toggle: the timer, and back to the program or out of it.
LEMMA ToggleTimerVInv == ASSUME VInv, ToggleTimer PROVE VInv'
<1> USE DEF VInv
<1>1. pc = "timer" /\ pc' = loc.then /\ UNCHANGED <<ori, cbrk, events, loc>>
  BY DEF ToggleTimer, At
<1>2. pc \in ToggleSteps \ Gone /\ pc' \in {"run", "gone"} /\ (pc' = "gone" => loc.dir = "off")
  BY <1>1 DEF ToggleSteps, Gone, Swapped, SwappedInOrder, PlacesOK
<1>3. \A w \in Swapped \union {"cbrk"} : vec[w] = Other(Before) /\ vec'[w] = vec[w]
  BY <1>1, <1>2 DEF ToggleTimer, SwappedInOrder, CallbackFollows, Passed, Swapped, TypeOK
<1>4. TypeOK'
  BY <1>1 DEF ToggleTimer, TypeOK, Owners, TimerFollows, events
<1>5. PlacesOK'
  BY NextPlaces DEF Next
<1>6. loc.dir = "off" => vec'["timer"] = "dos" /\ (loc.then = "gone" \/ (timer'.ori = "us" <=> timer.on))
  <2>1. pc \in (Idle \ {"hook", "unhooked"}) \union ToggleSteps
    BY <1>2
  <2> QED BY <1>1, <1>2, <2>1 DEF ToggleTimer, TimerFollows, Having, Before, TypeOK
<1>7. loc.dir = "on" => /\ timer'.ori = "dos" /\ (vec'["timer"] = "us" <=> timer.on)
  BY <1>1, <1>2 DEF ToggleTimer, TimerFollows, Having, Before, TypeOK
<1>8. timer'.old = timer.old /\ timer'.on = timer.on /\ timer'.ori \in {"dos", "us"}
  BY <1>1 DEF ToggleTimer, TimerFollows, TypeOK
<1>9. loc.dir \in {"on", "off"} /\ Before' = Before
  BY <1>1 DEF PlacesOK, Before
<1>10. VectorsLeadOut' /\ NothingLeftBehind' /\ AllOrNothing'
  BY <1>1, <1>2, <1>3, <1>4, <1>6, <1>7, <1>8, <1>9
  DEF VectorsLeadOut, NothingLeftBehind, AllOrNothing, TimerFollows, Before, Other, Swapped, TypeOK, CallbackFollows, SwappedInOrder, Gone
<1>11. SwappedInOrder' /\ CallbackFollows'
  BY <1>1, <1>2, <1>3, <1>9 DEF SwappedInOrder, CallbackFollows, ToggleSteps, Swapped, Gone, Idle, Before, Other
<1>12. TimerFollows'
  BY <1>1, <1>2, <1>3, <1>6, <1>7, <1>8, <1>9 DEF TimerFollows, Having, Before, Other, ToggleSteps, Swapped, Gone
<1> QED BY <1>4, <1>5, <1>10, <1>11, <1>12

\* A toggle begins, or the program goes.
LEMMA EnterVInv ==
  ASSUME VInv, PlacesOK', NEW then \in {"run", "gone"}, NEW cut \in BOOLEAN, pc \in Idle,
         UNCHANGED <<hooks, events>>, then = "run" => pc = "run", then = "gone" => vec["exc"] = "us", Enter(then, cut)
  PROVE  VInv'
<1> USE DEF VInv, hooks, events
<1>1. pc' = "exc" /\ pc' \in ToggleSteps \ Gone /\ pc \notin ToggleSteps \union Gone
  BY EnterPlaces DEF ToggleSteps, Gone, Swapped, Idle
<1>2. loc'.then = then /\ (loc'.dir = "off" <=> vec["exc"] = "us") /\ Before' = vec["exc"]
  BY DEF Enter, PlacesOK, Before, TypeOK, Swapped
<1>3. TypeOK' /\ VectorsLeadOut' /\ NothingLeftBehind' /\ AllOrNothing'
  BY <1>1 DEF TypeOK, VectorsLeadOut, NothingLeftBehind, AllOrNothing, Gone
<1>4. SwappedInOrder'
  BY <1>1, <1>2 DEF SwappedInOrder, AllOrNothing, Passed, Gone
<1>5. CallbackFollows'
  BY <1>1, <1>2 DEF CallbackFollows, Idle, Gone, Swapped
<1>6. TimerFollows'
  BY <1>1, <1>2 DEF TimerFollows, Having, Idle, Gone
<1> QED BY <1>3, <1>4, <1>5, <1>6

\* _exit, from the program or from a handler outside of a toggle.
LEMMA ExitVInv ==
  ASSUME VInv, PlacesOK', NEW cut \in BOOLEAN, pc \in Idle, vec["exc"] = "us" \/ pc = "run",
         UNCHANGED <<hooks, events>>, ExitTest(cut)
  PROVE  VInv'
<1> USE DEF VInv
<1>1. pc \notin ToggleSteps \union Gone
  BY DEF Idle, ToggleSteps, Swapped, Gone
<1>2. CASE ori["kbd"] = "dos"
  <2>1. vec["exc"] = "us"
    BY <1>1, <1>2 DEF AllOrNothing, Swapped, TypeOK
  <2> QED BY <1>2, <2>1, EnterVInv DEF ExitTest
<1>3. CASE ori["kbd"] # "dos"
  <2>1. pc' = "gone" /\ pc' \in Gone
    BY <1>3 DEF ExitTest, Gone
  <2>2. \A v \in Swapped \union {"cbrk", "timer"} : vec[v] = "dos"
    <3>1. vec["kbd"] = "dos"
      BY <1>1, <1>3 DEF SwappedInOrder, Other, Swapped, TypeOK
    <3>2. vec["exc"] = "dos" /\ \A v \in Swapped \union {"cbrk"} : vec[v] = "dos"
      BY <1>1, <3>1 DEF AllOrNothing, Swapped
    <3> QED BY <1>1, <3>2 DEF TimerFollows, Having
  <2>3. cbrk.rmcb = 0
    BY <1>1, <2>2 DEF CallbackFollows, Idle
  <2> QED BY <2>1, <2>2, <2>3 DEF TypeOK, VectorsLeadOut, NothingLeftBehind, AllOrNothing, SwappedInOrder,
             CallbackFollows, TimerFollows, Having, Gone, ToggleSteps, Swapped, Idle, hooks, events
<1> QED BY <1>2, <1>3

\* _exit from a handler, at the first step of a toggle that gives the vectors back.
LEMMA ExitAgainVInv ==
  ASSUME VInv, PlacesOK', NEW cut \in BOOLEAN, pc = "exc", vec["exc"] = "us", UNCHANGED <<hooks, events>>, ExitTest(cut)
  PROVE  VInv'
<1> USE DEF VInv, hooks, events
<1>1. pc \in ToggleSteps \ Gone /\ Passed(pc) = {} /\ "exc" \in Swapped /\ "kbd" \in Swapped
  BY DEF ToggleSteps, Swapped, Gone, Passed
<1>2. loc.dir = "off" /\ Before = "us" /\ vec["kbd"] = "us" /\ ori["kbd"] = "dos"
  BY <1>1 DEF SwappedInOrder, Before, Other
<1>3. Enter("gone", cut)
  BY <1>2 DEF ExitTest
<1>4. pc' = pc /\ loc'.then = "gone" /\ loc'.dir = "off" /\ Before' = Before
  BY <1>2, <1>3 DEF Enter, Order, PlacesOK, Before
<1>5. TypeOK' /\ VectorsLeadOut' /\ NothingLeftBehind' /\ AllOrNothing'
  BY <1>1, <1>4 DEF TypeOK, VectorsLeadOut, NothingLeftBehind, AllOrNothing, Gone
<1>6. SwappedInOrder'
  BY <1>1, <1>4 DEF SwappedInOrder
<1>7. CallbackFollows'
  BY <1>2, <1>4 DEF CallbackFollows, Idle, Gone, Swapped
<1>8. TimerFollows'
  BY <1>1, <1>2, <1>4 DEF TimerFollows, Having
<1> QED BY <1>5, <1>6, <1>7, <1>8

\* Starting and stopping a timer, with the vectors taken.
LEMMA TimerVInv ==
  ASSUME VInv, ~TimerWhileOff, StartTimer \/ HookTimer \/ StopTimer \/ TimerOff PROVE VInv'
<1> USE DEF VInv
<1>1. pc \in {"run", "hook", "unhooked"} /\ pc' \in {"run", "hook", "unhooked"} /\ vec["exc"] = "us"
      /\ UNCHANGED <<ori, cbrk, events, loc>>
  BY DEF StartTimer, HookTimer, StopTimer, TimerOff, MayTime, At, TimerFollows
<1>2. pc \in Idle \ (ToggleSteps \union Gone) /\ pc' \in Idle \ (ToggleSteps \union Gone)
  BY <1>1 DEF Idle, ToggleSteps, Swapped, Gone
<1>3. \A w \in Swapped \union {"cbrk"} : vec'[w] = vec[w]
  BY DEF StartTimer, HookTimer, StopTimer, TimerOff, TypeOK, Swapped
<1>4. TypeOK' /\ TimerFollows'
  <2>1. CASE StartTimer
    <3>1. /\ pc = "run" /\ pc' = "hook" /\ vec["timer"] = "dos" /\ UNCHANGED vec
          /\ timer' = [timer EXCEPT !.on = TRUE, !.old = "dos"] /\ timer.ori = "dos"
      BY <2>1, <1>1, <1>2 DEF StartTimer, MayTime, At, TimerFollows, Having, TypeOK, Swapped
    <3> QED BY <3>1, <1>1, <1>2 DEF TypeOK, Owners, TimerFollows, Having, events
  <2>2. CASE HookTimer
    <3>1. /\ pc = "hook" /\ pc' = "run" /\ timer.on /\ UNCHANGED timer /\ vec' = [vec EXCEPT !["timer"] = "us"]
      BY <2>2 DEF HookTimer, At, TimerFollows
    <3> QED BY <3>1, <1>1, <1>2, <1>3 DEF TypeOK, TimerFollows, Having, events, Swapped
  <2>3. CASE StopTimer
    <3>1. /\ pc = "run" /\ pc' = "unhooked" /\ timer.on /\ UNCHANGED timer /\ vec' = [vec EXCEPT !["timer"] = "dos"]
      BY <2>3 DEF StopTimer, MayTime, At, TimerFollows
    <3> QED BY <3>1, <1>1, <1>2, <1>3 DEF TypeOK, TimerFollows, Having, events, Swapped
  <2>4. CASE TimerOff
    <3>1. /\ pc = "unhooked" /\ pc' = "run" /\ vec["timer"] = "dos" /\ UNCHANGED vec /\ timer' = [timer EXCEPT !.on = FALSE]
      BY <2>4 DEF TimerOff, At, TimerFollows
    <3> QED BY <3>1, <1>1, <1>2, <1>3 DEF TypeOK, TimerFollows, Having, events, Swapped
  <2> QED BY <2>1, <2>2, <2>3, <2>4
<1>5. PlacesOK'
  BY NextPlaces DEF Next
<1>6. VectorsLeadOut' /\ NothingLeftBehind' /\ AllOrNothing'
  BY <1>1, <1>2, <1>3, <1>4 DEF VectorsLeadOut, NothingLeftBehind, AllOrNothing, TimerFollows, Having, Gone, Swapped
<1>7. SwappedInOrder' /\ CallbackFollows'
  BY <1>1, <1>2, <1>3 DEF SwappedInOrder, CallbackFollows, Idle, ToggleSteps, Swapped
<1> QED BY <1>4, <1>5, <1>6, <1>7

\* Steps that leave the vectors alone and keep the program out of toggles, or in its place.
LEMMA OtherVInv ==
  ASSUME VInv, PlacesOK', UNCHANGED hooks, flags' \subseteq {"NoKeys", "Count"},
         \/ UNCHANGED <<pc, loc>>
         \/ pc \in Idle \ {"hook", "unhooked"} /\ pc' \in Idle \ {"hook", "unhooked"}
         \/ pc' = "killed" /\ UNCHANGED loc
  PROVE  VInv'
<1> USE DEF VInv, hooks
<1>1. TypeOK' /\ VectorsLeadOut'
  BY DEF TypeOK, VectorsLeadOut, PlacesOK
<1>2. CASE UNCHANGED <<pc, loc>>
  BY <1>1, <1>2 DEF NothingLeftBehind, AllOrNothing, SwappedInOrder, CallbackFollows, TimerFollows, Having, Before
<1>3. CASE pc \in Idle \ {"hook", "unhooked"} /\ pc' \in Idle \ {"hook", "unhooked"}
  <2>1. pc \in Idle \ (ToggleSteps \union Gone) /\ pc' \in Idle \ (ToggleSteps \union Gone)
    BY <1>3 DEF Idle, ToggleSteps, Swapped, Gone
  <2>2. NothingLeftBehind' /\ AllOrNothing' /\ SwappedInOrder' /\ CallbackFollows'
    BY <2>1 DEF NothingLeftBehind, AllOrNothing, SwappedInOrder, CallbackFollows, Idle, ToggleSteps, Swapped, Gone
  <2>3. TimerFollows'
    BY <1>3, <2>1 DEF TimerFollows, Having
  <2> QED BY <1>1, <2>2, <2>3
<1>4. CASE pc' = "killed" /\ UNCHANGED loc
  <2>1. pc' \in Gone \ (Idle \union ToggleSteps)
    BY <1>4 DEF Gone, Idle, ToggleSteps, Swapped
  <2> QED BY <1>1, <1>4, <2>1 DEF NothingLeftBehind, AllOrNothing, SwappedInOrder, CallbackFollows, TimerFollows, Idle,
             ToggleSteps, Swapped
<1> QED BY <1>2, <1>3, <1>4

\* Every step keeps the vectors in order, if timers are started and stopped with the
\* vectors taken, but for a signal that ends the program in the middle of a toggle.
LEMMA NextVInv ==
  ASSUME ~TimerWhileOff, VInv, ~loc'.cut, [Next]_vars
  PROVE  VInv'
<1>1. PlacesOK' /\ pc \in Idle \union ToggleSteps \union Gone /\ flags \subseteq {"NoKeys", "Count"}
  BY NextPlaces DEF VInv, PlacesOK, TypeOK
<1>2. "run" \in Idle
  BY DEF Idle
<1>0. loc.cut \in BOOLEAN
  BY DEF VInv, PlacesOK
<1>3. CASE Toggle
  BY <1>0, <1>1, <1>2, <1>3, EnterVInv DEF Toggle, At
<1>4. CASE Swap
  BY <1>4, SwapVInv
<1>5. CASE CbrkFirst \/ CbrkSecond \/ CbrkFlag
  BY <1>5, CbrkVInv
<1>6. CASE ToggleTimer
  BY <1>6, ToggleTimerVInv
<1>7. CASE StartTimer \/ HookTimer \/ StopTimer \/ TimerOff
  BY <1>7, TimerVInv
<1>8. CASE Exit
  BY <1>0, <1>1, <1>2, <1>8, ExitVInv DEF Exit, At
<1>9. CASE _go32_want_ctrl_break \/ _go32_was_ctrl_break_hit
  BY <1>1, <1>9, OtherVInv DEF _go32_want_ctrl_break, _go32_was_ctrl_break_hit, Wanting, At, Idle
<1>10. CASE WantFlag \/ ReadCount \/ ClearCount \/ __djgpp_set_ctrl_c
  BY <1>1, <1>10, OtherVInv DEF WantFlag, ReadCount, ClearCount, __djgpp_set_ctrl_c, At, events, Idle
<1>15. CASE SetMask \/ MaskRight \/ MaskLeft
  BY <1>1, <1>15, OtherVInv DEF SetMask, MaskRight, MaskLeft, StoreMask, At, Idle
<1>11. CASE set_signal_key
  BY <1>1, <1>11, OtherVInv DEF set_signal_key, StoreKey, At, events, Idle
<1>12. CASE __djgpp_kbd_hdlr \/ __djgpp_npx_hdlr \/ __djgpp_timer_hdlr \/ __djgpp_cbrk_hdlr
  BY <1>1, <1>12, OtherVInv
  DEF __djgpp_kbd_hdlr, __djgpp_npx_hdlr, __djgpp_timer_hdlr, __djgpp_cbrk_hdlr, Post, events
<1>13. CASE Fault
  <2>1. UNCHANGED <<hooks, events>> /\ flags' = flags
    BY <1>13 DEF Fault, events
  <2>2. CASE pc' = (IF vec["exc"] = "us" THEN pc ELSE "killed") /\ UNCHANGED loc
    BY <1>1, <2>1, <2>2, OtherVInv
  <2>3. CASE vec["exc"] = "us" /\ ExitTest(loc.cut \/ pc \in ToggleSteps \ {"exc"})
    <3> DEFINE cut == loc.cut \/ pc \in ToggleSteps \ {"exc"}
    <3>1. cut \in BOOLEAN /\ ExitTest(cut)
      BY <2>3
    <3>2. loc'.cut = cut
      BY <3>1 DEF ExitTest, Enter, VInv, PlacesOK
    <3>3. pc \in Idle \/ pc = "exc"
      BY <1>1, <1>13, <3>2 DEF Fault
    <3> HIDE DEF cut
    <3> QED BY <1>1, <2>1, <2>3, <3>1, <3>3, ExitVInv, ExitAgainVInv
  <2> QED BY <1>13, <2>2, <2>3 DEF Fault
<1>14. CASE UNCHANGED vars
  BY <1>1, <1>14, OtherVInv DEF vars, hooks
<1> QED
  BY <1>3, <1>4, <1>5, <1>6, <1>7, <1>8, <1>9, <1>10, <1>11, <1>12, <1>13, <1>14, <1>15 DEF Next

\* A program that a signal ended in the middle of a toggle only gives the vectors back.
CutIsLast == loc.cut => pc \in Gone \/ (pc \in ToggleSteps /\ loc.dir = "off" /\ loc.then = "gone")

\* Once ended in the middle of a toggle, the program stays so.
LEMMA NextCut ==
  ASSUME PlacesOK, CutIsLast, [Next]_vars
  PROVE  CutIsLast' /\ (loc.cut => loc'.cut)
<1> USE DEF PlacesOK, CutIsLast
<1>1. CASE UNCHANGED <<pc, loc>>
  BY <1>1
<1>2. CASE pc \in Idle /\ loc'.cut = loc.cut
  BY <1>2 DEF Idle, Gone, ToggleSteps, Swapped
<1>3. CASE UNCHANGED loc /\ pc \in ToggleSteps /\ (pc' \in ToggleSteps \/ pc' = loc.then)
  BY <1>3 DEF Gone, ToggleSteps, Swapped
<1>4. CASE Toggle \/ Exit
  BY <1>2, <1>4 DEF Toggle, Exit, ExitTest, Enter, At, Idle
<1>5. CASE Swap \/ CbrkFirst \/ CbrkSecond \/ CbrkFlag
  BY <1>3, <1>5, NextVectorFacts DEF Swap, CbrkFirst, CbrkSecond, CbrkFlag, At, ToggleSteps, Swapped
<1>6. CASE ToggleTimer
  BY <1>3, <1>6 DEF ToggleTimer, At, ToggleSteps
<1>7. CASE StartTimer \/ HookTimer \/ StopTimer \/ TimerOff
  BY <1>2, <1>7 DEF StartTimer, HookTimer, StopTimer, TimerOff, MayTime, At, Idle
<1>8. CASE _go32_want_ctrl_break \/ _go32_was_ctrl_break_hit
  BY <1>2, <1>8 DEF _go32_want_ctrl_break, _go32_was_ctrl_break_hit, Wanting, At, Idle
<1>9. CASE WantFlag \/ ReadCount \/ ClearCount \/ __djgpp_set_ctrl_c
  BY <1>2, <1>9 DEF WantFlag, ReadCount, ClearCount, __djgpp_set_ctrl_c, At, Idle
<1>10. CASE set_signal_key \/ SetMask \/ MaskRight \/ MaskLeft
  BY <1>2, <1>10 DEF set_signal_key, StoreKey, SetMask, MaskRight, MaskLeft, StoreMask, At, Idle
<1>11. CASE __djgpp_kbd_hdlr \/ __djgpp_npx_hdlr \/ __djgpp_timer_hdlr \/ __djgpp_cbrk_hdlr
  BY <1>1, <1>11 DEF __djgpp_kbd_hdlr, __djgpp_npx_hdlr, __djgpp_timer_hdlr, __djgpp_cbrk_hdlr, Post
<1>12. CASE Fault
  <2>1. CASE pc' = (IF vec["exc"] = "us" THEN pc ELSE "killed") /\ UNCHANGED loc
    BY <1>1, <2>1 DEF Gone
  <2>2. CASE vec["exc"] = "us" /\ ExitTest(loc.cut \/ pc \in ToggleSteps \ {"exc"})
    BY <2>2 DEF ExitTest, Enter, Order, Gone, ToggleSteps, Swapped
  <2> QED BY <1>12, <2>1, <2>2 DEF Fault
<1>13. CASE UNCHANGED vars
  BY <1>1, <1>13 DEF vars
<1> QED
  BY <1>4, <1>5, <1>6, <1>7, <1>8, <1>9, <1>10, <1>11, <1>12, <1>13 DEF Next

\* The invariant of the vectors, until a signal ends the program in the middle of a toggle.
VInvUntilCut == PlacesOK /\ CutIsLast /\ (loc.cut \/ VInv)

\* The inductive invariant holds at every step.
THEOREM VectorInvariance ==
  ASSUME ~TimerWhileOff
  PROVE  Spec => []VInvUntilCut
<1>1. ASSUME Init PROVE VInvUntilCut
  <2>1. loc.cut = FALSE
    BY <1>1 DEF Init
  <2> QED BY <1>1, <2>1, InitVInv, InitPlaces DEF VInvUntilCut, CutIsLast
<1>2. ASSUME VInvUntilCut, [Next]_vars PROVE VInvUntilCut'
  <2>1. PlacesOK' /\ CutIsLast' /\ (loc.cut => loc'.cut)
    BY <1>2, NextPlaces, NextCut DEF VInvUntilCut
  <2>2. CASE loc.cut
    BY <2>1, <2>2 DEF VInvUntilCut
  <2>3. CASE VInv
    BY <1>2, <2>1, <2>3, NextVInv DEF VInvUntilCut
  <2> QED BY <1>2, <2>2, <2>3 DEF VInvUntilCut
<1> QED BY <1>1, <1>2, PTL DEF Spec

\* Between toggles the program has all of the vectors or none, and at every step the
\* vectors, what the variables remember of them and the Ctrl-Break callback agree
\* (dpmiexcp.c __djgpp_exception_toggle, itimer.c start_timer and stop_timer).
THEOREM VectorsAgree ==
  ASSUME ~TimerWhileOff
  PROVE  Spec => []VectorsOK
<1>1. VInvUntilCut => VectorsOK
  BY DEF VInvUntilCut, VInv, VectorsOK
<1> QED BY <1>1, VectorInvariance, PTL

\* A program that ended through _exit, called by itself or by a handler, left every vector
\* as it found it and no callback, wherever outside of the toggles, or at their first step,
\* a signal ended it.  What is left out is the end in the middle of taking the vectors.
THEOREM LeavesNothingBehind ==
  ASSUME ~TimerWhileOff
  PROVE  Spec => []NothingLeftBehind
<1>1. VInvUntilCut => NothingLeftBehind
  BY DEF VInvUntilCut, VInv, NothingLeftBehind
<1> QED BY <1>1, VectorInvariance, PTL

-----------------------------------------------------------------------------
(* Faults. *)

\* Interrupts that post find the exception vectors taken, but while the vectors are given
\* back: the exceptions are taken first.
LEMMA PostsWhileTaken ==
  ASSUME VInv, MayPost, ~Unhooking, \E v \in {"kbd", "npx", "timer", "cbrk"} : vec[v] = "us"
  PROVE  vec["exc"] = "us"
<1> USE DEF VInv
<1>1. pc \in Idle \union ToggleSteps /\ pc \notin Gone /\ (pc \in ToggleSteps => loc.dir = "on")
  BY DEF MayPost, Unhooking, PlacesOK
<1>2. CASE pc \in Idle
  BY <1>1, <1>2 DEF AllOrNothing, CallbackFollows, TimerFollows, Having, Swapped, ToggleSteps, Idle, TypeOK
<1>3. CASE pc \in ToggleSteps
  BY <1>1, <1>3 DEF SwappedInOrder, CallbackFollows, TimerFollows, Having, Passed, Before, Other, Swapped, ToggleSteps, TypeOK
<1> QED BY <1>1, <1>2, <1>3

\* What is posted while the vectors are not being given back is met by our handler.
LEMMA NextPosted ==
  ASSUME VInvUntilCut, FaultsAreOurs, [Next]_vars
  PROVE  FaultsAreOurs'
<1> USE DEF FaultsAreOurs
<1>1. CASE forced' = "none" /\ pc' # "killed"
  BY <1>1
<1>2. CASE __djgpp_kbd_hdlr \/ __djgpp_npx_hdlr \/ __djgpp_timer_hdlr \/ __djgpp_cbrk_hdlr
  <2>1. UNCHANGED <<hooks, pc, loc>>
    BY <1>2 DEF __djgpp_kbd_hdlr, __djgpp_npx_hdlr, __djgpp_timer_hdlr, __djgpp_cbrk_hdlr, Post
  <2>2. UNCHANGED forced \/ (MayPost /\ \E v \in {"kbd", "npx", "timer", "cbrk"} : vec[v] = "us")
    BY <1>2 DEF __djgpp_kbd_hdlr, __djgpp_npx_hdlr, __djgpp_timer_hdlr, __djgpp_cbrk_hdlr
  <2>3. ASSUME MayPost, \E v \in {"kbd", "npx", "timer", "cbrk"} : vec[v] = "us", vec["exc"] # "us"
        PROVE  Unhooking
    <3>1. CASE loc.cut
      BY <2>3, <3>1 DEF VInvUntilCut, CutIsLast, MayPost, Unhooking
    <3>2. CASE VInv
      BY <2>3, <3>2, PostsWhileTaken
    <3> QED BY <3>1, <3>2 DEF VInvUntilCut
  <2> QED BY <2>1, <2>2, <2>3 DEF hooks, Unhooking
<1>3. CASE Fault
  <2>1. forced # "none" /\ pc \notin Gone /\ forced' = "none"
    BY <1>3 DEF Fault
  <2>2. CASE pc' = (IF vec["exc"] = "us" THEN pc ELSE "killed") /\ UNCHANGED loc
    BY <2>1, <2>2 DEF Unhooking, Gone
  <2>3. CASE ExitTest(loc.cut \/ pc \in ToggleSteps \ {"exc"})
    BY <1>1, <2>1, <2>3 DEF ExitTest, Enter, Order
  <2> QED BY <1>3, <2>2, <2>3 DEF Fault
<1>4. CASE UNCHANGED vars
  BY <1>4 DEF vars, Unhooking
<1>5. CASE Toggle \/ Exit \/ Swap \/ CbrkFirst \/ CbrkSecond \/ CbrkFlag \/ ToggleTimer
  BY <1>1, <1>5, NextVectorFacts DEF Toggle, Exit, ExitTest, Enter, Order, Swap, Swapped, CbrkFirst, CbrkSecond, CbrkFlag,
     ToggleTimer, At, VInvUntilCut, PlacesOK
<1>6. CASE StartTimer \/ HookTimer \/ StopTimer \/ TimerOff
  BY <1>1, <1>6 DEF StartTimer, HookTimer, StopTimer, TimerOff, MayTime, At
<1>7. CASE _go32_want_ctrl_break \/ _go32_was_ctrl_break_hit \/ WantFlag \/ ReadCount \/ ClearCount
  BY <1>1, <1>7 DEF _go32_want_ctrl_break, _go32_was_ctrl_break_hit, Wanting, WantFlag, ReadCount, ClearCount, At
<1>8. CASE set_signal_key \/ SetMask \/ MaskRight \/ MaskLeft \/ __djgpp_set_ctrl_c
  BY <1>1, <1>8 DEF set_signal_key, StoreKey, SetMask, MaskRight, MaskLeft, StoreMask, __djgpp_set_ctrl_c, At
<1> QED BY <1>2, <1>3, <1>4, <1>5, <1>6, <1>7, <1>8 DEF Next

\* What interrupts post is met by the program's own handler, at every step but those
\* between giving the exception vectors back and giving the others back: only there does
\* the handler of the host meet it and end the program.
THEOREM FaultsMeetOurHandler ==
  ASSUME ~TimerWhileOff
  PROVE  Spec => []FaultsAreOurs
<1>1. Init => FaultsAreOurs
  BY DEF Init, FaultsAreOurs, Order
<1>2. VInvUntilCut /\ FaultsAreOurs /\ [Next]_vars => FaultsAreOurs'
  BY NextPosted
<1> QED BY <1>1, <1>2, VectorInvariance, PTL DEF Spec

-----------------------------------------------------------------------------
(* Ctrl-Break presses. *)

\* Every step keeps the count of what was told for the presses.
LEMMA NextCount ==
  ASSUME PlacesOK, CountKept, NoPressIsToldTwice, [Next]_vars
  PROVE  CountKept' /\ NoPressIsToldTwice'
<1> USE DEF PlacesOK, CountKept, NoPressIsToldTwice
<1>1. CASE UNCHANGED <<count, press>> /\ pc' # "clear"
  BY <1>1
<1>2. ASSUME NEW yes \in BOOLEAN, NEW hit \in BOOLEAN, Wanting(yes, hit) PROVE CountKept' /\ NoPressIsToldTwice'
  BY <1>2 DEF Wanting
<1>3. CASE ReadCount
  BY <1>3 DEF ReadCount, events
<1>4. CASE ClearCount
  BY <1>4 DEF ClearCount, At
<1>5. CASE __djgpp_cbrk_hdlr
  BY <1>5 DEF __djgpp_cbrk_hdlr, Post, events
<1>6. CASE UNCHANGED <<count, press, pc, loc>>
  BY <1>6
<1>7. CASE Fault
  BY <1>6, <1>7 DEF Fault, ExitTest, Enter, Order, events
<1>8. CASE Swap
  BY <1>8, NextVectorFacts DEF Swap, Swapped, events
<1>9. CASE ToggleTimer
  BY <1>9 DEF ToggleTimer, events
<1>10. CASE Toggle \/ Exit
  BY <1>10 DEF Toggle, Exit, ExitTest, Enter, Order, events
<1> QED
  BY <1>1, <1>2, <1>3, <1>4, <1>5, <1>6, <1>7, <1>8, <1>9, <1>10 DEF Next, CbrkFirst, CbrkSecond, CbrkFlag,
     StartTimer, HookTimer, StopTimer, TimerOff, _go32_want_ctrl_break, _go32_was_ctrl_break_hit, WantFlag,
     set_signal_key, StoreKey, SetMask, MaskRight, MaskLeft, StoreMask, __djgpp_set_ctrl_c, __djgpp_kbd_hdlr,
     __djgpp_npx_hdlr, __djgpp_timer_hdlr, Post, events, vars

\* No press of Ctrl-Break is reported twice, whatever the program does: a press between
\* the reading and the clearing of the count is lost, none is doubled (go32cbrk.c).
THEOREM PressesAreToldOnce == Spec => []NoPressIsToldTwice
<1>1. Init => CountKept /\ NoPressIsToldTwice
  BY DEF Init, CountKept, NoPressIsToldTwice, Order
<1>2. PlacesOK /\ CountKept /\ NoPressIsToldTwice /\ [Next]_vars => (CountKept /\ NoPressIsToldTwice)'
  BY NextCount
<1>3. PlacesOK /\ [Next]_vars => PlacesOK'
  BY NextPlaces
<1> QED BY <1>1, <1>2, <1>3, InitPlaces, PTL DEF Spec

-----------------------------------------------------------------------------
(* Signal keys. *)

\* The statuses that the masks of set_signal_key can express: nothing but shift, Ctrl and
\* Alt, no left shift with Ctrl or Alt, and the right shift alone only together with the left.
Expressible(k) ==
  /\ "X" \notin k
  /\ k \intersect {"C", "A"} # {} => "L" \notin k
  /\ k \intersect {"C", "A"} = {} /\ "R" \in k => "L" \in k

\* The mask in terms of single keys.
LEMMA MaskFacts ==
  ASSUME NEW k \in SUBSET Bits
  PROVE  /\ "C" \in MaskFor(k) /\ "A" \in MaskFor(k) /\ "X" \notin MaskFor(k)
         /\ "R" \in MaskFor(k) <=> "R" \in k
         /\ "L" \in MaskFor(k) <=> "C" \notin k /\ "A" \notin k
         /\ MaskFor(k) \subseteq Bits
BY DEF MaskFor, Bits

\* What the keyboard's status says of the keys held down.
LEMMA StatusFacts ==
  ASSUME NEW down \in SUBSET {"R", "L", "C", "A"}
  PROVE  /\ "C" \in Status(down) <=> "C" \in down
         /\ "A" \in Status(down) <=> "A" \in down
         /\ "R" \in Status(down) <=> "R" \in down
         /\ "L" \in Status(down) <=> "L" \in down \/ "R" \in down
         /\ "X" \notin Status(down)
BY DEF Status

\* Two statuses are the same if they agree on each of the five bits.
LEMMA SameBits ==
  ASSUME NEW S, NEW k \in SUBSET Bits, S \subseteq Bits
  PROVE  S = k <=> /\ ("R" \in S <=> "R" \in k) /\ ("L" \in S <=> "L" \in k) /\ ("C" \in S <=> "C" \in k)
                   /\ ("A" \in S <=> "A" \in k) /\ ("X" \in S <=> "X" \in k)
<1>1. ASSUME ("R" \in S <=> "R" \in k) /\ ("L" \in S <=> "L" \in k) /\ ("C" \in S <=> "C" \in k)
             /\ ("A" \in S <=> "A" \in k) /\ ("X" \in S <=> "X" \in k)
      PROVE  S = k
  <2>1. \A b : b \in S => b \in k
    BY <1>1 DEF Bits
  <2>2. \A b : b \in k => b \in S
    BY <1>1 DEF Bits
  <2> QED BY <2>1, <2>2
<1> QED BY <1>1

\* What the comparison of the interrupt handler amounts to.
LEMMA ComparisonFacts ==
  ASSUME NEW k \in SUBSET Bits, NEW down \in SUBSET {"R", "L", "C", "A"}
  PROVE  Status(down) \intersect MaskFor(k) = k <=>
           /\ ("R" \in k => "R" \in down)
           /\ ("C" \in down <=> "C" \in k) /\ ("A" \in down <=> "A" \in k) /\ "X" \notin k
           /\ ("L" \in k <=> ("L" \in down \/ "R" \in down) /\ "C" \notin k /\ "A" \notin k)
<1> DEFINE S == Status(down) \intersect MaskFor(k)
<1>1. S \subseteq Bits
  BY MaskFacts
<1>2. /\ ("R" \in S <=> "R" \in down /\ "R" \in k) /\ ("C" \in S <=> "C" \in down) /\ ("A" \in S <=> "A" \in down)
      /\ ("L" \in S <=> ("L" \in down \/ "R" \in down) /\ "C" \notin k /\ "A" \notin k) /\ "X" \notin S
  BY MaskFacts, StatusFacts
<1> HIDE DEF S
<1>3. S = k <=> /\ ("R" \in S <=> "R" \in k) /\ ("L" \in S <=> "L" \in k) /\ ("C" \in S <=> "C" \in k)
                /\ ("A" \in S <=> "A" \in k) /\ ("X" \in S <=> "X" \in k)
  BY <1>1, SameBits
<1>4. S = k <=> /\ ("R" \in k => "R" \in down)
           /\ ("C" \in down <=> "C" \in k) /\ ("A" \in down <=> "A" \in k) /\ "X" \notin k
           /\ ("L" \in k <=> ("L" \in down \/ "R" \in down) /\ "C" \notin k /\ "A" \notin k)
  BY <1>2, <1>3
<1> QED BY <1>4 DEF S

\* What Wanted says, key by key.
LEMMA WantedFacts ==
  ASSUME NEW sig, NEW scan, NEW down \in SUBSET {"R", "L", "C", "A"}, NEW k \in SUBSET Bits, keys[sig].status = k
  PROVE  Wanted(sig, scan, down) <=>
           /\ scan = keys[sig].scan
           /\ ("C" \in down <=> "C" \in k) /\ ("A" \in down <=> "A" \in k)
           /\ ("R" \in k => "R" \in down)
           /\ "C" \notin k /\ "A" \notin k => ("R" \in k \/ "L" \in k <=> "R" \in down \/ "L" \in down)
<1>1. down \intersect {"C", "A"} = k \intersect {"C", "A"} <=>
        ("C" \in down <=> "C" \in k) /\ ("A" \in down <=> "A" \in k)
  OBVIOUS
<1>2. k \intersect {"C", "A"} = {} <=> "C" \notin k /\ "A" \notin k
  OBVIOUS
<1>3. k \intersect {"R", "L"} # {} <=> "R" \in k \/ "L" \in k
  OBVIOUS
<1>4. down \intersect {"R", "L"} # {} <=> "R" \in down \/ "L" \in down
  OBVIOUS
<1> QED BY <1>1, <1>2, <1>3, <1>4 DEF Wanted

\* A key is recognised exactly when its status is one that the mask can express: for
\* every other key (left shift with Ctrl or Alt, the right shift alone, a bit that is
\* none of the four) the handler of the keyboard misses the keys the program asked for.
THEOREM RecognisedIffExpressible ==
  ASSUME NEW sig, NEW k \in SUBSET Bits, keys[sig].status = k, keys[sig].mask = MaskFor(k)
  PROVE  (\A scan : \A down \in SUBSET {"R", "L", "C", "A"} : Matches(sig, scan, down) <=> Wanted(sig, scan, down))
           <=> Expressible(k)
<1>1. ASSUME Expressible(k), NEW scan, NEW down \in SUBSET {"R", "L", "C", "A"}
      PROVE  Matches(sig, scan, down) <=> Wanted(sig, scan, down)
  <2>1. Matches(sig, scan, down) <=> scan = keys[sig].scan /\ Status(down) \intersect MaskFor(k) = k
    BY DEF Matches
  <2>2. "X" \notin k /\ ("C" \in k \/ "A" \in k => "L" \notin k) /\ ("C" \notin k /\ "A" \notin k /\ "R" \in k => "L" \in k)
    BY <1>1 DEF Expressible
  <2> QED BY <2>1, <2>2, ComparisonFacts, WantedFacts
<1>2. ASSUME ~Expressible(k)
      PROVE  \E scan : \E down \in SUBSET {"R", "L", "C", "A"} : Wanted(sig, scan, down) /\ ~Matches(sig, scan, down)
  <2> DEFINE down == k \intersect {"R", "L", "C", "A"}
  <2>1. Wanted(sig, keys[sig].scan, down)
    BY WantedFacts
  <2>2. "X" \in k \/ (("C" \in k \/ "A" \in k) /\ "L" \in k) \/ ("C" \notin k /\ "A" \notin k /\ "R" \in k /\ "L" \notin k)
    BY <1>2 DEF Expressible
  <2>3. Status(down) \intersect MaskFor(k) # k
    BY <2>2, ComparisonFacts
  <2> QED BY <2>1, <2>3 DEF Matches
<1> QED BY <1>1, <1>2

\* Every step keeps the masks with their keys: set_signal_key stores the key before the mask.
LEMMA NextMasks ==
  ASSUME PlacesOK, MasksFollow, [Next]_vars
  PROVE  MasksFollow'
<1> USE DEF PlacesOK, MasksFollow, Masking
<1>1. CASE UNCHANGED <<keys, pc, loc>>
  BY <1>1
<1>2. CASE UNCHANGED keys /\ pc \in Idle \ Masking /\ pc' \notin Masking
  BY <1>2
<1>3. CASE UNCHANGED <<keys, loc>> /\ pc \in ToggleSteps /\ (pc' \in ToggleSteps \/ pc' = loc.then)
  BY <1>3 DEF Idle, ToggleSteps, Swapped
<1>4. CASE UNCHANGED keys /\ ((pc' = "exc" /\ loc'.then = "gone") \/ pc' \in Gone)
  BY <1>4 DEF Idle, ToggleSteps, Swapped, Gone
<1>5. CASE Toggle \/ Exit
  <2>1. pc = "run" /\ UNCHANGED keys /\ pc' \notin Masking
    BY <1>5 DEF Toggle, Exit, ExitTest, At, Enter, Order, events
  <2> QED BY <1>2, <2>1 DEF Idle
<1>6. CASE Swap \/ CbrkFirst \/ CbrkSecond \/ CbrkFlag
  BY <1>3, <1>6, NextVectorFacts DEF Swap, CbrkFirst, CbrkSecond, CbrkFlag, At, events, ToggleSteps, Swapped
<1>7. CASE ToggleTimer
  BY <1>3, <1>7 DEF ToggleTimer, At, events, ToggleSteps
<1>8. CASE StartTimer \/ HookTimer \/ StopTimer \/ TimerOff
  BY <1>2, <1>8 DEF StartTimer, HookTimer, StopTimer, TimerOff, MayTime, At, events, Idle
<1>9. CASE _go32_want_ctrl_break \/ _go32_was_ctrl_break_hit
  BY <1>2, <1>9 DEF _go32_want_ctrl_break, _go32_was_ctrl_break_hit, Wanting, At, Idle
<1>10. CASE WantFlag \/ ReadCount \/ ClearCount \/ __djgpp_set_ctrl_c
  BY <1>2, <1>10 DEF WantFlag, ReadCount, ClearCount, __djgpp_set_ctrl_c, At, Idle, events
<1>11. ASSUME NEW sig \in DOMAIN keys, NEW scan \in Scans, NEW status \in Keys, StoreKey(sig, scan, status)
       PROVE  MasksFollow'
  <2>0. pc = "run" /\ pc' = "mask" /\ sig \in {"SIGINT", "SIGQUIT"}
    BY <1>11 DEF StoreKey, At
  <2>1. loc'.sig = sig /\ loc'.key = status
    BY <1>11 DEF StoreKey
  <2>2. keys'[sig].status = status
    <3> HIDE DEF MasksFollow, Masking
    <3>1. keys' = [keys EXCEPT ![sig] = [@ EXCEPT !.scan = scan, !.status = status]]
      BY <1>11 DEF StoreKey
    <3>2. keys[sig] \in [scan : Nat, status : Statuses, mask : SUBSET Bits]
      BY <2>0
    <3>3. keys'[sig] = [keys[sig] EXCEPT !.scan = scan, !.status = status]
      BY <3>1
    <3> QED BY <3>2, <3>3
  <2>3. \A other \in {"SIGINT", "SIGQUIT"} \ {sig} : keys'[other] = keys[other]
    BY <1>11 DEF StoreKey
  <2> QED BY <2>0, <2>1, <2>2, <2>3 DEF Idle
<1>12. ASSUME NEW next \in {"maskR", "maskL", "run"}, NEW mask, pc \in Masking, StoreMask(next, mask)
       PROVE  /\ pc' = next /\ loc' = loc /\ keys'[loc.sig].mask = mask
              /\ keys'[loc.sig].status = keys[loc.sig].status /\ loc.key = keys[loc.sig].status
              /\ \A sig \in {"SIGINT", "SIGQUIT"} \ {loc.sig} :
                   keys'[sig] = keys[sig] /\ keys'[sig].mask = MaskFor(keys'[sig].status)
  BY <1>12 DEF StoreMask, Idle
<1>16. CASE SetMask
  BY <1>12, <1>16 DEF SetMask, At
<1>17. CASE MaskRight
  BY <1>12, <1>17 DEF MaskRight, At, Idle
<1>18. CASE MaskLeft
  <2>1. keys[loc.sig].mask \ (IF loc.key \intersect {"C", "A"} # {} THEN {"L"} ELSE {}) = MaskFor(loc.key)
    BY <1>18 DEF MaskLeft, At, Idle, MaskFor
  <2>2. pc \in Masking /\ StoreMask("run", MaskFor(loc.key))
    BY <1>18, <2>1 DEF MaskLeft, At
  <2>3. PICK m : m = MaskFor(loc.key)
    OBVIOUS
  <2>4. /\ pc' = "run" /\ loc' = loc /\ keys'[loc.sig].mask = m
        /\ keys'[loc.sig].status = keys[loc.sig].status /\ loc.key = keys[loc.sig].status
        /\ \A sig \in {"SIGINT", "SIGQUIT"} \ {loc.sig} :
             keys'[sig] = keys[sig] /\ keys'[sig].mask = MaskFor(keys'[sig].status)
    BY <1>12, <2>2, <2>3
  <2>5. keys'[loc.sig].mask = MaskFor(keys'[loc.sig].status)
    BY <2>3, <2>4
  <2> QED BY <2>4, <2>5
<1>13. CASE __djgpp_kbd_hdlr \/ __djgpp_npx_hdlr \/ __djgpp_timer_hdlr \/ __djgpp_cbrk_hdlr
  BY <1>1, <1>13 DEF __djgpp_kbd_hdlr, __djgpp_npx_hdlr, __djgpp_timer_hdlr, __djgpp_cbrk_hdlr, Post, events
<1>14. CASE Fault
  <2>1. UNCHANGED keys
    BY <1>14 DEF Fault, events
  <2>2. CASE pc' = (IF vec["exc"] = "us" THEN pc ELSE "killed") /\ UNCHANGED loc
    BY <1>1, <1>4, <2>1, <2>2 DEF Gone
  <2>3. CASE ExitTest(loc.cut \/ pc \in ToggleSteps \ {"exc"})
    <3>1. CASE Enter("gone", loc.cut \/ pc \in ToggleSteps \ {"exc"})
      BY <1>4, <2>1, <3>1 DEF Enter, Order
    <3>2. CASE pc' = "gone"
      BY <1>4, <2>1, <3>2 DEF Gone
    <3> QED BY <2>3, <3>1, <3>2 DEF ExitTest
  <2> QED BY <1>14, <2>2, <2>3 DEF Fault
<1>15. CASE UNCHANGED vars
  BY <1>1, <1>15 DEF vars
<1> QED
  BY <1>5, <1>6, <1>7, <1>8, <1>9, <1>10, <1>11, <1>13, <1>14, <1>15, <1>16, <1>17, <1>18 DEF Next, set_signal_key

\* A key makes the signal when exactly the keys it names are down, for every set of keys
\* that the masks can express, however set_signal_key is interrupted.
THEOREM KeysMakeTheirSignals ==
  ASSUME \A k \in Keys : Expressible(k)
  PROVE  Spec => []KeysAreRecognised
<1>1. ASSUME Init PROVE MasksFollow
  <2>1. pc = "exc"
    BY <1>1 DEF Init, Order
  <2>2. \A sig \in {"SIGINT", "SIGQUIT"} : keys[sig] = Key(IF sig = "SIGINT" THEN 46 ELSE 43, {"C"})
    BY <1>1 DEF Init
  <2>3. \A scan : Key(scan, {"C"}).status = {"C"} /\ Key(scan, {"C"}).mask = MaskFor({"C"})
    BY DEF Key
  <2>4. \A sig \in {"SIGINT", "SIGQUIT"} : keys[sig].mask = MaskFor(keys[sig].status)
    BY <2>2, <2>3
  <2> QED BY <2>1, <2>4 DEF MasksFollow, Masking
<1>2. PlacesOK /\ MasksFollow /\ [Next]_vars => MasksFollow'
  BY NextMasks
<1>3. PlacesOK /\ [Next]_vars => PlacesOK'
  BY NextPlaces
<1>4. \A k \in Statuses : k \in SUBSET Bits /\ Expressible(k)
  BY KeyAssumption DEF Statuses, Bits, Expressible
<1>5. ASSUME PlacesOK, MasksFollow, pc = "run", NEW sig \in DOMAIN keys
      PROVE  \A scan : \A down \in SUBSET {"R", "L", "C", "A"} : Matches(sig, scan, down) <=> Wanted(sig, scan, down)
  <2>1. keys[sig].status \in Statuses /\ keys[sig].mask = MaskFor(keys[sig].status)
    BY <1>5 DEF PlacesOK, MasksFollow, Masking, Idle
  <2> QED BY <1>4, <2>1, RecognisedIffExpressible
<1>6. PlacesOK /\ MasksFollow => KeysAreRecognised
  BY <1>5 DEF KeysAreRecognised
<1> QED BY <1>1, <1>2, <1>3, <1>6, InitPlaces, PTL DEF Spec
=============================================================================
